--------------------------- MODULE FastFairProofs ---------------------------
(***************************************************************************)
(* What the leaf pages keep under a writer that shifts and splits, for     *)
(* every page size, number of pages, set of records and scan range.        *)
(***************************************************************************)
EXTENDS FastFair, FiniteSetTheorems, FunctionTheorems, WellFoundedInduction, SequenceTheorems, TLAPS

LEMMA LeastExists ==
  ASSUME NEW S, S \subseteq Nat, S # {}
  PROVE  \E n \in S : \A m \in S : n <= m
<1>1. PICK n \in S : \A m \in S : ~ (<<m, n>> \in OpToRel(<, Nat))
  BY NatLessThanWellFounded, WFMin
<1>2. \A m \in S : ~ (m < n)
  BY <1>1 DEF OpToRel
<1>3. QED
  BY <1>2

Keys == [Word -> Nat]

-----------------------------------------------------------------------------
(* The parts of the inductive invariant.                                   *)

PageTypes ==
  /\ key \in [Page -> [Slot -> Keys]]
  /\ ptr \in [Page -> [Slot -> Rec \cup {Null}]]
  /\ sibling \in [Page -> Page \cup {Null}]
  /\ counter \in [Page -> {n \in 0 .. 255 : n % 2 = 0}]
  /\ last \in [Page -> -1 .. Card - 2]

Splitting == {"publish", "bump", "cut"}
Entry == {"end", "shift", "move", "key", "ptr"}

WriterTypes ==
  w \in [pc : {"idle"} \cup Splitting \cup Entry, rec : Rec \cup {Null},
         page : Page, new : Page \cup {Null}, n : 0 .. Card - 2,
         hole : 0 .. Card - 2, word : Word]

ScanTypes ==
  r \in [pc : {"idle", "page", "key", "ptr", "left", "again", "test", "check",
               "hop", "stopped", "ended"},
         page : Page, i : Slot, word : Word, tmp : Keys, p : Rec \cup {Null},
         ctr : Nat, old : Nat, min : Keys, max : Keys, buf : Seq(Rec)]

(* The last entry of a page is never used, and a page that is in the chain *)
(* and not the leftmost one is never empty.                                *)
Terminated == \A p \in Page : ptr[p][Card - 1] = Null
NotEmpty   == \A p \in Linked \ {First} : last[p] >= 0

(* The half that was split off is whole before anyone can see it, and      *)
(* begins with the first key of the old page's upper half.                 *)
SplitReady ==
  w.pc \in Splitting =>
    /\ w.rec \in Rec /\ w.n >= 1
    /\ w.new \in Page \ {First} /\ w.new # w.page
    /\ last[w.new] \in 0 .. Card - 3
    /\ ptr[w.new][last[w.new] + 1] = Null
    /\ key[w.new][0] = key[w.page][w.n]
    /\ w.page # First => ~Less(KeyOf[w.rec], key[w.page][0])

(* The hole never reaches the first slot of a page that is not the         *)
(* leftmost one: the new key is not below the key there.                   *)
HoleInPage ==
  w.pc \in Entry =>
    /\ w.rec \in Rec
    /\ w.pc = "end" => ptr[w.page][w.n] = Null
    /\ w.pc = "move" => w.hole >= 1
    /\ w.page # First =>
         /\ ~Less(KeyOf[w.rec], key[w.page][0])
         /\ w.hole >= 1
         /\ w.pc = "move" => w.hole >= 2

(* A scan that looks at an entry has seen that the page does not end there.*)
ScanInPage ==
  /\ r.pc \in {"key", "ptr", "left", "again"} => r.i <= Card - 2
  /\ r.old <= Len(r.buf)

PageInv == PageTypes /\ WriterTypes /\ Terminated /\ NotEmpty /\ SplitReady /\ HoleInPage
FastFairInv == PageInv /\ ScanTypes /\ ScanInPage

-----------------------------------------------------------------------------
(* The choices the model makes are defined.                                *)

LEMMA CountInPage ==
  ASSUME PageInv, NEW p \in Page
  PROVE  /\ Count(p) \in Slot /\ Count(p) > last[p]
         /\ ptr[p][Count(p)] = Null
         /\ \A i \in last[p] + 1 .. Count(p) - 1 : ptr[p][i] # Null
<1> DEFINE S == {n \in Slot : n > last[p] /\ ptr[p][n] = Null}
<1>1. Card - 1 \in S /\ S \subseteq Nat
  BY FastFairAssumption DEF PageInv, PageTypes, Terminated, Slot
<1>2. PICK n \in S : \A m \in S : n <= m
  BY <1>1, LeastExists
<1>3. \A i \in last[p] + 1 .. n - 1 : ptr[p][i] # Null
  <2> SUFFICES ASSUME NEW i \in last[p] + 1 .. n - 1, ptr[p][i] = Null PROVE FALSE
    OBVIOUS
  <2>1. last[p] \in -1 .. Card - 2 /\ n \in Nat /\ n \in Slot
    BY <1>1, <1>2 DEF PageInv, PageTypes
  <2>2. i \in Slot /\ i > last[p] /\ i < n
    BY <2>1, FastFairAssumption DEF Slot
  <2>3. i \in S
    BY <2>2
  <2>4. n <= i
    BY <1>2, <2>3
  <2>5. QED
    BY <2>1, <2>2, <2>4, FastFairAssumption DEF Slot
<1>4. n \in Slot /\ n > last[p] /\ ptr[p][n] = Null
  BY <1>2
<1>5. \E m \in Slot : /\ m > last[p] /\ ptr[p][m] = Null
                      /\ \A i \in last[p] + 1 .. m - 1 : ptr[p][i] # Null
  BY <1>3, <1>4
<1>6. QED
  BY <1>5 DEF Count

LEMMA NewPageIsUnlinked ==
  ASSUME Linked # Page
  PROVE  NewPage \in Page /\ NewPage \notin Linked
<1> DEFINE S == Page \ Linked
<1>1. Linked \subseteq Page
  <2>1. First \in Page
    BY FastFairAssumption DEF First, Page
  <2>2. QED
    BY <2>1 DEF Linked
<1>2. S \subseteq Nat /\ S # {}
  <2>1. Page \subseteq Nat
    BY FastFairAssumption DEF Page
  <2>2. QED
    BY <1>1, <2>1
<1>3. PICK p \in S : \A q \in S : p <= q
  BY <1>2, LeastExists
<1>4. \E x \in Page : x \notin Linked /\ \A q \in Page \ Linked : x <= q
  BY <1>3
<1>5. QED
  BY <1>4 DEF NewPage

LEMMA Constants ==
  /\ First \in Page /\ Null \notin Page /\ Null \notin Rec
  /\ Card \in Nat /\ Card >= 4 /\ NumWord \in Nat \ {0}
  /\ 0 \in Slot /\ 1 \in Word /\ ZeroKey \in Keys /\ Slot = 0 .. Card - 1
  /\ \A x \in Rec : KeyOf[x] \in Keys
  /\ \A b \in Bounds : b[1] \in Keys /\ b[2] \in Keys
<1>1. \A x \in Rec : KeyOf[x] \in Keys
  BY FastFairAssumption DEF Keys
<1>2. QED
  BY <1>1, FastFairAssumption DEF First, Page, Null, Slot, Word, ZeroKey, Keys

-----------------------------------------------------------------------------
LEMMA InvInit == Init => FastFairInv
<1> SUFFICES ASSUME Init PROVE FastFairInv
  OBVIOUS
<1> USE Constants
<1>f. PICK f \in Arrangements :
        /\ key = [p \in Page |-> [i \in Slot |->
                   IF p = First /\ i \in DOMAIN f THEN KeyOf[f[i]] ELSE ZeroKey]]
        /\ ptr = [p \in Page |-> [i \in Slot |->
                   IF p = First /\ i \in DOMAIN f THEN f[i] ELSE Null]]
  BY DEF Init
<1>c. Cardinality(Preload) - 1 \in -1 .. Card - 2
  BY FS_CardinalityType, FastFairAssumption
<1>d. DOMAIN f = 0 .. Cardinality(Preload) - 1 /\ \A i \in DOMAIN f : f[i] \in Rec
  BY FastFairAssumption DEF Arrangements
<1>1. PageTypes
  <2>1. key \in [Page -> [Slot -> Keys]]
    BY <1>f, <1>d
  <2>2. ptr \in [Page -> [Slot -> Rec \cup {Null}]]
    BY <1>f, <1>d
  <2>3. QED
    BY <2>1, <2>2, <1>c DEF Init, PageTypes
<1>2. WriterTypes /\ SplitReady /\ HoleInPage
  BY DEF Init, IdleWriter, WriterTypes, SplitReady, HoleInPage, Splitting, Entry
<1>3. Terminated
  <2>1. Card - 1 \notin DOMAIN f
    BY <1>c, <1>d
  <2>2. QED
    BY <1>f, <2>1 DEF Terminated
<1>4. NotEmpty
  BY DEF Init, NotEmpty, Linked
<1>5. ScanTypes /\ ScanInPage
  BY EmptySeq DEF Init, IdleScan, ScanTypes, ScanInPage
<1>6. QED
  BY <1>1, <1>2, <1>3, <1>4, <1>5 DEF FastFairInv, PageInv

-----------------------------------------------------------------------------
(* The writer.                                                             *)

LEMMA StoreFastKeeps ==
  ASSUME PageInv, NEW x \in Rec, NEW p \in Page, StoreFast(x, p)
  PROVE  PageInv'
<1> USE Constants
<1>1. /\ Count(p) \in 0 .. Card - 2 /\ ptr[p][Count(p)] = Null
      /\ p # First => Count(p) >= 1
  <2>1. Count(p) \in 0 .. Card - 2 /\ ptr[p][Count(p)] = Null /\ Count(p) > last[p]
    BY CountInPage DEF StoreFast
  <2>2. p # First => last[p] >= 0
    BY DEF StoreFast, IsTarget, PageInv, NotEmpty
  <2>3. last[p] \in Int
    BY DEF PageInv, PageTypes
  <2>4. QED
    BY <2>1, <2>2, <2>3
<1>2. p # First => ~Less(KeyOf[x], key[p][0])
  BY DEF StoreFast, IsTarget
<1>3. UNCHANGED pageVars /\ w' = Entering(x, p, Count(p))
  BY DEF StoreFast
<1>4. /\ w'.pc = IF Count(p) = 0 THEN "key" ELSE "end"
      /\ w'.rec = x /\ w'.page = p /\ w'.n = Count(p) /\ w'.hole = Count(p)
      /\ WriterTypes'
  BY <1>1, <1>3 DEF Entering, IdleWriter, WriterTypes, Entry, Splitting
<1>5. HoleInPage' /\ SplitReady'
  BY <1>1, <1>2, <1>3, <1>4 DEF HoleInPage, SplitReady, Splitting, pageVars
<1>6. QED
  BY <1>3, <1>4, <1>5 DEF PageInv, PageTypes, Terminated, NotEmpty, Linked, pageVars

LEMMA StoreSplitKeeps ==
  ASSUME PageInv, NEW x \in Rec, NEW p \in Page, StoreSplit(x, p)
  PROVE  /\ PageInv'
         /\ \A q \in Linked : key'[q] = key[q]
<1> USE Constants
<1> DEFINE s == NewPage
           c == Count(p)
           m == c \div 2
           Up(f, none) == [i \in Slot |-> IF i + m < c THEN f[i + m] ELSE none]
<1>1. c = Card - 1 /\ m >= 1 /\ m <= Card - 2 /\ c - m - 1 \in 0 .. Card - 3 /\ m \in Nat
  <2>1. c \in Slot /\ c >= Card - 1
    BY CountInPage DEF StoreSplit
  <2>2. QED
    BY <2>1
<1>2. s \in Page /\ s \notin Linked /\ p \in Linked /\ First \in Linked
  BY NewPageIsUnlinked DEF StoreSplit, IsTarget, Linked
<1>3. /\ key' = [key EXCEPT ![s] = Up(key[p], ZeroKey)]
      /\ ptr' = [ptr EXCEPT ![s] = Up(ptr[p], Null)]
      /\ last' = [last EXCEPT ![s] = c - m - 1]
      /\ sibling' = [sibling EXCEPT ![s] = sibling[p]]
      /\ w' = [IdleWriter EXCEPT !.pc = "publish", !.rec = x, !.page = p,
                                 !.new = s, !.n = m]
      /\ counter' = counter
  BY DEF StoreSplit
<1>4. p # First => ~Less(KeyOf[x], key[p][0])
  BY DEF StoreSplit, IsTarget
<1> HIDE DEF c, m, s
<1>5. Up(key[p], ZeroKey) \in [Slot -> Keys] /\ Up(ptr[p], Null) \in [Slot -> Rec \cup {Null}]
  <2>1. key[p] \in [Slot -> Keys] /\ ptr[p] \in [Slot -> Rec \cup {Null}]
    BY DEF PageInv, PageTypes
  <2>2. \A i \in Slot : i + m < c => i + m \in Slot
    BY <1>1
  <2>3. QED
    BY <2>1, <2>2
<1>6. PageTypes'
  BY SMTT(30), <1>1, <1>2, <1>3, <1>5 DEF PageInv, PageTypes
<1>7. /\ w'.pc = "publish" /\ w'.rec = x /\ w'.page = p /\ w'.new = s /\ w'.n = m
      /\ WriterTypes'
  <2>1. w' = [pc |-> "publish", rec |-> x, page |-> p, new |-> s, n |-> m,
              hole |-> 0, word |-> 1]
    BY <1>3 DEF IdleWriter
  <2>2. m \in 0 .. Card - 2 /\ 0 \in 0 .. Card - 2
    BY <1>1
  <2>3. WriterTypes'
    BY <1>2, <2>1, <2>2 DEF WriterTypes, Splitting
  <2>4. QED
    BY <2>1, <2>3
<1>8. Terminated'
  <2>1. Up(ptr[p], Null)[Card - 1] = Null
    BY <1>1
  <2>2. QED
    BY <1>2, <1>3, <2>1 DEF PageInv, PageTypes, Terminated
<1>9. NotEmpty'
  <2> SUFFICES ASSUME NEW q \in Linked' \ {First} PROVE last'[q] >= 0
    BY DEF NotEmpty
  <2>1. q = s \/ q \in Linked
    <3>1. PICK h \in Page : sibling'[h] = q
      BY DEF Linked
    <3>2. sibling'[h] = sibling[h] \/ sibling'[h] = sibling[p]
      BY <1>2, <1>3 DEF PageInv, PageTypes
    <3>3. q \in Page
      BY DEF Linked
    <3>4. QED
      BY <3>1, <3>2, <3>3 DEF Linked
  <2>2. q = s => last'[q] >= 0
    BY <1>1, <1>2, <1>3 DEF PageInv, PageTypes
  <2>3. q # s => last'[q] >= 0
    BY <2>1, <1>2, <1>3 DEF PageInv, PageTypes, NotEmpty
  <2>4. QED
    BY <2>2, <2>3
<1>10. SplitReady' /\ HoleInPage'
  <2>1. s # p /\ s # First /\ key'[p] = key[p]
    BY <1>2, <1>3 DEF PageInv, PageTypes
  <2>2. last'[s] = c - m - 1
    BY <1>2, <1>3 DEF PageInv, PageTypes
  <2>3. ptr'[s][c - m] = Null
    <3>1. c - m \in Slot /\ ~ ((c - m) + m < c)
      BY <1>1
    <3>2. Up(ptr[p], Null)[c - m] = Null
      BY <3>1
    <3>3. QED
      BY <1>2, <1>3, <3>2 DEF PageInv, PageTypes
  <2>4. key'[s][0] = key[p][m]
    <3>1. 0 + m < c /\ 0 + m = m
      BY <1>1
    <3>2. Up(key[p], ZeroKey)[0] = key[p][m]
      BY <3>1
    <3>3. QED
      BY <1>2, <1>3, <3>2 DEF PageInv, PageTypes
  <2>5. last'[s] + 1 = c - m
    BY <1>1, <2>2
  <2>6. QED
    BY <1>1, <1>2, <1>4, <1>7, <2>1, <2>2, <2>3, <2>4, <2>5
       DEF SplitReady, HoleInPage, Splitting, Entry
<1>11. \A q \in Linked : key'[q] = key[q]
  BY <1>2, <1>3 DEF PageInv, PageTypes
<1>12. QED
  BY <1>6, <1>7, <1>8, <1>9, <1>10, <1>11 DEF PageInv

LEMMA LinkSame == sibling' = sibling => Linked' = Linked
  BY DEF Linked

LEMMA PublishKeeps ==
  ASSUME PageInv, Publish
  PROVE  PageInv'
<1> USE Constants
<1>1. /\ w.pc = "publish" /\ w.new \in Page \ {First} /\ w.page \in Page
      /\ sibling' = [sibling EXCEPT ![w.page] = w.new]
      /\ w' = [w EXCEPT !.pc = "bump"] /\ UNCHANGED <<key, ptr, counter, last>>
  BY DEF Publish, PageInv, SplitReady, Splitting, WriterTypes
<1>2. PageTypes' /\ Terminated'
  BY <1>1 DEF PageInv, PageTypes, Terminated
<1>3. /\ w'.pc = "bump" /\ w'.rec = w.rec /\ w'.page = w.page /\ w'.new = w.new
      /\ w'.n = w.n /\ WriterTypes'
  BY <1>1 DEF PageInv, WriterTypes, Splitting, Entry
<1>4. NotEmpty'
  <2> SUFFICES ASSUME NEW q \in Linked' \ {First} PROVE last[q] >= 0
    BY <1>1 DEF NotEmpty
  <2>1. PICK h \in Page : sibling'[h] = q
    BY DEF Linked
  <2>2. q = w.new \/ sibling[h] = q
    BY <1>1, <2>1 DEF PageInv, PageTypes
  <2>3. q = w.new => last[q] >= 0
    BY <1>1 DEF PageInv, SplitReady, Splitting
  <2>4. sibling[h] = q => last[q] >= 0
    BY DEF PageInv, NotEmpty, Linked
  <2>5. QED
    BY <2>2, <2>3, <2>4
<1>5. SplitReady' /\ HoleInPage'
  BY <1>1, <1>3 DEF PageInv, SplitReady, HoleInPage, Splitting, Entry
<1>6. QED
  BY <1>2, <1>3, <1>4, <1>5 DEF PageInv

LEMMA BumpKeeps ==
  ASSUME PageInv, Bump
  PROVE  PageInv'
<1> USE Constants
<1>1. /\ w.pc = "bump" /\ w.page \in Page
      /\ counter' = [counter EXCEPT ![w.page] = (@ + 2) % 256]
      /\ w' = [w EXCEPT !.pc = "cut"] /\ UNCHANGED <<key, ptr, sibling, last>>
  BY DEF Bump, PageInv, WriterTypes
<1>2. counter' \in [Page -> {n \in 0 .. 255 : n % 2 = 0}]
  <2>1. \A n \in {m \in 0 .. 255 : m % 2 = 0} :
          (n + 2) % 256 \in {m \in 0 .. 255 : m % 2 = 0}
    OBVIOUS
  <2>2. QED
    BY <1>1, <2>1 DEF PageInv, PageTypes
<1>3. /\ w'.pc = "cut" /\ w'.rec = w.rec /\ w'.page = w.page /\ w'.new = w.new
      /\ w'.n = w.n /\ WriterTypes'
  BY <1>1 DEF PageInv, WriterTypes, Splitting, Entry
<1>4. SplitReady' /\ HoleInPage'
  BY <1>1, <1>3 DEF PageInv, SplitReady, HoleInPage, Splitting, Entry
<1>5. QED
  BY <1>1, <1>2, <1>3, <1>4, LinkSame DEF PageInv, PageTypes, Terminated, NotEmpty

LEMMA CutKeeps ==
  ASSUME PageInv, Cut
  PROVE  PageInv'
<1> USE Constants
<1> DEFINE low  == Less(KeyOf[w.rec], key[w.page][w.n])
           page == IF low THEN w.page ELSE w.new
           n    == IF low THEN w.n ELSE last[w.new] + 1
<1>1. /\ w.rec \in Rec /\ w.n \in 1 .. Card - 2
      /\ w.new \in Page \ {First} /\ w.new # w.page /\ w.page \in Page
      /\ last[w.new] \in 0 .. Card - 3
      /\ ptr[w.new][last[w.new] + 1] = Null
      /\ key[w.new][0] = key[w.page][w.n]
      /\ w.page # First => ~Less(KeyOf[w.rec], key[w.page][0])
  BY DEF Cut, PageInv, SplitReady, Splitting, WriterTypes
<1>2. /\ ptr' = [ptr EXCEPT ![w.page][w.n] = Null]
      /\ last' = [last EXCEPT ![w.page] = w.n - 1]
      /\ w' = Entering(w.rec, page, n)
      /\ UNCHANGED <<key, sibling, counter>>
  BY DEF Cut
<1>3. n \in 1 .. Card - 2 /\ page \in Page
  BY <1>1
<1>4. PageTypes' /\ Terminated'
  BY SMTT(30), <1>1, <1>2 DEF PageInv, PageTypes, Terminated
<1>5. NotEmpty'
  <2>1. \A q \in Page : last'[q] = IF q = w.page THEN w.n - 1 ELSE last[q]
    BY <1>1, <1>2 DEF PageInv, PageTypes
  <2>2. Linked \subseteq Page
    BY DEF Linked
  <2>3. QED
    BY <1>1, <1>2, <2>1, <2>2, LinkSame DEF PageInv, NotEmpty
<1>6. ptr'[page][n] = Null
  <2>1. CASE low
    BY <1>1, <1>2, <2>1 DEF PageInv, PageTypes
  <2>2. CASE ~low
    BY <1>1, <1>2, <2>2 DEF PageInv, PageTypes
  <2>3. QED
    BY <2>1, <2>2
<1>7. page # First => ~Less(KeyOf[w.rec], key[page][0])
  BY <1>1
<1> HIDE DEF page, n
<1>8. w' = [pc |-> "end", rec |-> w.rec, page |-> page, new |-> Null, n |-> n,
            hole |-> n, word |-> 1]
  <2>1. n # 0
    BY <1>3
  <2>2. QED
    BY <1>2, <2>1 DEF Entering, IdleWriter
<1>9. WriterTypes'
  BY <1>1, <1>3, <1>8 DEF WriterTypes, Entry
<1>10. SplitReady' /\ HoleInPage'
  BY <1>1, <1>2, <1>3, <1>6, <1>7, <1>8 DEF SplitReady, HoleInPage, Splitting
<1>11. QED
  BY <1>4, <1>5, <1>9, <1>10 DEF PageInv

(* Writing one word of a key, and one pointer.                             *)
LEMMA KeyWritten ==
  ASSUME PageTypes, NEW p \in Page, NEW i \in Slot, NEW j \in Word, NEW v \in Nat,
         key' = [key EXCEPT ![p][i][j] = v]
  PROVE  /\ key' \in [Page -> [Slot -> Keys]]
         /\ \A q \in Page, m \in Slot : ~(q = p /\ m = i) => key'[q][m] = key[q][m]
<1>1. key \in [Page -> [Slot -> Keys]] /\ key[p] \in [Slot -> Keys] /\ key[p][i] \in Keys
  BY DEF PageTypes
<1>2. [key[p][i] EXCEPT ![j] = v] \in Keys
  BY <1>1 DEF Keys
<1>3. [key[p] EXCEPT ![i] = [key[p][i] EXCEPT ![j] = v]] \in [Slot -> Keys]
  BY <1>1, <1>2
<1>4. key' = [key EXCEPT ![p] = [key[p] EXCEPT ![i] = [key[p][i] EXCEPT ![j] = v]]]
  BY <1>1
<1> HIDE DEF Keys
<1>5. QED
  BY <1>1, <1>3, <1>4

LEMMA PtrWritten ==
  ASSUME PageTypes, Terminated, NEW p \in Page, NEW i \in Slot,
         NEW x \in Rec \cup {Null}, i = Card - 1 => x = Null,
         ptr' = [ptr EXCEPT ![p][i] = x]
  PROVE  ptr' \in [Page -> [Slot -> Rec \cup {Null}]] /\ Terminated'
<1>1. [ptr[p] EXCEPT ![i] = x] \in [Slot -> Rec \cup {Null}]
  BY DEF PageTypes
<1>2. ptr' \in [Page -> [Slot -> Rec \cup {Null}]]
  BY <1>1 DEF PageTypes
<1>3. Terminated'
  BY DEF PageTypes, Terminated
<1>4. QED
  BY <1>2, <1>3

(* The steps of insert_key.                                                *)
LEMMA EntryKeeps ==
  ASSUME PageInv, MoveEnd \/ Shift \/ MoveKey \/ SetKey \/ SetPtr
  PROVE  /\ PageInv'
         /\ \A q \in Page \ {First} : key'[q][0] = key[q][0]
<1> USE Constants
<1>0. /\ w.pc \in Entry /\ w.rec \in Rec /\ w.page \in Page
      /\ w.n \in 0 .. Card - 2 /\ w.hole \in 0 .. Card - 2 /\ w.word \in Word
      /\ UNCHANGED <<sibling, counter>>
  BY DEF MoveEnd, Shift, MoveKey, SetKey, SetPtr, Entry, PageInv, HoleInPage, WriterTypes
<1>1. \A q \in Linked : q \in Page
  BY DEF Linked
<1>2. CASE MoveEnd
  <2>1. /\ w.pc = "end" /\ ptr[w.page][w.n] = Null
        /\ ptr' = [ptr EXCEPT ![w.page][w.n + 1] = ptr[w.page][w.n]]
        /\ w' = [w EXCEPT !.pc = "shift"] /\ UNCHANGED <<key, last>>
    BY <1>2 DEF MoveEnd, PageInv, HoleInPage, Entry
  <2>2. PageTypes' /\ Terminated'
    <3>1. w.n + 1 \in Slot
      BY <1>0
    <3>2. ptr' \in [Page -> [Slot -> Rec \cup {Null}]] /\ Terminated'
      BY <1>0, <2>1, <3>1, PtrWritten DEF PageInv
    <3>3. QED
      BY <1>0, <2>1, <3>2 DEF PageInv, PageTypes
  <2>3. /\ w'.pc = "shift" /\ w'.rec = w.rec /\ w'.page = w.page
        /\ w'.hole = w.hole /\ WriterTypes'
    BY <1>0, <2>1 DEF PageInv, WriterTypes, Entry
  <2>4. SplitReady' /\ HoleInPage'
    BY <1>0, <2>1, <2>3 DEF PageInv, SplitReady, HoleInPage, Splitting, Entry
  <2>5. QED
    BY <1>0, <2>1, <2>2, <2>3, <2>4, LinkSame DEF PageInv, NotEmpty
<1>3. CASE Shift
  <2> DEFINE h == w.hole
             left == IF h = 0 THEN Null ELSE ptr[w.page][h - 1]
             more == h > 0 /\ Less(KeyOf[w.rec], key[w.page][h - 1])
  <2>1. /\ w.pc = "shift" /\ ptr' = [ptr EXCEPT ![w.page][h] = left]
        /\ w' = [w EXCEPT !.pc = IF more THEN "move" ELSE "key"]
        /\ UNCHANGED <<key, last>>
    BY <1>3 DEF Shift
  <2>2. left \in Rec \cup {Null}
    BY <1>0 DEF PageInv, PageTypes
  <2>3. PageTypes' /\ Terminated'
    BY <1>0, <2>1, <2>2 DEF PageInv, PageTypes, Terminated
  <2>4. /\ w'.pc = (IF more THEN "move" ELSE "key") /\ w'.rec = w.rec
        /\ w'.page = w.page /\ w'.hole = h /\ WriterTypes'
    BY <1>0, <2>1 DEF PageInv, WriterTypes, Entry
  <2>5. SplitReady' /\ HoleInPage'
    <3>1. w.page # First =>
            ~Less(KeyOf[w.rec], key[w.page][0]) /\ h >= 1
      BY <1>0, <2>1 DEF PageInv, HoleInPage
    <3>2. w.page # First /\ more => h >= 2
      <4>1. h = 1 => h - 1 = 0
        OBVIOUS
      <4>2. QED
        BY <1>0, <3>1, <4>1
    <3>3. QED
      BY <1>0, <2>1, <2>4, <3>1, <3>2 DEF SplitReady, HoleInPage, Splitting, Entry
  <2>6. QED
    BY <1>0, <2>1, <2>3, <2>4, <2>5, LinkSame DEF PageInv, NotEmpty
<1>4. CASE MoveKey
  <2> DEFINE h == w.hole
  <2>1. /\ w.pc = "move" /\ h >= 1 /\ h - 1 \in Slot /\ h \in Slot
        /\ w.page # First => h >= 2 /\ ~Less(KeyOf[w.rec], key[w.page][0])
    BY <1>0, <1>4 DEF MoveKey, PageInv, HoleInPage
  <2>2. /\ key' = [key EXCEPT ![w.page][h][w.word] = key[w.page][h - 1][w.word]]
        /\ w' = IF w.word < NumWord THEN [w EXCEPT !.word = @ + 1]
                ELSE [w EXCEPT !.pc = "shift", !.hole = h - 1, !.word = 1]
        /\ UNCHANGED <<ptr, last>>
    BY <1>4 DEF MoveKey
  <2>3. key[w.page][h - 1][w.word] \in Nat
    <3>1. key[w.page][h - 1] \in Keys
      BY <1>0, <2>1 DEF PageInv, PageTypes
    <3>2. QED
      BY <1>0, <3>1 DEF Keys
  <2>4. /\ key' \in [Page -> [Slot -> Keys]]
        /\ \A q \in Page, m \in Slot :
             ~(q = w.page /\ m = h) => key'[q][m] = key[q][m]
    BY ZenonT(30), <1>0, <2>1, <2>2, <2>3, KeyWritten DEF PageInv
  <2>5. \A q \in Page \ {First} : key'[q][0] = key[q][0]
    BY SMTT(30), <1>0, <2>1, <2>4
  <2>6. WriterTypes' /\ w'.rec = w.rec /\ w'.page = w.page
    <3>1. w.word < NumWord => w.word + 1 \in Word
      BY <1>0 DEF Word
    <3>2. h - 1 \in 0 .. Card - 2
      BY <1>0, <2>1
    <3>3. QED
      BY <1>0, <2>1, <2>2, <3>1, <3>2 DEF PageInv, WriterTypes, Entry
  <2>7. \/ w'.pc = "move" /\ w'.hole = h
        \/ w'.pc = "shift" /\ w'.hole = h - 1
    BY <1>0, <2>1, <2>2 DEF PageInv, WriterTypes
  <2>8. SplitReady' /\ HoleInPage'
    BY <1>0, <2>1, <2>5, <2>6, <2>7 DEF SplitReady, HoleInPage, Splitting
  <2>9. QED
    BY <1>0, <2>2, <2>4, <2>5, <2>6, <2>8, LinkSame
       DEF PageInv, PageTypes, Terminated, NotEmpty
<1>5. CASE SetKey
  <2>1. /\ w.pc = "key" /\ w.hole \in Slot
        /\ w.page # First => w.hole >= 1 /\ ~Less(KeyOf[w.rec], key[w.page][0])
    BY <1>0, <1>5 DEF SetKey, PageInv, HoleInPage
  <2>2. /\ key' = [key EXCEPT ![w.page][w.hole][w.word] = KeyOf[w.rec][w.word]]
        /\ w' = IF w.word < NumWord THEN [w EXCEPT !.word = @ + 1]
                ELSE [w EXCEPT !.pc = "ptr"]
        /\ UNCHANGED <<ptr, last>>
    BY <1>5 DEF SetKey
  <2>3. KeyOf[w.rec][w.word] \in Nat
    BY <1>0 DEF Keys
  <2>4. /\ key' \in [Page -> [Slot -> Keys]]
        /\ \A q \in Page, m \in Slot :
             ~(q = w.page /\ m = w.hole) => key'[q][m] = key[q][m]
    BY ZenonT(30), <1>0, <2>1, <2>2, <2>3, KeyWritten DEF PageInv
  <2>5. \A q \in Page \ {First} : key'[q][0] = key[q][0]
    BY <1>0, <2>1, <2>4
  <2>6. /\ WriterTypes' /\ w'.rec = w.rec /\ w'.page = w.page
        /\ w'.hole = w.hole /\ w'.pc \in {"key", "ptr"}
    BY <1>0, <2>1, <2>2 DEF PageInv, WriterTypes, Entry, Word
  <2>7. SplitReady' /\ HoleInPage'
    BY <1>0, <2>1, <2>5, <2>6 DEF SplitReady, HoleInPage, Splitting
  <2>8. QED
    BY <1>0, <2>2, <2>4, <2>5, <2>6, <2>7, LinkSame
       DEF PageInv, PageTypes, Terminated, NotEmpty
<1>6. CASE SetPtr
  <2>1. /\ ptr' = [ptr EXCEPT ![w.page][w.hole] = w.rec]
        /\ last' = [last EXCEPT ![w.page] = w.n]
        /\ w' = IdleWriter /\ key' = key
    BY <1>6 DEF SetPtr
  <2>2. PageTypes' /\ Terminated'
    <3>1. w.hole \in Slot /\ w.hole # Card - 1
      BY <1>0
    <3>2. ptr' \in [Page -> [Slot -> Rec \cup {Null}]] /\ Terminated'
      BY <1>0, <2>1, <3>1, PtrWritten DEF PageInv
    <3>3. last' \in [Page -> -1 .. Card - 2]
      <4>1. last \in [Page -> -1 .. Card - 2] /\ w.n \in -1 .. Card - 2
        BY <1>0 DEF PageInv, PageTypes
      <4>2. QED
        BY ONLY <4>1, <2>1, <1>0
    <3>4. /\ key' \in [Page -> [Slot -> Keys]]
          /\ sibling' \in [Page -> Page \cup {Null}]
          /\ counter' \in [Page -> {n \in 0 .. 255 : n % 2 = 0}]
      BY <1>0, <2>1 DEF PageInv, PageTypes
    <3>5. QED
      BY ONLY <3>2, <3>3, <3>4 DEF PageTypes
  <2>3. NotEmpty'
    BY <1>0, <1>1, <2>1, LinkSame DEF PageInv, PageTypes, NotEmpty
  <2>4. WriterTypes' /\ SplitReady' /\ HoleInPage'
    BY <2>1 DEF IdleWriter, WriterTypes, SplitReady, HoleInPage, Splitting, Entry
  <2>5. QED
    BY <2>1, <2>2, <2>3, <2>4 DEF PageInv
<1>7. QED
  BY <1>2, <1>3, <1>4, <1>5, <1>6

(* No step of the writer changes the first key of a page in the chain,     *)
(* except of the leftmost one.                                             *)
LEMMA WriteKeeps ==
  ASSUME PageInv, Write
  PROVE  /\ PageInv'
         /\ \A q \in Linked \ {First} : key'[q][0] = key[q][0]
<1>0. Linked \subseteq Page
  BY Constants DEF Linked
<1>1. ASSUME NEW x \in Rec, NEW p \in Page, StoreFast(x, p)
      PROVE  PageInv' /\ \A q \in Linked \ {First} : key'[q][0] = key[q][0]
  BY <1>1, StoreFastKeeps DEF StoreFast, pageVars
<1>2. ASSUME NEW x \in Rec, NEW p \in Page, StoreSplit(x, p)
      PROVE  PageInv' /\ \A q \in Linked \ {First} : key'[q][0] = key[q][0]
  BY <1>2, StoreSplitKeeps
<1>3. CASE Publish
  BY <1>3, PublishKeeps DEF Publish
<1>4. CASE Bump
  BY <1>4, BumpKeeps DEF Bump
<1>5. CASE Cut
  BY <1>5, CutKeeps DEF Cut
<1>6. CASE MoveEnd \/ Shift \/ MoveKey \/ SetKey \/ SetPtr
  BY <1>0, <1>6, EntryKeeps
<1>7. QED
  BY <1>1, <1>2, <1>3, <1>4, <1>5, <1>6 DEF Write
-----------------------------------------------------------------------------
(* The scan.                                                               *)

LEMMA NextEntryType ==
  ASSUME PageInv, ScanTypes, r.i <= Card - 2
  PROVE  /\ NextEntry = [r EXCEPT !.pc = "test", !.i = r.i + 1, !.word = 1]
         /\ r.i + 1 \in Slot
  BY Constants DEF NextEntry, ScanTypes

LEMMA ScanKeeps ==
  ASSUME FastFairInv, Scan
  PROVE  ScanTypes' /\ ScanInPage'
<1> USE Constants DEF FastFairInv, ScanInPage
<1>0. /\ r.page \in Page /\ r.i \in Slot /\ r.word \in Word /\ r.tmp \in Keys
      /\ r.p \in Rec \cup {Null} /\ r.old \in Nat /\ r.buf \in Seq(Rec)
      /\ Len(r.buf) \in Nat
  BY LenProperties DEF ScanTypes
<1>1. ASSUME r.i <= Card - 2, r' = NextEntry PROVE ScanTypes' /\ ScanInPage'
  BY <1>0, <1>1, NextEntryType DEF ScanTypes
<1>2. CASE ScanStart
  <2>1. PICK b \in Bounds, p \in Linked :
          r' = [r EXCEPT !.pc = "page", !.page = p, !.min = b[1], !.max = b[2]]
    BY <1>2 DEF ScanStart
  <2>2. p \in Page /\ b[1] \in Keys /\ b[2] \in Keys
    BY DEF Linked
  <2>3. QED
    BY <2>1, <2>2 DEF ScanTypes
<1>3. CASE EnterPage
  <2>1. r' = [r EXCEPT !.pc = "key", !.i = 0, !.word = 1, !.ctr = counter[r.page],
                       !.buf = SubSeq(r.buf, 1, r.old)]
    BY <1>3 DEF EnterPage
  <2>2. SubSeq(r.buf, 1, r.old) \in Seq(Rec) /\ Len(SubSeq(r.buf, 1, r.old)) = r.old
    <3>1. 1 \in Int /\ r.old \in Int /\ 0 <= r.old /\ r.old <= Len(r.buf)
      BY <1>0
    <3>2. \A i \in 1 .. r.old : r.buf[i] \in Rec
      <4>1. \A i \in 1 .. r.old : i \in 1 .. Len(r.buf)
        BY <1>0, <3>1
      <4>2. QED
        BY <1>0, <4>1, ElementOfSeq
    <3>3. /\ SubSeq(r.buf, 1, r.old) \in Seq(Rec)
          /\ Len(SubSeq(r.buf, 1, r.old)) = IF 1 <= r.old THEN r.old - 1 + 1 ELSE 0
      BY <3>1, <3>2, SubSeqProperties
    <3>4. QED
      BY <3>1, <3>3
  <2>3. counter[r.page] \in Nat
    <3>1. counter[r.page] \in 0 .. 255
      BY <1>0 DEF PageInv, PageTypes
    <3>2. \A n \in 0 .. 255 : n \in Nat
      OBVIOUS
    <3>3. QED
      BY ONLY <3>1, <3>2
  <2> DEFINE buf == SubSeq(r.buf, 1, r.old)
  <2>4. buf \in Seq(Rec) /\ Len(buf) = r.old
    BY <2>2
  <2> HIDE DEF buf
  <2>5. r' = [r EXCEPT !.pc = "key", !.i = 0, !.word = 1, !.ctr = counter[r.page],
                       !.buf = buf]
    BY <2>1 DEF buf
  <2>6. ScanTypes'
    BY <1>0, <2>3, <2>4, <2>5 DEF ScanTypes
  <2>7. r'.i = 0 /\ r'.old = r.old /\ r'.buf = buf
    BY <2>5 DEF ScanTypes
  <2>8. QED
    BY <1>0, <2>4, <2>6, <2>7
<1>4. CASE ReadKey
  <2> DEFINE tmp == [r.tmp EXCEPT ![r.word] = key[r.page][r.i][r.word]]
  <2>1. r.i <= Card - 2
    BY <1>4 DEF ReadKey
  <2>2. tmp \in Keys
    <3>1. key[r.page][r.i] \in Keys
      BY <1>0 DEF PageInv, PageTypes
    <3>2. key[r.page][r.i][r.word] \in Nat
      BY <1>0, <3>1 DEF Keys
    <3>3. QED
      BY <1>0, <3>2 DEF Keys
  <2> HIDE DEF tmp
  <2>3. \/ r.word < NumWord /\ r' = [r EXCEPT !.word = r.word + 1, !.tmp = tmp]
        \/ r' = NextEntry
        \/ r' = [r EXCEPT !.pc = "stopped"]
        \/ r' = [r EXCEPT !.pc = "ptr", !.word = 1, !.tmp = tmp]
    BY <1>4 DEF ReadKey, tmp
  <2>4. CASE r.word < NumWord /\ r' = [r EXCEPT !.word = r.word + 1, !.tmp = tmp]
    <3>1. r.word + 1 \in Word
      BY <1>0, <2>4 DEF Word
    <3>2. QED
      BY <1>0, <2>1, <2>2, <2>4, <3>1 DEF ScanTypes
  <2>5. CASE r' = [r EXCEPT !.pc = "stopped"] \/
             r' = [r EXCEPT !.pc = "ptr", !.word = 1, !.tmp = tmp]
    BY ZenonT(30), <1>0, <2>1, <2>2, <2>5 DEF ScanTypes
  <2>6. QED
    BY <1>1, <2>1, <2>3, <2>4, <2>5
<1>5. CASE ReadPtr
  <2>1. r.i <= Card - 2 /\ ptr[r.page][r.i] \in Rec \cup {Null}
    BY <1>0, <1>5 DEF ReadPtr, PageInv, PageTypes
  <2>2. \/ r' = NextEntry
        \/ \E x \in {"again", "left"} :
             r' = [r EXCEPT !.p = ptr[r.page][r.i], !.pc = x]
    BY <1>5 DEF ReadPtr
  <2>3. ASSUME NEW x \in {"again", "left"},
               r' = [r EXCEPT !.p = ptr[r.page][r.i], !.pc = x]
        PROVE  ScanTypes' /\ ScanInPage'
    BY <1>0, <2>1, <2>3 DEF ScanTypes
  <2>4. QED
    BY <1>1, <2>1, <2>2, <2>3
<1>6. CASE ReadLeft
  <2>1. r.i <= Card - 2 /\ (r' = NextEntry \/ r' = [r EXCEPT !.pc = "again"])
    BY <1>6 DEF ReadLeft
  <2>2. CASE r' = [r EXCEPT !.pc = "again"]
    BY <1>0, <2>1, <2>2 DEF ScanTypes
  <2>3. QED
    BY <1>1, <2>1, <2>2
<1>7. CASE ReReadKey
  <2> DEFINE out == IF r.p = Null THEN r.buf ELSE Append(r.buf, r.p)
  <2>1. r.i <= Card - 2
    BY <1>7 DEF ReReadKey
  <2>2. out \in Seq(Rec) /\ Len(out) >= Len(r.buf)
    BY <1>0
  <2>3. NextEntry = [r EXCEPT !.pc = "test", !.i = r.i + 1, !.word = 1]
    BY <2>1, NextEntryType
  <2>4. \/ r' = NextEntry
        \/ r.word < NumWord /\ r' = [r EXCEPT !.word = r.word + 1]
        \/ r' = [r EXCEPT !.pc = "test", !.i = r.i + 1, !.word = 1, !.buf = out]
    <3>1. NextEntry.buf = r.buf
      BY <2>3 DEF ScanTypes
    <3>2. [NextEntry EXCEPT !.buf = out] =
            [r EXCEPT !.pc = "test", !.i = r.i + 1, !.word = 1, !.buf = out]
      BY <2>3 DEF ScanTypes
    <3>3. QED
      BY <1>7, <3>1, <3>2 DEF ReReadKey
  <2> HIDE DEF out
  <2>5. CASE r.word < NumWord /\ r' = [r EXCEPT !.word = r.word + 1]
    <3>1. r.word + 1 \in Word
      BY <1>0, <2>5 DEF Word
    <3>2. QED
      BY <1>0, <2>1, <2>5, <3>1 DEF ScanTypes
  <2>6. CASE r' = [r EXCEPT !.pc = "test", !.i = r.i + 1, !.word = 1, !.buf = out]
    <3>1. r.i + 1 \in Slot
      BY <2>1, NextEntryType
    <3>2. Len(out) \in Nat
      BY <2>2, LenProperties
    <3>3. ScanTypes'
      BY <1>0, <2>2, <2>6, <3>1 DEF ScanTypes
    <3>4. r'.pc = "test" /\ r'.old = r.old /\ r'.buf = out
      BY <2>6 DEF ScanTypes
    <3>5. QED
      BY <1>0, <2>2, <3>2, <3>3, <3>4
  <2>7. QED
    BY <1>1, <2>1, <2>4, <2>5, <2>6
<1>8. CASE TestEntry
  <2>1. r' = [r EXCEPT !.pc = IF ptr[r.page][r.i] # Null THEN "key" ELSE "check"]
    BY <1>8 DEF TestEntry
  <2>2. ptr[r.page][r.i] # Null => r.i <= Card - 2
    BY <1>0 DEF PageInv, Terminated
  <2>3. CASE ptr[r.page][r.i] # Null
    BY <1>0, <2>1, <2>2, <2>3 DEF ScanTypes
  <2>4. CASE ptr[r.page][r.i] = Null
    BY <1>0, <2>1, <2>4 DEF ScanTypes
  <2>5. QED
    BY <2>3, <2>4
<1>9. CASE CheckCounter
  BY <1>0, <1>9 DEF CheckCounter, ScanTypes
<1>10. CASE HopSibling
  <2>1. sibling[r.page] \in Page \cup {Null}
    BY <1>0 DEF PageInv, PageTypes
  <2>2. \/ r' = [r EXCEPT !.pc = "ended"]
        \/ /\ sibling[r.page] # Null
           /\ r' = [r EXCEPT !.pc = "page", !.page = sibling[r.page],
                             !.old = Len(r.buf)]
    BY <1>10 DEF HopSibling
  <2>3. CASE r' = [r EXCEPT !.pc = "ended"]
    BY <1>0, <2>3 DEF ScanTypes
  <2>4. CASE /\ sibling[r.page] # Null
             /\ r' = [r EXCEPT !.pc = "page", !.page = sibling[r.page],
                               !.old = Len(r.buf)]
    <3>1. ScanTypes'
      BY <1>0, <2>1, <2>4 DEF ScanTypes
    <3>2. r'.pc = "page" /\ r'.old = Len(r.buf) /\ r'.buf = r.buf
      BY <2>4 DEF ScanTypes
    <3>3. QED
      BY <1>0, <3>1, <3>2
  <2>5. QED
    BY <2>2, <2>3, <2>4
<1>11. QED
  BY <1>2, <1>3, <1>4, <1>5, <1>6, <1>7, <1>8, <1>9, <1>10 DEF Scan

-----------------------------------------------------------------------------
LEMMA PageFrame == PageInv /\ UNCHANGED <<pageVars, w>> => PageInv'
<1> SUFFICES ASSUME PageInv, UNCHANGED <<pageVars, w>> PROVE PageInv'
  OBVIOUS
<1>1. UNCHANGED <<key, ptr, sibling, counter, last, w>>
  BY DEF pageVars
<1>2. PageTypes' /\ WriterTypes' /\ Terminated'
  BY <1>1 DEF PageInv, PageTypes, WriterTypes, Terminated
<1>3. NotEmpty'
  BY <1>1, LinkSame DEF PageInv, NotEmpty
<1>4. SplitReady' /\ HoleInPage'
  BY <1>1 DEF PageInv, SplitReady, HoleInPage
<1>5. QED
  BY <1>2, <1>3, <1>4 DEF PageInv

LEMMA InvStep == FastFairInv /\ [Next]_vars => FastFairInv'
<1> SUFFICES ASSUME FastFairInv, [Next]_vars PROVE FastFairInv'
  OBVIOUS
<1>1. CASE Write
  <2>1. r' = r
    BY <1>1 DEF Write, StoreFast, StoreSplit, Publish, Bump, Cut, MoveEnd, Shift,
                MoveKey, SetKey, SetPtr, Writes
  <2>2. PageInv'
    BY <1>1, WriteKeeps DEF FastFairInv
  <2>3. QED
    BY <2>1, <2>2 DEF FastFairInv, ScanTypes, ScanInPage
<1>2. CASE Scan
  <2>1. UNCHANGED <<pageVars, w>>
    BY <1>2 DEF Scan, Scans, ScanStart, EnterPage, ReadKey, ReadPtr, ReadLeft,
                ReReadKey, TestEntry, CheckCounter, HopSibling
  <2>2. PageInv'
    BY <2>1, PageFrame DEF FastFairInv
  <2>3. QED
    BY <1>2, <2>2, ScanKeeps DEF FastFairInv
<1>3. CASE UNCHANGED vars
  <2>1. UNCHANGED <<pageVars, w>> /\ r' = r
    BY <1>3 DEF vars
  <2>2. ScanTypes' /\ ScanInPage'
    BY <2>1 DEF FastFairInv, ScanTypes, ScanInPage
  <2>3. QED
    BY <2>1, <2>2, PageFrame DEF FastFairInv
<1>4. QED
  BY <1>1, <1>2, <1>3 DEF Next

LEMMA Invariant == Spec => []FastFairInv
  BY InvInit, InvStep, PTL DEF Spec

(* Every index of writer and scan stays inside its page.                   *)
THEOREM FastFairTypeCorrect == Spec => []TypeOK
<1>1. FastFairInv => TypeOK
  <2> SUFFICES ASSUME FastFairInv PROVE TypeOK
    OBVIOUS
  <2>1. /\ key \in [Page -> [Slot -> [Word -> Nat]]]
        /\ ptr \in [Page -> [Slot -> Rec \cup {Null}]]
        /\ sibling \in [Page -> Page \cup {Null}]
        /\ counter \in [Page -> {n \in 0 .. 255 : n % 2 = 0}]
        /\ last \in [Page -> -1 .. Card - 2]
    BY DEF FastFairInv, PageInv, PageTypes, Keys
  <2>2. w.page \in Page /\ w.n \in 0 .. Card - 2 /\ w.hole \in Slot
    BY Constants DEF FastFairInv, PageInv, WriterTypes
  <2>3. r.page \in Page /\ r.i \in Slot /\ r.buf \in Seq(Rec)
    BY DEF FastFairInv, ScanTypes
  <2>4. QED
    BY <2>1, <2>2, <2>3 DEF TypeOK
<1>2. QED
  BY <1>1, Invariant, PTL

(* The loop of a scan, which has no bound but a null pointer, ends inside  *)
(* the page, for every page size from four and any interleaving.           *)
THEOREM PagesStayTerminated == Spec => []ScanStaysInPage
<1>1. FastFairInv => ScanStaysInPage
  BY Constants DEF FastFairInv, PageInv, Terminated, ScanStaysInPage, Linked
<1>2. QED
  BY <1>1, Invariant, PTL

(* The first key of a page other than the leftmost one is fixed from the   *)
(* moment the page is linked: a writer may move right by it without the    *)
(* sibling's lock.                                                         *)
THEOREM FirstKeysNeverMove == Spec => FirstKeyIsFixed
<1>1. FastFairInv /\ [Next]_vars =>
        [\A p \in Linked \ {First} : key'[p][0] = key[p][0]]_vars
  <2> SUFFICES ASSUME FastFairInv, Next
               PROVE  \A p \in Linked \ {First} : key'[p][0] = key[p][0]
    OBVIOUS
  <2>1. CASE Write
    BY <2>1, WriteKeeps DEF FastFairInv
  <2>2. CASE Scan
    BY <2>2 DEF Scan, Scans, ScanStart, EnterPage, ReadKey, ReadPtr, ReadLeft,
                ReReadKey, TestEntry, CheckCounter, HopSibling, pageVars
  <2>3. QED
    BY <2>1, <2>2 DEF Next
<1>2. QED
  BY <1>1, Invariant, PTL DEF Spec, FirstKeyIsFixed

-----------------------------------------------------------------------------
(* The order of the keys.                                                  *)

LEMMA LessIrreflexive == \A a \in Keys : ~Less(a, a)
  BY DEF Less, Keys, Word

LEMMA LessAsym ==
  ASSUME NEW a \in Keys, NEW b \in Keys, Less(a, b)
  PROVE  ~Less(b, a)
<1> SUFFICES ASSUME Less(b, a) PROVE FALSE
  OBVIOUS
<1>1. PICK i \in Word : a[i] < b[i] /\ \A h \in 1 .. i - 1 : a[h] = b[h]
  BY DEF Less
<1>2. PICK j \in Word : b[j] < a[j] /\ \A h \in 1 .. j - 1 : b[h] = a[h]
  BY DEF Less
<1>3. i \in Nat /\ j \in Nat /\ i >= 1 /\ j >= 1
  BY Constants DEF Word
<1>4. a[i] \in Nat /\ b[i] \in Nat /\ a[j] \in Nat /\ b[j] \in Nat
  BY DEF Keys
<1>5. CASE i < j
  BY <1>1, <1>2, <1>3, <1>4, <1>5
<1>6. CASE j < i
  BY <1>1, <1>2, <1>3, <1>4, <1>6
<1>7. QED
  BY <1>1, <1>2, <1>3, <1>4, <1>5, <1>6

(* "Not above" is transitive: at the first word in which the three differ  *)
(* the decision is made.                                                   *)
LEMMA NotLessTrans ==
  ASSUME NEW a \in Keys, NEW b \in Keys, NEW c \in Keys, ~Less(a, b), ~Less(b, c)
  PROVE  ~Less(a, c)
<1> SUFFICES ASSUME Less(a, c) PROVE FALSE
  OBVIOUS
<1>1. PICK j \in Word : a[j] < c[j] /\ \A h \in 1 .. j - 1 : a[h] = c[h]
  BY DEF Less
<1>2. \A h \in Word : a[h] \in Nat /\ b[h] \in Nat /\ c[h] \in Nat
  BY DEF Keys
<1> DEFINE D == {h \in Word : a[h] # b[h] \/ b[h] # c[h]}
<1>3. D \subseteq Nat /\ j \in D
  BY <1>1, <1>2, Constants DEF Word
<1>4. PICK d \in D : \A m \in D : d <= m
  BY <1>3, LeastExists
<1>5. d \in Word /\ d \in Nat /\ d <= j /\ j \in Nat
  BY <1>3, <1>4
<1>6. \A h \in 1 .. d - 1 : a[h] = b[h] /\ b[h] = c[h]
  <2> SUFFICES ASSUME NEW h \in 1 .. d - 1, h \in D PROVE FALSE
    BY <1>5, Constants DEF Word
  <2>1. d <= h
    BY <1>4
  <2>2. QED
    BY <1>5, <2>1
<1>7. ~ (a[d] < b[d])
  BY <1>5, <1>6 DEF Less
<1>8. ~ (b[d] < c[d])
  BY <1>5, <1>6 DEF Less
<1>9. c[d] < a[d]
  BY <1>2, <1>4, <1>5, <1>7, <1>8
<1>10. CASE d = j
  BY <1>1, <1>2, <1>9, <1>10
<1>11. CASE d < j
  <2>1. d \in 1 .. j - 1
    BY <1>5, <1>11, Constants DEF Word
  <2>2. QED
    BY <1>1, <1>2, <1>5, <1>9, <2>1
<1>12. QED
  BY <1>5, <1>10, <1>11

-----------------------------------------------------------------------------
(* The slots of page p that hold its records: while it is split, the lower *)
(* half; while a record is put in, all but the hole.                       *)
Live(p) ==
  IF w.pc \in Splitting /\ p = w.page THEN 0 .. w.n - 1
  ELSE IF w.pc \in Entry /\ p = w.page THEN (0 .. w.n) \ {w.hole}
  ELSE 0 .. last[p]

Content(p) == {ptr[p][i] : i \in Live(p)}

(* The leaves, with the one that is about to be linked.                    *)
Chain == IF w.pc = "publish" THEN Linked \cup {w.new} ELSE Linked

(* Keys k and pointers f of a page are in order on the slots L.            *)
InOrder(k, f, L) ==
  \A i \in L :
    /\ f[i] \in Rec /\ k[i] = KeyOf[f[i]]
    /\ \A j \in L : i < j => f[i] # f[j] /\ ~Less(k[j], k[i])

(* x may be put before page q.                                             *)
NotAbove(x, q) == q # Null => ~Less(key[q][0], KeyOf[x])

LeafOrder ==
  \A p \in Chain :
    /\ InOrder(key[p], ptr[p], Live(p))
    /\ \A x \in Content(p) : NotAbove(x, sibling[p])

(* No record is in two leaves, nor the one that is being put in in any.    *)
Apart ==
  /\ \A p, q \in Chain : p # q => Content(p) \cap Content(q) = {}
  /\ w.pc # "idle" => \A p \in Chain : w.rec \notin Content(p)

(* The chain has no loop of one page, nothing before its first, and no     *)
(* loose ends.                                                             *)
ChainInv ==
  /\ \A p \in Page : sibling[p] # p /\ sibling[p] # First
  /\ \A p \in Page \ Chain : sibling[p] = Null
  /\ w.pc # "idle" => w.page \in Linked

(* last_index is right where nobody writes, and an empty page unused.      *)
EndInv ==
  /\ \A p \in Chain : w.pc = "idle" \/ p # w.page => ptr[p][last[p] + 1] = Null
  /\ last[First] = -1 => ptr[First][1] = Null

(* The two halves of a page that is being split.                           *)
SplitInv ==
  w.pc \in Splitting =>
    /\ w.pc = "publish" => w.new \notin Linked /\ sibling[w.new] = sibling[w.page]
    /\ w.pc # "publish" => sibling[w.page] = w.new
    /\ \A x \in Content(w.page) : NotAbove(x, w.new)
    /\ NotAbove(w.rec, sibling[w.new])

(* The hole h of a page with keys k, pointers f and n entries: what is on  *)
(* its right is above the key of x, and from the step on that found its    *)
(* place, what is on its left is not.                                      *)
HoleAt(pc, k, f, n, h, word, x) ==
  /\ pc = "end" => h = n /\ h >= 1
  /\ pc # "end" => f[n + 1] = Null
  /\ \A i \in h + 1 .. n : Less(KeyOf[x], k[i])
  /\ pc = "move" =>
       /\ f[h] = f[h - 1] /\ Less(KeyOf[x], k[h - 1])
       /\ \A j \in 1 .. word - 1 : k[h][j] = k[h - 1][j]
  /\ pc \in {"end", "shift"} => word = 1
  /\ pc \in {"key", "ptr"} => h = 0 \/ ~Less(KeyOf[x], k[h - 1])
  /\ pc = "key" => \A j \in 1 .. word - 1 : k[h][j] = KeyOf[x][j]
  /\ pc = "ptr" => k[h] = KeyOf[x]

HoleInv ==
  w.pc \in Entry =>
    /\ w.n = last[w.page] + 1 /\ w.hole <= w.n
    /\ NotAbove(w.rec, sibling[w.page])
    /\ HoleAt(w.pc, key[w.page], ptr[w.page], w.n, w.hole, w.word, w.rec)

SortedInv ==
  LeafOrder /\ Apart /\ ChainInv /\ EndInv /\ SplitInv /\ HoleInv

-----------------------------------------------------------------------------
LEMMA InOrderFrame ==
  ASSUME NEW k, NEW f, NEW k2, NEW f2, NEW L, InOrder(k, f, L),
         \A i \in L : k2[i] = k[i] /\ f2[i] = f[i]
  PROVE  InOrder(k2, f2, L)
  BY DEF InOrder

LEMMA InOrderSubset ==
  ASSUME NEW k, NEW f, NEW L, NEW M, M \subseteq L, InOrder(k, f, L)
  PROVE  InOrder(k, f, M)
  BY DEF InOrder

(* What is kept by a step that moves the hole without changing a page's    *)
(* content.                                                                *)
LEMMA EntryFrame ==
  ASSUME PageInv, SortedInv, w.pc \in Entry, w'.pc \in Entry,
         w'.page = w.page, w'.rec = w.rec, sibling' = sibling, last' = last,
         \A q \in Page \ {w.page} : key'[q] = key[q] /\ ptr'[q] = ptr[q],
         \A q \in Page \ {First} : key'[q][0] = key[q][0],
         InOrder(key'[w.page], ptr'[w.page], Live(w.page)'),
         Content(w.page)' = Content(w.page),
         HoleInv', last[First] = -1 => ptr'[First][1] = Null
  PROVE  SortedInv'
<1> USE Constants
<1>0. /\ w.page \in Page /\ w.page \in Linked /\ Linked \subseteq Page
      /\ w.pc \notin Splitting \cup {"idle"} /\ w'.pc \notin Splitting \cup {"idle"}
  BY DEF PageInv, WriterTypes, SortedInv, ChainInv, Linked, Entry, Splitting
<1>1. Linked' = Linked
  BY LinkSame
<1>2. Chain = Linked /\ Chain' = Linked
  BY <1>0, <1>1 DEF Chain, Splitting
<1>3. \A q \in Page : q # w.page => Live(q) = 0 .. last[q] /\ Live(q)' = 0 .. last[q]
  BY <1>0 DEF Live
<1>4. \A q \in Page : q # w.page => Content(q)' = Content(q)
  BY <1>3 DEF Content
<1>5. \A q \in Page : Content(q)' = Content(q)
  BY <1>4
<1>6. \A x, q : q \in (Page \cup {Null}) \ {First} => (NotAbove(x, q)' <=> NotAbove(x, q))
  BY DEF NotAbove
<1>7. \A p \in Page : sibling[p] \in (Page \cup {Null}) \ {First}
  BY DEF PageInv, PageTypes, SortedInv, ChainInv
<1>8. LeafOrder'
  <2> SUFFICES ASSUME NEW p \in Linked
               PROVE  /\ InOrder(key'[p], ptr'[p], Live(p)')
                      /\ \A x \in Content(p) : NotAbove(x, sibling[p])'
    BY <1>0, <1>2, <1>5 DEF LeafOrder
  <2>1. /\ InOrder(key[p], ptr[p], Live(p))
        /\ \A x \in Content(p) : NotAbove(x, sibling[p])
    BY <1>2 DEF SortedInv, LeafOrder
  <2>2. CASE p = w.page
    BY <1>0, <1>6, <1>7, <2>1, <2>2
  <2>3. CASE p # w.page
    BY <1>0, <1>3, <1>6, <1>7, <2>1, <2>3
  <2>4. QED
    BY <2>2, <2>3
<1>9. Apart'
  BY <1>0, <1>2, <1>5 DEF SortedInv, Apart
<1>10. ChainInv'
  BY <1>0, <1>1, <1>2 DEF SortedInv, ChainInv
<1>11. EndInv'
  BY <1>0, <1>2 DEF SortedInv, EndInv
<1>12. SplitInv'
  BY <1>0 DEF SplitInv
<1>13. QED
  BY <1>8, <1>9, <1>10, <1>11, <1>12 DEF SortedInv

LEMMA EntryIs ==
  ASSUME PageInv, SortedInv, w.pc \in Entry
  PROVE  /\ w.page \in Page /\ w.rec \in Rec /\ KeyOf[w.rec] \in Keys
         /\ w.n \in 0 .. Card - 2 /\ w.hole \in 0 .. Card - 2 /\ w.hole <= w.n
         /\ w.word \in Word /\ w.n = last[w.page] + 1
         /\ key[w.page] \in [Slot -> Keys] /\ ptr[w.page] \in [Slot -> Rec \cup {Null}]
         /\ Live(w.page) = (0 .. w.n) \ {w.hole} /\ Live(w.page) \subseteq Slot
         /\ InOrder(key[w.page], ptr[w.page], Live(w.page))
         /\ DOMAIN w = {"pc", "rec", "page", "new", "n", "hole", "word"}
<1> USE Constants
<1>1. /\ w.page \in Page /\ w.rec \in Rec /\ w.n \in 0 .. Card - 2
      /\ w.hole \in 0 .. Card - 2 /\ w.word \in Word
      /\ DOMAIN w = {"pc", "rec", "page", "new", "n", "hole", "word"}
  BY DEF PageInv, WriterTypes, HoleInPage
<1>2. w.hole <= w.n /\ w.n = last[w.page] + 1
  BY DEF SortedInv, HoleInv, HoleAt
<1>3. key[w.page] \in [Slot -> Keys] /\ ptr[w.page] \in [Slot -> Rec \cup {Null}]
  BY <1>1 DEF PageInv, PageTypes
<1>4. Live(w.page) = (0 .. w.n) \ {w.hole}
  BY DEF Live, Entry, Splitting
<1>5. Live(w.page) \subseteq Slot
  BY <1>1, <1>4
<1>6. InOrder(key[w.page], ptr[w.page], Live(w.page))
  BY DEF SortedInv, ChainInv, LeafOrder, Chain, Entry
<1>7. QED
  BY <1>1, <1>2, <1>3, <1>4, <1>5, <1>6

LEMMA HoleAfter ==
  ASSUME NEW pc, NEW p, NEW n, NEW h, NEW word, NEW x,
         w'.pc = pc, w'.page = p, w'.n = n, w'.hole = h, w'.word = word, w'.rec = x,
         n = last'[p] + 1, h <= n, NotAbove(x, sibling[p])',
         HoleAt(pc, key'[p], ptr'[p], n, h, word, x)
  PROVE  HoleInv'
<1>1. NotAbove(w.rec, sibling[w.page])'
  BY DEF NotAbove
<1>2. HoleAt(w'.pc, key'[w'.page], ptr'[w'.page], w'.n, w'.hole, w'.word, w'.rec)
  OBVIOUS
<1>3. HoleAt(w.pc, key[w.page], ptr[w.page], w.n, w.hole, w.word, w.rec)'
  BY ONLY <1>2 DEF HoleAt
<1>4. QED
  BY <1>1, <1>3 DEF HoleInv

(* A step that touches no slot of the page but the hole and those behind   *)
(* the entries.                                                            *)
LEMMA HoleFrame ==
  ASSUME PageInv, SortedInv, w.pc \in Entry, w'.pc \in Entry,
         w'.page = w.page, w'.rec = w.rec, w'.n = w.n, w'.hole = w.hole,
         sibling' = sibling, last' = last,
         \A q \in Page \ {w.page} : key'[q] = key[q] /\ ptr'[q] = ptr[q],
         \A q \in Page \ {First} : key'[q][0] = key[q][0],
         \A i \in (0 .. w.n) \ {w.hole} :
           key'[w.page][i] = key[w.page][i] /\ ptr'[w.page][i] = ptr[w.page][i],
         HoleInv', last[First] = -1 => ptr'[First][1] = Null
  PROVE  SortedInv'
<1> DEFINE L == (0 .. w.n) \ {w.hole}
           p == w.page
<1>1. Live(p) = L /\ Live(p)' = L
  BY DEF Live, Entry, Splitting
<1>2. InOrder(key[p], ptr[p], L)
  BY <1>1, EntryIs
<1>3. \A i \in L : key'[p][i] = key[p][i] /\ ptr'[p][i] = ptr[p][i]
  OBVIOUS
<1>4. Content(p)' = Content(p)
  BY <1>1, <1>3 DEF Content
<1>5. InOrder(key'[p], ptr'[p], L)
  <2> HIDE DEF L
  <2>1. QED
    BY ONLY <1>2, <1>3, InOrderFrame
<1>6. InOrder(key'[w.page], ptr'[w.page], Live(w.page)') /\ Content(w.page)' = Content(w.page)
  BY <1>1, <1>4, <1>5
<1>7. QED
  BY <1>6, EntryFrame

LEMMA MoveEndSorted ==
  ASSUME PageInv, SortedInv, MoveEnd
  PROVE  SortedInv'
<1> USE Constants
<1>0. w.pc = "end" /\ w.pc \in Entry
  BY DEF MoveEnd, Entry
<1>p. PICK p, n, h, x : p = w.page /\ n = w.n /\ h = w.hole /\ x = w.rec
  OBVIOUS
<1>1. /\ p \in Page /\ n \in 1 .. Card - 2 /\ h = n /\ n + 1 \in Slot
      /\ n = last[p] + 1 /\ ptr[p][n] = Null /\ ptr[p] \in [Slot -> Rec \cup {Null}]
  <2>1. /\ p \in Page /\ n \in 0 .. Card - 2 /\ n = last[p] + 1
        /\ ptr[p] \in [Slot -> Rec \cup {Null}]
    BY <1>0, <1>p, EntryIs
  <2>2. h = n /\ h >= 1
    BY <1>0, <1>p DEF SortedInv, HoleInv, HoleAt
  <2>3. ptr[p][n] = Null
    BY <1>0, <1>p DEF PageInv, HoleInPage
  <2>4. QED
    BY <2>1, <2>2, <2>3
<1>2. /\ ptr' = [ptr EXCEPT ![p][n + 1] = Null] /\ w' = [w EXCEPT !.pc = "shift"]
      /\ UNCHANGED <<key, sibling, last>>
  BY <1>p, <1>1 DEF MoveEnd
<1>3. /\ w'.pc = "shift" /\ w'.pc \in Entry /\ w'.page = p /\ w'.n = n
      /\ w'.hole = h /\ w'.rec = x /\ w'.word = w.word
  BY <1>0, <1>2, <1>p, EntryIs DEF Entry
<1>4. /\ \A q \in Page \ {p} : ptr'[q] = ptr[q]
      /\ \A i \in Slot : ptr'[p][i] = IF i = n + 1 THEN Null ELSE ptr[p][i]
  BY <1>1, <1>2 DEF PageInv, PageTypes
<1>5. \A i \in (0 .. n) \ {h} : ptr'[p][i] = ptr[p][i] /\ key'[p][i] = key[p][i]
  BY <1>1, <1>2, <1>4
<1>6. HoleInv'
  <2>1. NotAbove(x, sibling[p]) /\ HoleAt("end", key[p], ptr[p], n, h, w.word, x)
    BY <1>0, <1>p DEF SortedInv, HoleInv
  <2>2. HoleAt("shift", key'[p], ptr'[p], n, h, w.word, x)
    BY <1>1, <1>2, <1>4, <2>1 DEF HoleAt
  <2>3. NotAbove(x, sibling[p])'
    BY <1>2, <2>1 DEF NotAbove
  <2>4. QED
    <3>1. n = last'[p] + 1 /\ h <= n
      BY <1>1, <1>2
    <3>2. QED
      BY ONLY <1>3, <2>2, <2>3, <3>1, HoleAfter
<1>7. last[First] = -1 => ptr'[First][1] = Null
  BY <1>1, <1>4 DEF SortedInv, EndInv
<1>8. QED
  BY <1>0, <1>p, <1>2, <1>3, <1>4, <1>5, <1>6, <1>7, HoleFrame

LEMMA ShiftSorted ==
  ASSUME PageInv, SortedInv, Shift
  PROVE  SortedInv'
<1> USE Constants
<1>0. w.pc = "shift" /\ w.pc \in Entry
  BY DEF Shift, Entry
<1>p. PICK p, n, h, x : p = w.page /\ n = w.n /\ h = w.hole /\ x = w.rec
  OBVIOUS
<1>1. /\ p \in Page /\ n \in 0 .. Card - 2 /\ h \in 0 .. n /\ n = last[p] + 1
      /\ ptr[p] \in [Slot -> Rec \cup {Null}]
  BY <1>0, <1>p, EntryIs
<1> DEFINE left == IF h = 0 THEN Null ELSE ptr[p][h - 1]
           more == h > 0 /\ Less(KeyOf[x], key[p][h - 1])
<1>2. /\ ptr' = [ptr EXCEPT ![p][h] = left]
      /\ w' = [w EXCEPT !.pc = IF more THEN "move" ELSE "key"]
      /\ UNCHANGED <<key, sibling, last>>
  BY <1>p DEF Shift
<1>3. /\ w'.pc = (IF more THEN "move" ELSE "key") /\ w'.pc \in Entry /\ w'.page = p
      /\ w'.n = n /\ w'.hole = h /\ w'.rec = x /\ w'.word = w.word
  BY <1>0, <1>2, <1>p, EntryIs DEF Entry
<1>4. /\ \A q \in Page \ {p} : ptr'[q] = ptr[q]
      /\ \A i \in Slot : ptr'[p][i] = IF i = h THEN left ELSE ptr[p][i]
  BY <1>1, <1>2 DEF PageInv, PageTypes
<1>5. \A i \in (0 .. n) \ {h} : ptr'[p][i] = ptr[p][i] /\ key'[p][i] = key[p][i]
  BY <1>1, <1>2, <1>4
<1>6. HoleInv'
  <2>0. SUFFICES HoleAt(w'.pc, key'[p], ptr'[p], n, h, w.word, x)
    <3>1. NotAbove(x, sibling[p])
      BY <1>0, <1>p DEF SortedInv, HoleInv
    <3>2. NotAbove(x, sibling[p])'
      BY <1>2, <3>1 DEF NotAbove
    <3>3. QED
      <4>1. n = last'[p] + 1 /\ h <= n
        BY <1>1, <1>2
      <4>2. QED
        BY ONLY <1>3, <2>0, <3>2, <4>1, HoleAfter
  <2>1. /\ n = last[p] + 1 /\ NotAbove(x, sibling[p]) /\ ptr[p][n + 1] = Null
        /\ \A i \in h + 1 .. n : Less(KeyOf[x], key[p][i])
    BY <1>0, <1>p DEF SortedInv, HoleInv, HoleAt
  <2>2. w.word = 1
    BY <1>0 DEF SortedInv, HoleInv, HoleAt
  <2>3. ptr'[p][n + 1] = Null
    <3>1. n + 1 \in Slot /\ n + 1 # h
      BY <1>1
    <3>2. QED
      BY <1>4, <2>1, <3>1
  <2>4. CASE more
    <3>1. h \in Slot /\ h - 1 \in Slot /\ h >= 1 /\ h # h - 1
      BY <1>1, <2>4
    <3>2. ptr'[p][h] = ptr'[p][h - 1]
      BY <1>4, <3>1
    <3>3. \A j \in 1 .. 1 - 1 : FALSE
      OBVIOUS
    <3>4. QED
      BY <1>1, <1>2, <1>3, <2>1, <2>2, <2>3, <2>4, <3>1, <3>2, <3>3 DEF HoleAt
  <2>5. CASE ~more
    <3>1. h = 0 \/ ~Less(KeyOf[x], key[p][h - 1])
      BY <1>1, <2>5
    <3>2. \A j \in 1 .. 1 - 1 : FALSE
      OBVIOUS
    <3> HIDE DEF more
    <3>3. QED
      BY <1>1, <1>2, <1>3, <2>1, <2>2, <2>3, <2>5, <3>1, <3>2 DEF HoleAt
  <2>6. QED
    BY <2>4, <2>5
<1>7. last[First] = -1 => ptr'[First][1] = Null
  BY <1>1, <1>4 DEF SortedInv, EndInv
<1>8. QED
  BY <1>0, <1>p, <1>2, <1>3, <1>4, <1>5, <1>6, <1>7, HoleFrame

(* What the step that writes a word of the hole's key leaves alone.        *)
LEMMA WordWritten ==
  ASSUME PageInv, PageInv', SortedInv, w.pc \in Entry, NEW v \in Nat,
         key' = [key EXCEPT ![w.page][w.hole][w.word] = v]
  PROVE  /\ key'[w.page] \in [Slot -> Keys]
         /\ \A q \in Page \ {w.page} : key'[q] = key[q]
         /\ \A i \in Slot : i # w.hole => key'[w.page][i] = key[w.page][i]
         /\ \A j \in Word : key'[w.page][w.hole][j] =
                            IF j = w.word THEN v ELSE key[w.page][w.hole][j]
<1>1. /\ w.page \in Page /\ w.hole \in Slot /\ w.word \in Word
      /\ key \in [Page -> [Slot -> Keys]]
  <2>1. w.page \in Page /\ w.hole \in 0 .. Card - 2 /\ w.word \in Word
    BY DEF PageInv, WriterTypes
  <2>2. w.hole \in Slot
    BY <2>1, Constants
  <2>3. QED
    BY <2>1, <2>2 DEF PageInv, PageTypes
<1>2. key' \in [Page -> [Slot -> Keys]]
  BY DEF PageInv, PageTypes
<1>3. key[w.page] \in [Slot -> Keys] /\ key[w.page][w.hole] \in [Word -> Nat]
  BY <1>1 DEF Keys
<1> HIDE DEF Keys
<1>4. key'[w.page] = [key[w.page] EXCEPT ![w.hole] = [key[w.page][w.hole] EXCEPT ![w.word] = v]]
  BY <1>1, <1>3
<1>5. key'[w.page][w.hole] = [key[w.page][w.hole] EXCEPT ![w.word] = v]
  BY <1>1, <1>3, <1>4
<1>6. \A j \in Word : key'[w.page][w.hole][j] = IF j = w.word THEN v ELSE key[w.page][w.hole][j]
  BY <1>1, <1>3, <1>5
<1>7. QED
  BY <1>1, <1>2, <1>3, <1>4, <1>6

LEMMA SetKeySorted ==
  ASSUME PageInv, PageInv', SortedInv, SetKey,
         \A q \in Page \ {First} : key'[q][0] = key[q][0]
  PROVE  SortedInv'
<1> USE Constants
<1>0. w.pc = "key" /\ w.pc \in Entry
  BY DEF SetKey, Entry
<1>p. PICK p, n, h, x, word : p = w.page /\ n = w.n /\ h = w.hole /\ x = w.rec /\ word = w.word
  OBVIOUS
<1>1. /\ p \in Page /\ n \in 0 .. Card - 2 /\ h \in 0 .. n /\ n = last[p] + 1
      /\ word \in 1 .. NumWord /\ word \in Nat /\ x \in Rec /\ KeyOf[x] \in [Word -> Nat]
  <2>1. /\ p \in Page /\ n \in 0 .. Card - 2 /\ h \in 0 .. n /\ n = last[p] + 1
        /\ word \in Word /\ x \in Rec /\ KeyOf[x] \in Keys
    BY <1>0, <1>p, EntryIs
  <2>2. word \in 1 .. NumWord /\ word \in Nat
    BY <2>1 DEF Word
  <2>3. KeyOf[x] \in [Word -> Nat]
    BY <2>1 DEF Keys
  <2>4. QED
    BY <2>1, <2>2, <2>3
<1>2. /\ key' = [key EXCEPT ![w.page][w.hole][w.word] = KeyOf[x][word]]
      /\ w' = IF word < NumWord THEN [w EXCEPT !.word = @ + 1] ELSE [w EXCEPT !.pc = "ptr"]
      /\ UNCHANGED <<ptr, sibling, last>>
  BY <1>p DEF SetKey
<1>3. /\ key'[p] \in [Slot -> Keys]
      /\ \A q \in Page \ {p} : key'[q] = key[q]
      /\ \A i \in Slot : i # h => key'[p][i] = key[p][i]
      /\ \A j \in Word : key'[p][h][j] = IF j = word THEN KeyOf[x][word] ELSE key[p][h][j]
  <2>1. KeyOf[x][word] \in Nat
    BY <1>1 DEF Word
  <2>v. PICK v : v = KeyOf[x][word]
    OBVIOUS
  <2>2. /\ v \in Nat /\ key' = [key EXCEPT ![w.page][w.hole][w.word] = v]
    BY <1>2, <2>1, <2>v
  <2>3. /\ key'[w.page] \in [Slot -> Keys]
        /\ \A q \in Page \ {w.page} : key'[q] = key[q]
        /\ \A i \in Slot : i # w.hole => key'[w.page][i] = key[w.page][i]
        /\ \A j \in Word : key'[w.page][w.hole][j] =
                             IF j = w.word THEN v ELSE key[w.page][w.hole][j]
    BY <1>0, <2>2, WordWritten
  <2>4. QED
    BY ONLY <1>p, <2>v, <2>3
<1>4. /\ w'.page = p /\ w'.n = n /\ w'.hole = h /\ w'.rec = x
      /\ w'.pc = (IF word < NumWord THEN "key" ELSE "ptr") /\ w'.pc \in Entry
      /\ w'.word = (IF word < NumWord THEN word + 1 ELSE word)
  BY <1>0, <1>2, <1>p, EntryIs DEF Entry
<1>5. \A i \in (0 .. n) \ {h} : ptr'[p][i] = ptr[p][i] /\ key'[p][i] = key[p][i]
  BY <1>1, <1>2, <1>3
<1>6. HoleInv'
  <2>1. NotAbove(x, sibling[p]) /\ HoleAt("key", key[p], ptr[p], n, h, word, x)
    BY <1>0, <1>p DEF SortedInv, HoleInv
  <2>2. NotAbove(x, sibling[p])'
    <3>1. sibling[p] \in (Page \cup {Null}) \ {First}
      BY <1>1 DEF PageInv, PageTypes, SortedInv, ChainInv
    <3>2. QED
      BY <1>2, <2>1, <3>1 DEF NotAbove
  <2>3. /\ ptr'[p][n + 1] = Null
        /\ \A i \in h + 1 .. n : Less(KeyOf[x], key'[p][i])
        /\ h = 0 \/ ~Less(KeyOf[x], key'[p][h - 1])
    <3>1. \A i \in h + 1 .. n : key'[p][i] = key[p][i]
      BY <1>1, <1>5
    <3>2. h = 0 \/ key'[p][h - 1] = key[p][h - 1]
      BY <1>1, <1>5
    <3>3. QED
      BY <1>2, <2>1, <3>1, <3>2 DEF HoleAt
  <2>4. \A j \in 1 .. word : key'[p][h][j] = KeyOf[x][j]
    <3> SUFFICES ASSUME NEW j \in 1 .. word PROVE key'[p][h][j] = KeyOf[x][j]
      OBVIOUS
    <3>1. j \in Word /\ (j # word => j \in 1 .. word - 1)
      BY <1>1 DEF Word
    <3>2. j # word => key[p][h][j] = KeyOf[x][j]
      BY <2>1, <3>1 DEF HoleAt
    <3>3. QED
      BY <1>3, <3>1, <3>2
  <2>5. HoleAt(w'.pc, key'[p], ptr'[p], n, h, w'.word, x)
    <3>1. CASE word < NumWord
      <4>1. w'.pc = "key" /\ w'.word = word + 1 /\ (word + 1) - 1 = word
        BY <1>1, <1>4, <3>1
      <4>2. \A j \in 1 .. w'.word - 1 : key'[p][h][j] = KeyOf[x][j]
        BY <2>4, <4>1
      <4>3. QED
        BY <2>3, <4>1, <4>2 DEF HoleAt
    <3>2. CASE ~ (word < NumWord)
      <4>1. w'.pc = "ptr" /\ word = NumWord
        BY <1>1, <1>4, <3>2
      <4>2. key'[p][h] = KeyOf[x]
        <5>1. key'[p][h] \in [Word -> Nat]
          <6>1. h \in Slot
            BY <1>1
          <6>2. QED
            BY <1>3, <6>1 DEF Keys
        <5>2. \A j \in Word : key'[p][h][j] = KeyOf[x][j]
          BY <2>4, <4>1 DEF Word
        <5>3. QED
          BY <1>1, <5>1, <5>2
      <4>3. QED
        BY <2>3, <4>1, <4>2 DEF HoleAt
    <3>3. QED
      BY <3>1, <3>2
  <2>6. n = last'[p] + 1 /\ h <= n
    BY <1>1, <1>2
  <2>7. QED
    BY ONLY <1>4, <2>2, <2>5, <2>6, HoleAfter
<1>7. last[First] = -1 => ptr'[First][1] = Null
  BY <1>2 DEF SortedInv, EndInv
<1>8. QED
  BY <1>0, <1>p, <1>2, <1>3, <1>4, <1>5, <1>6, <1>7, HoleFrame

LEMMA MoveKeySorted ==
  ASSUME PageInv, PageInv', SortedInv, MoveKey,
         \A q \in Page \ {First} : key'[q][0] = key[q][0]
  PROVE  SortedInv'
<1> USE Constants
<1>0. w.pc = "move" /\ w.pc \in Entry
  BY DEF MoveKey, Entry
<1>p. PICK p, n, h, x, word : p = w.page /\ n = w.n /\ h = w.hole /\ x = w.rec /\ word = w.word
  OBVIOUS
<1>1. /\ p \in Page /\ n \in 0 .. Card - 2 /\ h \in 1 .. n /\ n = last[p] + 1
      /\ word \in 1 .. NumWord /\ word \in Nat /\ x \in Rec /\ KeyOf[x] \in [Word -> Nat]
      /\ key[p] \in [Slot -> Keys] /\ h \in Slot /\ h - 1 \in Slot /\ h # h - 1
  <2>1. h >= 1
    BY <1>0, <1>p DEF PageInv, HoleInPage
  <2>2. /\ p \in Page /\ n \in 0 .. Card - 2 /\ h \in 0 .. n /\ n = last[p] + 1
        /\ word \in Word /\ x \in Rec /\ KeyOf[x] \in Keys /\ key[p] \in [Slot -> Keys]
    BY <1>0, <1>p, EntryIs
  <2>3. word \in 1 .. NumWord /\ word \in Nat
    BY <2>2 DEF Word
  <2>4. KeyOf[x] \in [Word -> Nat]
    BY <2>2 DEF Keys
  <2>5. h \in 1 .. n /\ h \in Slot /\ h - 1 \in Slot /\ h # h - 1
    BY <2>1, <2>2
  <2>6. QED
    BY <2>2, <2>3, <2>4, <2>5
<1> DEFINE v == key[p][h - 1][word]
<1>2. /\ key' = [key EXCEPT ![w.page][w.hole][w.word] = v]
      /\ w' = IF word < NumWord THEN [w EXCEPT !.word = @ + 1]
              ELSE [w EXCEPT !.pc = "shift", !.hole = h - 1, !.word = 1]
      /\ UNCHANGED <<ptr, sibling, last>>
  BY <1>p DEF MoveKey
<1>3. /\ key'[p] \in [Slot -> Keys]
      /\ \A q \in Page \ {p} : key'[q] = key[q]
      /\ \A i \in Slot : i # h => key'[p][i] = key[p][i]
      /\ \A j \in Word : key'[p][h][j] = IF j = word THEN v ELSE key[p][h][j]
  <2>1. v \in Nat
    <3>1. key[p][h - 1] \in [Word -> Nat] /\ word \in Word
      BY <1>1 DEF Keys, Word
    <3>2. QED
      BY <3>1
  <2> HIDE DEF v
  <2>2. /\ key'[w.page] \in [Slot -> Keys]
        /\ \A q \in Page \ {w.page} : key'[q] = key[q]
        /\ \A i \in Slot : i # w.hole => key'[w.page][i] = key[w.page][i]
        /\ \A j \in Word : key'[w.page][w.hole][j] =
                             IF j = w.word THEN v ELSE key[w.page][w.hole][j]
    BY <1>0, <1>2, <2>1, WordWritten
  <2>3. QED
    BY ONLY <1>p, <2>2
<1>4. NotAbove(x, sibling[p]) /\ HoleAt("move", key[p], ptr[p], n, h, word, x)
  BY <1>0, <1>p DEF SortedInv, HoleInv
<1>5. NotAbove(x, sibling[p])'
  <2>1. sibling[p] \in (Page \cup {Null}) \ {First}
    BY <1>1 DEF PageInv, PageTypes, SortedInv, ChainInv
  <2>2. QED
    BY <1>2, <1>4, <2>1 DEF NotAbove
<1>6. \A j \in 1 .. word : key'[p][h][j] = key[p][h - 1][j]
  <2> SUFFICES ASSUME NEW j \in 1 .. word PROVE key'[p][h][j] = key[p][h - 1][j]
    OBVIOUS
  <2>1. j \in Word /\ (j # word => j \in 1 .. word - 1)
    BY <1>1 DEF Word
  <2>2. j # word => key[p][h][j] = key[p][h - 1][j]
    BY <1>4, <2>1 DEF HoleAt
  <2>3. QED
    BY <1>3, <2>1, <2>2
<1>7. /\ key'[p][h - 1] = key[p][h - 1]
      /\ \A i \in (0 .. n) \ {h} : ptr'[p][i] = ptr[p][i] /\ key'[p][i] = key[p][i]
  <2>1. \A i \in (0 .. n) \ {h} : i \in Slot /\ i # h
    BY <1>1
  <2>2. h - 1 \in (0 .. n) \ {h}
    BY <1>1
  <2>3. QED
    BY <1>2, <1>3, <2>1, <2>2
<1>8. /\ ptr'[p][n + 1] = Null
      /\ \A i \in h + 1 .. n : Less(KeyOf[x], key'[p][i])
      /\ Less(KeyOf[x], key'[p][h - 1])
      /\ ptr'[p][h] = ptr'[p][h - 1]
  <2>1. \A i \in h + 1 .. n : key'[p][i] = key[p][i]
    BY <1>1, <1>7
  <2>2. QED
    BY <1>2, <1>4, <1>7, <2>1 DEF HoleAt
<1>9. last[First] = -1 => ptr'[First][1] = Null
  BY <1>2 DEF SortedInv, EndInv
<1>10. CASE word < NumWord
  <2>1. /\ w'.page = p /\ w'.n = n /\ w'.hole = h /\ w'.rec = x /\ w'.pc = "move"
        /\ w'.pc \in Entry /\ w'.word = word + 1
    BY <1>0, <1>2, <1>p, <1>10, EntryIs DEF Entry
  <2>2. HoleAt("move", key'[p], ptr'[p], n, h, word + 1, x)
    <3>1. (word + 1) - 1 = word
      BY <1>1
    <3>2. QED
      BY <1>6, <1>7, <1>8, <3>1 DEF HoleAt
  <2>3. n = last'[p] + 1 /\ h <= n
    BY <1>1, <1>2
  <2>4. HoleInv'
    BY ONLY <1>5, <2>1, <2>2, <2>3, HoleAfter
  <2>5. QED
    BY <1>0, <1>p, <1>2, <1>3, <1>7, <1>9, <2>1, <2>4, HoleFrame
<1>11. CASE ~ (word < NumWord)
  <2>1. /\ w'.page = p /\ w'.n = n /\ w'.hole = h - 1 /\ w'.rec = x /\ w'.pc = "shift"
        /\ w'.pc \in Entry /\ w'.word = 1
    BY <1>0, <1>2, <1>p, <1>11, EntryIs DEF Entry
  <2>2. key'[p][h] = key[p][h - 1]
    <3>1. key'[p][h] \in [Word -> Nat] /\ key[p][h - 1] \in [Word -> Nat]
      BY <1>1, <1>3 DEF Keys
    <3>2. word = NumWord
      BY <1>1, <1>11
    <3>3. \A j \in Word : key'[p][h][j] = key[p][h - 1][j]
      BY <1>6, <3>2 DEF Word
    <3>4. QED
      BY <3>1, <3>3
  <2>3. HoleAt("shift", key'[p], ptr'[p], n, h - 1, 1, x)
    <3>1. \A i \in (h - 1) + 1 .. n : i = h \/ i \in h + 1 .. n
      BY <1>1
    <3>2. \A i \in (h - 1) + 1 .. n : Less(KeyOf[x], key'[p][i])
      BY <1>7, <1>8, <2>2, <3>1
    <3>3. QED
      BY <1>8, <3>2 DEF HoleAt
  <2>4. n = last'[p] + 1 /\ h - 1 <= n
    BY <1>1, <1>2
  <2>5. HoleInv'
    BY ONLY <1>5, <2>1, <2>3, <2>4, HoleAfter
  <2> DEFINE L == (0 .. n) \ {h}
             M == (0 .. n) \ {h - 1}
  <2>6. Live(p) = L /\ Live(p)' = M /\ InOrder(key[p], ptr[p], L)
    <3>1. Live(p) = L /\ InOrder(key[p], ptr[p], L)
      BY <1>0, <1>p, EntryIs
    <3>2. Live(p)' = M
      BY <2>1 DEF Live, Entry, Splitting
    <3>3. QED
      BY <3>1, <3>2
  <2> DEFINE u(i) == IF i = h THEN h - 1 ELSE i
  <2>7. \A i \in M : u(i) \in L /\ key'[p][i] = key[p][u(i)] /\ ptr'[p][i] = ptr[p][u(i)]
    <3> SUFFICES ASSUME NEW i \in M
                 PROVE  u(i) \in L /\ key'[p][i] = key[p][u(i)] /\ ptr'[p][i] = ptr[p][u(i)]
      OBVIOUS
    <3>1. CASE i = h
      <4>1. h - 1 \in L /\ ptr'[p][h] = ptr[p][h - 1]
        BY <1>1, <1>2, <1>8
      <4>2. QED
        BY <2>2, <3>1, <4>1
    <3>2. CASE i # h
      <4>1. i \in L
        BY <3>2
      <4>2. QED
        BY <1>7, <3>2, <4>1
    <3>3. QED
      BY <3>1, <3>2
  <2>8. \A i, j \in M : i < j => u(i) < u(j)
    BY <1>1
  <2>9. InOrder(key'[p], ptr'[p], M)
    <3> HIDE DEF L, M, u
    <3>1. QED
      BY ONLY <2>6, <2>7, <2>8 DEF InOrder
  <2>10. Content(p)' = Content(p)
    <3>1. \A i \in L : \E j \in M : ptr'[p][j] = ptr[p][i]
      <4> SUFFICES ASSUME NEW i \in L PROVE \E j \in M : ptr'[p][j] = ptr[p][i]
        OBVIOUS
      <4>1. CASE i = h - 1
        <5>1. h \in M /\ ptr'[p][h] = ptr[p][i]
          BY <1>1, <1>2, <1>7, <1>8, <4>1
        <5>2. QED
          BY <5>1
      <4>2. CASE i # h - 1
        BY <1>1, <1>2, <4>2
      <4>3. QED
        BY <4>1, <4>2
    <3> HIDE DEF L, M, u
    <3>2. QED
      BY <2>6, <2>7, <3>1 DEF Content
  <2>11. QED
    BY <1>0, <1>p, <1>2, <1>3, <1>9, <2>1, <2>5, <2>6, <2>9, <2>10, EntryFrame
<1>12. QED
  BY <1>10, <1>11

(* The key is complete and gets its pointer: the content of the page grows *)
(* by the record.                                                          *)
LEMMA SetPtrSorted ==
  ASSUME PageInv, SortedInv, SetPtr
  PROVE  SortedInv'
<1> USE Constants
<1>0. w.pc = "ptr" /\ w.pc \in Entry /\ w.pc \notin Splitting \cup {"idle", "publish"}
  BY DEF SetPtr, Entry, Splitting
<1>p. PICK p, n, h, x : p = w.page /\ n = w.n /\ h = w.hole /\ x = w.rec
  OBVIOUS
<1>1. /\ p \in Page /\ n \in 0 .. Card - 2 /\ h \in 0 .. n /\ n = last[p] + 1
      /\ x \in Rec /\ KeyOf[x] \in Keys /\ key[p] \in [Slot -> Keys]
      /\ ptr[p] \in [Slot -> Rec \cup {Null}] /\ h \in Slot
  BY <1>0, <1>p, EntryIs
<1> DEFINE L == (0 .. n) \ {h}
<1>2. Live(p) = L /\ InOrder(key[p], ptr[p], L)
  BY <1>0, <1>p, EntryIs
<1>3. /\ ptr' = [ptr EXCEPT ![p][h] = x] /\ last' = [last EXCEPT ![p] = n]
      /\ w' = IdleWriter /\ UNCHANGED <<key, sibling>>
  BY <1>p DEF SetPtr
<1>4. /\ w'.pc = "idle" /\ w'.pc \notin Splitting \cup Entry /\ w'.pc # "publish"
  BY <1>3 DEF IdleWriter, Splitting, Entry
<1>5. /\ \A q \in Page \ {p} : ptr'[q] = ptr[q] /\ last'[q] = last[q]
      /\ \A i \in Slot : ptr'[p][i] = IF i = h THEN x ELSE ptr[p][i]
      /\ last'[p] = n
  BY <1>1, <1>3 DEF PageInv, PageTypes
<1>6. /\ NotAbove(x, sibling[p]) /\ HoleAt("ptr", key[p], ptr[p], n, h, w.word, x)
  BY <1>0, <1>p DEF SortedInv, HoleInv
<1>7. /\ Linked' = Linked /\ Chain = Linked /\ Chain' = Linked /\ Linked \subseteq Page
      /\ p \in Linked
  BY <1>0, <1>p, <1>3, <1>4, LinkSame DEF Chain, Linked, SortedInv, ChainInv
<1>8. Live(p)' = 0 .. n
  BY <1>4, <1>5 DEF Live
<1>9. Content(p)' = Content(p) \cup {x}
  <2>1. \A i \in L : i \in 0 .. n /\ i # h /\ ptr'[p][i] = ptr[p][i]
    BY <1>1, <1>5
  <2>2. \A i \in 0 .. n : i = h \/ i \in L
    OBVIOUS
  <2>3. h \in 0 .. n /\ ptr'[p][h] = x
    BY <1>1, <1>5
  <2> HIDE DEF L
  <2>4. QED
    BY <1>2, <1>8, <2>1, <2>2, <2>3 DEF Content
<1>10. \A q \in Page \ {p} : Live(q)' = Live(q) /\ Content(q)' = Content(q)
  <2>1. \A q \in Page \ {p} : Live(q)' = 0 .. last[q] /\ Live(q) = 0 .. last[q]
    BY <1>0, <1>p, <1>4, <1>5 DEF Live
  <2>2. QED
    BY <1>5, <2>1 DEF Content
<1>11. \A y, q : NotAbove(y, q)' <=> NotAbove(y, q)
  BY <1>3 DEF NotAbove
<1>12. InOrder(key'[p], ptr'[p], 0 .. n)
  <2>1. /\ key[p][h] = KeyOf[x] /\ (h = 0 \/ ~Less(KeyOf[x], key[p][h - 1]))
        /\ \A i \in h + 1 .. n : Less(KeyOf[x], key[p][i])
    BY <1>6 DEF HoleAt
  <2>2. \A i \in 0 .. n : i \in Slot /\ key[p][i] \in Keys
    BY <1>1
  <2>3. \A i \in 0 .. h - 1 : ~Less(KeyOf[x], key[p][i])
    <3> SUFFICES ASSUME NEW i \in 0 .. h - 1 PROVE ~Less(KeyOf[x], key[p][i])
      OBVIOUS
    <3>1. /\ i \in L /\ h - 1 \in L /\ (i = h - 1 \/ i < h - 1)
          /\ i \in 0 .. n /\ h - 1 \in 0 .. n /\ h # 0
      BY <1>1
    <3>2. i < h - 1 => ~Less(key[p][h - 1], key[p][i])
      BY <1>2, <3>1 DEF InOrder
    <3>3. i < h - 1 => ~Less(KeyOf[x], key[p][i])
      BY <1>1, <2>1, <2>2, <3>1, <3>2, NotLessTrans
    <3>4. QED
      BY <2>1, <3>1, <3>3
  <2>4. \A i \in h + 1 .. n : ~Less(key[p][i], KeyOf[x])
    <3> SUFFICES ASSUME NEW i \in h + 1 .. n PROVE ~Less(key[p][i], KeyOf[x])
      OBVIOUS
    <3>1. i \in 0 .. n
      BY <1>1
    <3>2. QED
      BY <1>1, <2>1, <2>2, <3>1, LessAsym
  <2>5. \A i \in L : ptr[p][i] # x
    BY <1>0, <1>p, <1>2, <1>7 DEF SortedInv, Apart, Content
  <2>6. \A i \in 0 .. n : /\ i = h => ptr'[p][i] = x /\ key'[p][i] = KeyOf[x]
                          /\ i # h => i \in L /\ ptr'[p][i] = ptr[p][i] /\ key'[p][i] = key[p][i]
    BY <1>3, <1>5, <2>1, <2>2
  <2> SUFFICES ASSUME NEW i \in 0 .. n
               PROVE  /\ ptr'[p][i] \in Rec /\ key'[p][i] = KeyOf[ptr'[p][i]]
                      /\ \A j \in 0 .. n : i < j =>
                           ptr'[p][i] # ptr'[p][j] /\ ~Less(key'[p][j], key'[p][i])
    BY DEF InOrder
  <2> HIDE DEF L
  <2>7. ptr'[p][i] \in Rec /\ key'[p][i] = KeyOf[ptr'[p][i]]
    <3>1. i \in L => ptr[p][i] \in Rec /\ key[p][i] = KeyOf[ptr[p][i]]
      BY <1>2 DEF InOrder
    <3>2. QED
      BY <1>1, <2>6, <3>1
  <2>8. ASSUME NEW j \in 0 .. n, i < j
        PROVE  ptr'[p][i] # ptr'[p][j] /\ ~Less(key'[p][j], key'[p][i])
    <3>1. CASE i # h /\ j # h
      <4>1. ptr[p][i] # ptr[p][j] /\ ~Less(key[p][j], key[p][i])
        BY <1>2, <2>6, <2>8, <3>1 DEF InOrder
      <4>2. QED
        BY <2>6, <3>1, <4>1
    <3>2. CASE i = h
      <4>1. j \in h + 1 .. n /\ j # h
        BY <1>1, <2>8, <3>2
      <4>2. QED
        <5>1. ptr'[p][i] = x /\ key'[p][i] = KeyOf[x]
          BY <2>6, <3>2
        <5>2. j \in L /\ ptr'[p][j] = ptr[p][j] /\ key'[p][j] = key[p][j]
          BY <2>6, <4>1
        <5>3. ptr[p][j] # x /\ ~Less(key[p][j], KeyOf[x])
          BY <2>4, <2>5, <4>1, <5>2
        <5>4. QED
          BY ONLY <5>1, <5>2, <5>3
    <3>3. CASE j = h
      <4>1. i \in 0 .. h - 1 /\ i # h
        BY <1>1, <2>8, <3>3
      <4>2. QED
        <5>1. ptr'[p][j] = x /\ key'[p][j] = KeyOf[x]
          BY <2>6, <3>3
        <5>2. i \in L /\ ptr'[p][i] = ptr[p][i] /\ key'[p][i] = key[p][i]
          BY <2>6, <4>1
        <5>3. ptr[p][i] # x /\ ~Less(KeyOf[x], key[p][i])
          BY <2>3, <2>5, <4>1, <5>2
        <5>4. QED
          BY ONLY <5>1, <5>2, <5>3
    <3>4. QED
      BY <3>1, <3>2, <3>3
  <2>9. QED
    BY <2>7, <2>8
<1>13. LeafOrder'
  <2> SUFFICES ASSUME NEW q \in Linked
               PROVE  /\ InOrder(key'[q], ptr'[q], Live(q)')
                      /\ \A y \in Content(q)' : NotAbove(y, sibling[q])
    BY <1>3, <1>7, <1>11 DEF LeafOrder
  <2>1. InOrder(key[q], ptr[q], Live(q)) /\ \A y \in Content(q) : NotAbove(y, sibling[q])
    BY <1>7 DEF SortedInv, LeafOrder
  <2>2. CASE q = p
    BY <1>6, <1>8, <1>9, <1>12, <2>1, <2>2
  <2>3. CASE q # p
    BY <1>3, <1>5, <1>7, <1>10, <2>1, <2>3
  <2>4. QED
    BY <2>2, <2>3
<1>14. Apart'
  <2>1. /\ \A q1, q2 \in Linked : q1 # q2 => Content(q1) \cap Content(q2) = {}
        /\ \A q \in Linked : x \notin Content(q)
    BY <1>0, <1>p, <1>7 DEF SortedInv, Apart
  <2>2. \A q \in Linked : Content(q)' = IF q = p THEN Content(p) \cup {x} ELSE Content(q)
    BY <1>7, <1>9, <1>10
  <2>3. \A q1, q2 \in Linked : q1 # q2 => Content(q1)' \cap Content(q2)' = {}
    BY <2>1, <2>2
  <2>4. QED
    BY <1>4, <1>7, <2>3 DEF Apart
<1>15. ChainInv'
  BY <1>3, <1>4, <1>7 DEF SortedInv, ChainInv
<1>16. EndInv'
  <2>1. ptr'[p][last'[p] + 1] = Null
    <3>1. n + 1 \in Slot /\ n + 1 # h
      BY <1>1
    <3>2. QED
      BY <1>5, <1>6, <3>1 DEF HoleAt
  <2>2. last'[First] = -1 => First # p
    BY <1>1, <1>5
  <2>3. QED
    BY <1>4, <1>5, <1>7, <1>p, <2>1, <2>2 DEF SortedInv, EndInv
<1>17. SplitInv' /\ HoleInv'
  BY <1>4 DEF SplitInv, HoleInv
<1>18. QED
  BY <1>13, <1>14, <1>15, <1>16, <1>17 DEF SortedInv

-----------------------------------------------------------------------------
LEMMA IdleCount ==
  ASSUME PageInv, SortedInv, w.pc = "idle", NEW p \in Linked
  PROVE  /\ p \in Page /\ Count(p) = last[p] + 1 /\ Live(p) = 0 .. last[p]
         /\ Held(p) = Content(p) /\ Null \notin Content(p) /\ Chain = Linked
<1> USE Constants
<1>0. p \in Page /\ Chain = Linked /\ p \in Chain
  BY DEF Linked, Chain
<1>1. Live(p) = 0 .. last[p]
  BY DEF Live, Splitting, Entry
<1>2. ptr[p][last[p] + 1] = Null
  BY <1>0 DEF SortedInv, EndInv
<1>3. /\ Count(p) \in Slot /\ Count(p) > last[p] /\ last[p] \in -1 .. Card - 2
      /\ \A i \in last[p] + 1 .. Count(p) - 1 : ptr[p][i] # Null
  BY <1>0, CountInPage DEF PageInv, PageTypes
<1>4. Count(p) = last[p] + 1
  <2>1. last[p] + 1 \notin last[p] + 1 .. Count(p) - 1
    BY <1>2, <1>3
  <2>2. QED
    BY <1>3, <2>1
<1>5. 0 .. Count(p) - 1 = 0 .. last[p]
  BY <1>3, <1>4
<1>6. Held(p) = Content(p)
  BY <1>1, <1>5 DEF Held, Content
<1>7. Null \notin Content(p)
  BY <1>0 DEF SortedInv, LeafOrder, InOrder, Content
<1>8. QED
  BY <1>0, <1>1, <1>4, <1>6, <1>7

(* A record that is not indexed is in no page.                             *)
LEMMA IdleIndexed ==
  ASSUME PageInv, SortedInv, w.pc = "idle"
  PROVE  Indexed = UNION {Content(p) : p \in Linked}
<1>1. \A p \in Linked : Held(p) = Content(p) /\ Null \notin Content(p)
  BY IdleCount
<1> DEFINE U == UNION {Content(p) : p \in Linked}
<1>5. \A x : x \in Indexed <=> x \in U
  <2> SUFFICES ASSUME NEW x PROVE x \in Indexed <=> x \in U
    OBVIOUS
  <2>1. x \in Indexed <=> x # Null /\ \E p \in Linked : x \in Held(p)
    BY DEF Indexed
  <2>2. x \in U <=> \E p \in Linked : x \in Content(p)
    OBVIOUS
  <2>3. QED
    BY <1>1, <2>1, <2>2
<1>6. Indexed = U
  <2> HIDE DEF U
  <2>1. \A S, T : (\A x : x \in S <=> x \in T) => S = T
    OBVIOUS
  <2>2. QED
    BY ONLY <1>5, <2>1
<1>7. QED
  BY <1>6 DEF U

LEMMA StoreFastSorted ==
  ASSUME PageInv, SortedInv, NEW x \in Rec, NEW p \in Page, StoreFast(x, p)
  PROVE  SortedInv'
<1> USE Constants
<1>n. PICK n : n = Count(p)
  OBVIOUS
<1>1. /\ w.pc = "idle" /\ x \notin Indexed /\ IsTarget(x, p)
      /\ w' = Entering(x, p, n) /\ UNCHANGED <<key, ptr, sibling, counter, last>>
  BY <1>n DEF StoreFast, pageVars
<1>2. /\ p \in Linked /\ n = last[p] + 1 /\ n \in Nat /\ Live(p) = 0 .. last[p]
      /\ ptr[p][n] = Null /\ Chain = Linked /\ last[p] \in Int
  <2>1. p \in Linked
    BY <1>1 DEF IsTarget
  <2>2. Count(p) = last[p] + 1 /\ Live(p) = 0 .. last[p] /\ Chain = Linked
    BY <1>1, <2>1, IdleCount
  <2>3. last[p] \in -1 .. Card - 2
    BY DEF PageInv, PageTypes
  <2>4. ptr[p][n] = Null
    BY <1>n, CountInPage
  <2>5. QED
    BY <1>n, <2>1, <2>2, <2>3, <2>4
<1>3. /\ w'.pc = (IF n = 0 THEN "key" ELSE "end") /\ w'.rec = x /\ w'.page = p
      /\ w'.n = n /\ w'.hole = n /\ w'.word = 1
      /\ w'.pc \in Entry /\ w'.pc \notin Splitting \cup {"idle", "publish"}
  BY <1>1 DEF Entering, IdleWriter, Entry, Splitting
<1>4. Linked' = Linked /\ Chain' = Linked /\ Linked \subseteq Page
  BY <1>1, <1>3, LinkSame DEF Chain, Linked
<1>5. Live(p)' = Live(p)
  <2>1. Live(p)' = (0 .. n) \ {n}
    BY <1>3 DEF Live
  <2>2. QED
    BY <1>2, <2>1
<1>6. \A q \in Page : Live(q)' = Live(q)
  BY <1>1, <1>3, <1>5 DEF Live, Splitting, Entry
<1>7. \A q \in Page : Content(q)' = Content(q)
  BY <1>1, <1>6 DEF Content
<1>8. \A y, q : NotAbove(y, q)' <=> NotAbove(y, q)
  BY <1>1 DEF NotAbove
<1>9. LeafOrder'
  <2> SUFFICES ASSUME NEW q \in Linked
               PROVE  /\ InOrder(key'[q], ptr'[q], Live(q)')
                      /\ \A y \in Content(q)' : NotAbove(y, sibling[q])
    BY <1>1, <1>4, <1>8 DEF LeafOrder
  <2>1. InOrder(key[q], ptr[q], Live(q)) /\ \A y \in Content(q) : NotAbove(y, sibling[q])
    BY <1>2 DEF SortedInv, LeafOrder
  <2>2. QED
    BY <1>1, <1>4, <1>6, <1>7, <2>1
<1>10. Apart'
  <2>1. \A q \in Linked : x \notin Content(q)
    BY <1>1, IdleIndexed
  <2>2. QED
    BY <1>2, <1>3, <1>4, <1>7, <2>1 DEF SortedInv, Apart
<1>11. ChainInv'
  BY <1>1, <1>2, <1>3, <1>4 DEF SortedInv, ChainInv
<1>12. EndInv'
  BY <1>1, <1>2, <1>3, <1>4 DEF SortedInv, EndInv
<1>13. SplitInv'
  BY <1>3 DEF SplitInv
<1>14. HoleInv'
  <2>1. NotAbove(x, sibling[p])
    BY <1>1 DEF IsTarget, NotAbove
  <2>2. NotAbove(x, sibling[p])'
    BY <1>1, <2>1 DEF NotAbove
  <2>3. \A i \in n + 1 .. n : FALSE
    BY <1>2
  <2>4. HoleAt(w'.pc, key'[p], ptr'[p], n, n, 1, x)
    <3>1. CASE n = 0
      <4>1. p = First /\ last[First] = -1
        BY <1>2, <3>1 DEF PageInv, NotEmpty
      <4>2. ptr'[p][n + 1] = Null
        BY <1>1, <3>1, <4>1 DEF SortedInv, EndInv
      <4>3. w'.pc = "key" /\ \A j \in 1 .. 1 - 1 : FALSE
        BY <1>3, <3>1
      <4>4. QED
        BY <2>3, <3>1, <4>2, <4>3 DEF HoleAt
    <3>2. CASE n # 0
      <4>1. w'.pc = "end" /\ n >= 1
        BY <1>2, <1>3, <3>2
      <4>2. QED
        BY <2>3, <4>1 DEF HoleAt
    <3>3. QED
      BY <3>1, <3>2
  <2>5. n = last'[p] + 1 /\ n <= n
    BY <1>1, <1>2
  <2>6. QED
    BY ONLY <1>3, <2>2, <2>4, <2>5, HoleAfter
<1>15. QED
  BY <1>9, <1>10, <1>11, <1>12, <1>13, <1>14 DEF SortedInv

-----------------------------------------------------------------------------
(* What is kept by a step of a split that changes neither the live entries *)
(* of a page nor the leaves of the chain.                                  *)
LEMMA SplitFrame ==
  ASSUME PageInv, SortedInv, key' = key, Chain' = Chain,
         w.pc # "idle", w'.rec = w.rec,
         \A q \in Page : Live(q)' = Live(q),
         \A q \in Page : \A i \in Live(q) : ptr'[q][i] = ptr[q][i],
         \A q \in Page : sibling'[q] # sibling[q] =>
           \A x \in Content(q) : NotAbove(x, sibling'[q])
  PROVE  /\ LeafOrder' /\ Apart'
         /\ \A q \in Page : Content(q)' = Content(q)
         /\ \A x, q : NotAbove(x, q)' <=> NotAbove(x, q)
<1>1. Chain \subseteq Page
  BY Constants DEF Chain, Linked, PageInv, SplitReady, Splitting
<1>2. \A q \in Page : Content(q)' = Content(q)
  BY DEF Content
<1>3. \A x, q : NotAbove(x, q)' <=> NotAbove(x, q)
  BY DEF NotAbove
<1>4. LeafOrder'
  <2> SUFFICES ASSUME NEW q \in Chain
               PROVE  /\ InOrder(key'[q], ptr'[q], Live(q)')
                      /\ \A x \in Content(q)' : NotAbove(x, sibling'[q])
    BY <1>3 DEF LeafOrder
  <2>1. InOrder(key[q], ptr[q], Live(q)) /\ \A x \in Content(q) : NotAbove(x, sibling[q])
    BY DEF SortedInv, LeafOrder
  <2>2. \A i \in Live(q) : key'[q][i] = key[q][i] /\ ptr'[q][i] = ptr[q][i]
    BY <1>1
  <2>3. InOrder(key'[q], ptr'[q], Live(q))
    BY ONLY <2>1, <2>2, InOrderFrame
  <2>4. \A x \in Content(q) : NotAbove(x, sibling'[q])
    BY <1>1, <2>1
  <2>5. QED
    BY <1>1, <1>2, <2>3, <2>4
<1>5. Apart'
  BY <1>1, <1>2 DEF SortedInv, Apart
<1>6. QED
  BY <1>2, <1>3, <1>4, <1>5

LEMMA SplitIs ==
  ASSUME PageInv, SortedInv, w.pc \in Splitting
  PROVE  /\ w.page \in Page /\ w.page \in Linked /\ w.new \in Page \ {First}
         /\ w.new # w.page /\ w.rec \in Rec /\ KeyOf[w.rec] \in Keys
         /\ w.n \in 1 .. Card - 2 /\ last[w.new] \in 0 .. Card - 3
         /\ Live(w.page) = 0 .. w.n - 1 /\ Live(w.new) = 0 .. last[w.new]
         /\ ptr[w.new][last[w.new] + 1] = Null
         /\ key[w.new][0] = key[w.page][w.n] /\ key[w.page][w.n] \in Keys
         /\ \A x \in Content(w.page) : NotAbove(x, w.new)
         /\ NotAbove(w.rec, sibling[w.new])
         /\ sibling \in [Page -> Page \cup {Null}]
         /\ DOMAIN w = {"pc", "rec", "page", "new", "n", "hole", "word"}
<1> USE Constants
<1>1. /\ w.page \in Page /\ w.page \in Linked /\ w.new \in Page \ {First}
      /\ w.new # w.page /\ w.rec \in Rec /\ w.n \in 1 .. Card - 2
      /\ last[w.new] \in 0 .. Card - 3 /\ ptr[w.new][last[w.new] + 1] = Null
      /\ key[w.new][0] = key[w.page][w.n]
      /\ DOMAIN w = {"pc", "rec", "page", "new", "n", "hole", "word"}
  BY DEF PageInv, WriterTypes, SplitReady, SortedInv, ChainInv, Splitting
<1>2. /\ \A x \in Content(w.page) : NotAbove(x, w.new)
      /\ NotAbove(w.rec, sibling[w.new])
  BY DEF SortedInv, SplitInv
<1>3. Live(w.page) = 0 .. w.n - 1 /\ Live(w.new) = 0 .. last[w.new]
  BY <1>1 DEF Live, Splitting, Entry
<1>4. key[w.page][w.n] \in Keys
  <2>1. w.n \in Slot
    BY <1>1
  <2>2. QED
    BY <1>1, <2>1 DEF PageInv, PageTypes
<1>5. KeyOf[w.rec] \in Keys /\ sibling \in [Page -> Page \cup {Null}]
  BY <1>1 DEF PageInv, PageTypes
<1>6. QED
  BY <1>1, <1>2, <1>3, <1>4, <1>5

LEMMA PublishSorted ==
  ASSUME PageInv, SortedInv, Publish
  PROVE  /\ SortedInv'
         /\ Linked' = Linked \cup {w.new}
<1> USE Constants
<1>0. w.pc = "publish" /\ w.pc \in Splitting
  BY DEF Publish, Splitting
<1>p. PICK p, s, n, x : p = w.page /\ s = w.new /\ n = w.n /\ x = w.rec
  OBVIOUS
<1>1. /\ p \in Page /\ p \in Linked /\ s \in Page \ {First} /\ s # p
      /\ sibling \in [Page -> Page \cup {Null}]
      /\ \A y \in Content(p) : NotAbove(y, s)
      /\ NotAbove(x, sibling[s])
  BY <1>0, <1>p, SplitIs
<1>2. /\ sibling' = [sibling EXCEPT ![p] = s] /\ w' = [w EXCEPT !.pc = "bump"]
      /\ UNCHANGED <<key, ptr, counter, last>>
  BY <1>p DEF Publish
<1>3. /\ w'.pc = "bump" /\ w'.rec = x /\ w'.page = p /\ w'.new = s /\ w'.n = n
      /\ w'.hole = w.hole
  BY <1>0, <1>2, <1>p, SplitIs
<1>4. s \notin Linked /\ sibling[s] = sibling[p] /\ Chain = Linked \cup {s}
  BY <1>0, <1>p DEF SortedInv, SplitInv, Chain
<1>5. \A q \in Page : sibling'[q] = IF q = p THEN s ELSE sibling[q]
  BY <1>1, <1>2
<1>6. Linked' = Linked \cup {s}
  <2>1. \A q \in Page : (\E h \in Page : sibling'[h] = q) <=>
                       (q = s \/ \E h \in Page : sibling[h] = q)
    <3> SUFFICES ASSUME NEW q \in Page
                 PROVE  (\E h \in Page : sibling'[h] = q) <=>
                        (q = s \/ \E h \in Page : sibling[h] = q)
      OBVIOUS
    <3>1. ASSUME NEW h \in Page, sibling[h] = q PROVE \E g \in Page : sibling'[g] = q
      <4>1. CASE h = p
        BY <1>1, <1>4, <1>5, <3>1, <4>1
      <4>2. CASE h # p
        BY <1>5, <3>1, <4>2
      <4>3. QED
        BY <4>1, <4>2
    <3>2. q = s => \E g \in Page : sibling'[g] = q
      BY <1>1, <1>5
    <3>3. ASSUME NEW h \in Page, sibling'[h] = q
          PROVE  q = s \/ \E g \in Page : sibling[g] = q
      BY <1>5, <3>3
    <3>4. QED
      BY <3>1, <3>2, <3>3
  <2>2. QED
    BY <1>1, <2>1 DEF Linked
<1>7. Chain' = Chain
  BY <1>3, <1>4, <1>6 DEF Chain
<1>8. \A q \in Page : Live(q)' = Live(q)
  BY <1>0, <1>2, <1>3, <1>p DEF Live, Splitting
<1>9. /\ LeafOrder' /\ Apart'
      /\ \A q \in Page : Content(q)' = Content(q)
      /\ \A y, q : NotAbove(y, q)' <=> NotAbove(y, q)
  <2>1. \A q \in Page : sibling'[q] # sibling[q] =>
           \A y \in Content(q) : NotAbove(y, sibling'[q])
    BY <1>1, <1>5
  <2>2. \A q \in Page : \A i \in Live(q) : ptr'[q][i] = ptr[q][i]
    BY <1>2
  <2>3. w.pc # "idle" /\ w'.rec = w.rec /\ key' = key
    BY <1>0, <1>2, <1>3, <1>p
  <2>4. QED
    BY <1>7, <1>8, <2>1, <2>2, <2>3, SplitFrame
<1>10. ChainInv'
  BY <1>1, <1>3, <1>4, <1>5, <1>6, <1>7 DEF SortedInv, ChainInv
<1>11. EndInv'
  BY <1>0, <1>2, <1>3, <1>7, <1>p DEF SortedInv, EndInv
<1>12. SplitInv' /\ HoleInv'
  <2>1. \A y \in Content(p)' : NotAbove(y, s)'
    BY <1>1, <1>9
  <2>2. NotAbove(x, sibling[s])'
    <3>1. sibling'[s] = sibling[s]
      BY <1>1, <1>5
    <3>2. QED
      BY <1>1, <1>2, <3>1 DEF NotAbove
  <2>3. QED
    BY <1>1, <1>3, <1>5, <2>1, <2>2 DEF SplitInv, HoleInv, Entry, Content, NotAbove
<1>13. QED
  BY <1>6, <1>9, <1>10, <1>11, <1>12, <1>p DEF SortedInv

LEMMA BumpSorted ==
  ASSUME PageInv, SortedInv, Bump
  PROVE  SortedInv'
<1> USE Constants
<1>0. w.pc = "bump" /\ w.pc \in Splitting
  BY DEF Bump, Splitting
<1>2. w' = [w EXCEPT !.pc = "cut"] /\ UNCHANGED <<key, ptr, sibling, last>>
  BY DEF Bump
<1>3. /\ w'.pc = "cut" /\ w'.rec = w.rec /\ w'.page = w.page /\ w'.new = w.new
      /\ w'.n = w.n /\ w'.hole = w.hole
  BY <1>0, <1>2, SplitIs
<1>4. Linked' = Linked /\ Chain' = Chain
  BY <1>0, <1>2, <1>3, LinkSame DEF Chain
<1>5. \A q \in Page : Live(q)' = Live(q)
  BY <1>0, <1>2, <1>3 DEF Live, Splitting
<1>6. /\ LeafOrder' /\ Apart'
      /\ \A q \in Page : Content(q)' = Content(q)
      /\ \A y, q : NotAbove(y, q)' <=> NotAbove(y, q)
  BY <1>0, <1>2, <1>3, <1>4, <1>5, SplitFrame
<1>7. ChainInv' /\ EndInv'
  BY <1>0, <1>2, <1>3, <1>4 DEF SortedInv, ChainInv, EndInv
<1>p. PICK p, s, x : p = w.page /\ s = w.new /\ x = w.rec
  OBVIOUS
<1>8. SplitInv'
  <2>1. p \in Page /\ (\A y \in Content(p) : NotAbove(y, s)) /\ NotAbove(x, sibling[s])
    BY <1>0, <1>p, SplitIs
  <2>2. sibling[p] = s
    BY <1>0, <1>p DEF SortedInv, SplitInv
  <2>3. \A y \in Content(p)' : NotAbove(y, s)'
    BY <1>6, <2>1
  <2>4. NotAbove(x, sibling[s])'
    BY <1>2, <2>1 DEF NotAbove
  <2>5. w'.page = p /\ w'.new = s /\ w'.rec = x /\ w'.pc = "cut"
    BY <1>3, <1>p
  <2>6. QED
    BY <1>2, <2>2, <2>3, <2>4, <2>5 DEF SplitInv, Content, NotAbove
<1>9. HoleInv'
  BY <1>3 DEF HoleInv, Entry
<1>10. QED
  BY <1>6, <1>7, <1>8, <1>9 DEF SortedInv

(* A cut takes no live entry away.                                         *)
LEMMA CutLive ==
  ASSUME PageInv, SortedInv, Cut
  PROVE  \A q \in Page : Live(q)' = Live(q)
<1> USE Constants
<1>0. w.pc = "cut" /\ w.pc \in Splitting
  BY DEF Cut, Splitting
<1>p. PICK p, s, n, x : p = w.page /\ s = w.new /\ n = w.n /\ x = w.rec
  OBVIOUS
<1>1. /\ p \in Page /\ p \in Linked /\ s \in Page \ {First} /\ s # p
      /\ x \in Rec /\ KeyOf[x] \in Keys /\ n \in 1 .. Card - 2
      /\ last[s] \in 0 .. Card - 3 /\ Live(p) = 0 .. n - 1 /\ Live(s) = 0 .. last[s]
      /\ ptr[s][last[s] + 1] = Null /\ key[s][0] = key[p][n] /\ key[p][n] \in Keys
      /\ NotAbove(x, sibling[s])
  BY <1>0, <1>p, SplitIs
<1> DEFINE low == Less(KeyOf[x], key[p][n])
<1>c. PICK to, m : IF low THEN to = p /\ m = n ELSE to = s /\ m = last[s] + 1
  <2>1. CASE low
    <3>1. \E to, m : to = p /\ m = n
      OBVIOUS
    <3>2. QED
      BY <2>1, <3>1
  <2>2. CASE ~low
    <3>1. \E to, m : to = s /\ m = last[s] + 1
      OBVIOUS
    <3>2. QED
      BY <2>2, <3>1
  <2>3. QED
    BY <2>1, <2>2
<1>d. low => to = p /\ m = n
  BY <1>c
<1>e. ~low => to = s /\ m = last[s] + 1
  BY <1>c
<1>2. /\ ptr' = [ptr EXCEPT ![p][n] = Null] /\ last' = [last EXCEPT ![p] = n - 1]
      /\ w' = Entering(x, to, m) /\ UNCHANGED <<key, sibling>>
  <2>1. /\ ptr' = [ptr EXCEPT ![p][n] = Null] /\ last' = [last EXCEPT ![p] = n - 1]
        /\ w' = (IF low THEN Entering(x, p, n) ELSE Entering(x, s, last[s] + 1))
        /\ UNCHANGED <<key, sibling>>
    BY <1>p DEF Cut
  <2>2. QED
    BY <1>d, <1>e, <2>1
<1>3. m \in 1 .. Card - 2 /\ to \in {p, s} /\ to \in Linked
  <2>1. sibling[p] = s
    BY <1>0, <1>p DEF SortedInv, SplitInv
  <2>2. s \in Linked
    BY <1>1, <2>1 DEF Linked
  <2>3. QED
    BY <1>1, <1>d, <1>e, <2>2
<1>4. /\ w'.pc = "end" /\ w'.rec = x /\ w'.page = to /\ w'.n = m /\ w'.hole = m
      /\ w'.word = 1 /\ w'.pc \in Entry
      /\ w'.pc \notin Splitting \cup {"idle", "publish"}
  <2>1. m # 0
    BY <1>3
  <2>2. QED
    BY <1>2, <2>1 DEF Entering, IdleWriter, Entry, Splitting
<1>5. /\ \A q \in Page : last'[q] = IF q = p THEN n - 1 ELSE last[q]
      /\ \A q \in Page : \A i \in Slot :
           ptr'[q][i] = IF q = p /\ i = n THEN Null ELSE ptr[q][i]
      /\ \A q \in Page \ {p} : ptr'[q] = ptr[q]
  BY <1>1, <1>2 DEF PageInv, PageTypes
<1>6. m = last'[to] + 1
  <2>1. last'[p] = n - 1 /\ last'[s] = last[s]
    BY <1>1, <1>5
  <2>2. QED
    BY <1>1, <1>d, <1>e, <2>1
<1>7. QED
  <2>1. Live(to)' = (0 .. m) \ {m}
    BY <1>4 DEF Live
  <2>2. (0 .. m) \ {m} = 0 .. m - 1
    BY <1>3
  <2>9. Live(to)' = 0 .. m - 1
    BY <2>1, <2>2
  <2>3. low => Live(p)' = Live(p)
    BY <1>1, <1>d, <2>9
  <2>4. ~low => Live(s)' = Live(s)
    <3>1. ~low => m - 1 = last[s]
      BY <1>1, <1>e
    <3>2. QED
      BY <1>1, <1>e, <2>9, <3>1
  <2>5. \A q \in Page : q # to => Live(q)' = 0 .. last'[q]
    BY <1>4 DEF Live
  <2>6. ~low => Live(p)' = Live(p)
    <3>1. last'[p] = n - 1
      BY <1>1, <1>5
    <3>2. ~low => p # to
      BY <1>1, <1>e
    <3>3. QED
      BY <1>1, <2>5, <3>1, <3>2
  <2>10. low => Live(s)' = Live(s)
    <3>1. last'[s] = last[s]
      BY <1>1, <1>5
    <3>2. low => s # to
      BY <1>1, <1>d
    <3>3. QED
      BY <1>1, <2>5, <3>1, <3>2
  <2>7. \A q \in Page : q # p /\ q # s => Live(q)' = Live(q)
    <3>1. \A q \in Page : q # p => Live(q) = 0 .. last[q]
      BY <1>0, <1>p DEF Live, Splitting, Entry
    <3>2. QED
      BY <1>3, <1>5, <2>5, <3>1
  <2>8. QED
    BY <2>3, <2>4, <2>6, <2>7, <2>10

LEMMA CutSorted ==
  ASSUME PageInv, SortedInv, Cut
  PROVE  SortedInv'
<1> USE Constants
<1>0. w.pc = "cut" /\ w.pc \in Splitting
  BY DEF Cut, Splitting
<1>p. PICK p, s, n, x : p = w.page /\ s = w.new /\ n = w.n /\ x = w.rec
  OBVIOUS
<1>1. /\ p \in Page /\ p \in Linked /\ s \in Page \ {First} /\ s # p
      /\ x \in Rec /\ KeyOf[x] \in Keys /\ n \in 1 .. Card - 2
      /\ last[s] \in 0 .. Card - 3 /\ Live(p) = 0 .. n - 1 /\ Live(s) = 0 .. last[s]
      /\ ptr[s][last[s] + 1] = Null /\ key[s][0] = key[p][n] /\ key[p][n] \in Keys
      /\ NotAbove(x, sibling[s])
  BY <1>0, <1>p, SplitIs
<1> DEFINE low == Less(KeyOf[x], key[p][n])
<1>c. PICK to, m : IF low THEN to = p /\ m = n ELSE to = s /\ m = last[s] + 1
  <2>1. CASE low
    <3>1. \E to, m : to = p /\ m = n
      OBVIOUS
    <3>2. QED
      BY <2>1, <3>1
  <2>2. CASE ~low
    <3>1. \E to, m : to = s /\ m = last[s] + 1
      OBVIOUS
    <3>2. QED
      BY <2>2, <3>1
  <2>3. QED
    BY <2>1, <2>2
<1>d. low => to = p /\ m = n
  BY <1>c
<1>e. ~low => to = s /\ m = last[s] + 1
  BY <1>c
<1>2. /\ ptr' = [ptr EXCEPT ![p][n] = Null] /\ last' = [last EXCEPT ![p] = n - 1]
      /\ w' = Entering(x, to, m) /\ UNCHANGED <<key, sibling>>
  <2>1. /\ ptr' = [ptr EXCEPT ![p][n] = Null] /\ last' = [last EXCEPT ![p] = n - 1]
        /\ w' = (IF low THEN Entering(x, p, n) ELSE Entering(x, s, last[s] + 1))
        /\ UNCHANGED <<key, sibling>>
    BY <1>p DEF Cut
  <2>2. QED
    BY <1>d, <1>e, <2>1
<1>3. m \in 1 .. Card - 2 /\ to \in {p, s} /\ to \in Linked
  <2>1. sibling[p] = s
    BY <1>0, <1>p DEF SortedInv, SplitInv
  <2>2. s \in Linked
    BY <1>1, <2>1 DEF Linked
  <2>3. QED
    BY <1>1, <1>d, <1>e, <2>2
<1>4. /\ w'.pc = "end" /\ w'.rec = x /\ w'.page = to /\ w'.n = m /\ w'.hole = m
      /\ w'.word = 1 /\ w'.pc \in Entry
      /\ w'.pc \notin Splitting \cup {"idle", "publish"}
  <2>1. m # 0
    BY <1>3
  <2>2. QED
    BY <1>2, <2>1 DEF Entering, IdleWriter, Entry, Splitting
<1>5. /\ \A q \in Page : last'[q] = IF q = p THEN n - 1 ELSE last[q]
      /\ \A q \in Page : \A i \in Slot :
           ptr'[q][i] = IF q = p /\ i = n THEN Null ELSE ptr[q][i]
      /\ \A q \in Page \ {p} : ptr'[q] = ptr[q]
  BY <1>1, <1>2 DEF PageInv, PageTypes
<1>6. m = last'[to] + 1
  <2>1. last'[p] = n - 1 /\ last'[s] = last[s]
    BY <1>1, <1>5
  <2>2. QED
    BY <1>1, <1>d, <1>e, <2>1
<1>7. Linked' = Linked /\ Chain = Linked /\ Chain' = Linked
  BY <1>0, <1>2, <1>4, LinkSame DEF Chain
<1>8. \A q \in Page : Live(q)' = Live(q)
  BY CutLive
<1>9. /\ LeafOrder' /\ Apart'
      /\ \A q \in Page : Content(q)' = Content(q)
      /\ \A y, q : NotAbove(y, q)' <=> NotAbove(y, q)
  <2>1. \A i \in Live(p) : ptr'[p][i] = ptr[p][i]
    BY <1>1, <1>5
  <2>2. \A q \in Page : \A i \in Live(q) : ptr'[q][i] = ptr[q][i]
    BY <1>5, <2>1
  <2>3. w.pc # "idle" /\ w'.rec = w.rec /\ key' = key /\ Chain' = Chain /\ sibling' = sibling
    BY <1>0, <1>2, <1>4, <1>7, <1>p
  <2>4. QED
    BY <1>8, <2>2, <2>3, SplitFrame
<1>10. ChainInv'
  <2>1. to \in Linked'
    BY <1>3, <1>7
  <2>2. QED
    BY <1>2, <1>4, <1>7, <2>1 DEF SortedInv, ChainInv
<1>11. EndInv'
  <2>1. last'[First] = -1 => ptr'[First][1] = Null
    <3>1. p # First => last'[First] = last[First] /\ ptr'[First] = ptr[First]
      BY <1>5
    <3>2. last'[p] # -1
      BY <1>1, <1>5
    <3>3. QED
      BY <3>1, <3>2 DEF SortedInv, EndInv
  <2>2. ptr'[p][last'[p] + 1] = Null
    <3>1. last'[p] + 1 = n /\ n \in Slot
      BY <1>1, <1>5
    <3>2. QED
      BY <1>1, <1>5, <3>1
  <2>3. ptr'[s][last'[s] + 1] = Null
    BY <1>1, <1>5
  <2>4. \A q \in Linked : q # p /\ q # s => ptr'[q][last'[q] + 1] = Null
    BY <1>5, <1>7, <1>p DEF SortedInv, EndInv, Linked
  <2>5. QED
    BY <1>7, <2>1, <2>2, <2>3, <2>4 DEF EndInv
<1>12. SplitInv'
  BY <1>4 DEF SplitInv
<1>13. HoleInv'
  <2>1. NotAbove(x, sibling[to])
    <3>1. CASE low
      <4>1. sibling[p] = s
        BY <1>0, <1>p DEF SortedInv, SplitInv
      <4>2. ~Less(key[s][0], KeyOf[x])
        BY <1>1, <3>1, LessAsym
      <4>3. QED
        BY <1>d, <3>1, <4>1, <4>2 DEF NotAbove
    <3>2. CASE ~low
      BY <1>1, <1>e, <3>2
    <3>3. QED
      BY <3>1, <3>2
  <2>2. \A i \in m + 1 .. m : FALSE
    BY <1>3
  <2>3. NotAbove(x, sibling[to])'
    <3>1. NotAbove(x, sibling'[to])
      BY <1>2, <2>1
    <3>2. QED
      BY <1>2, <2>1 DEF NotAbove
  <2>4. HoleAt("end", key'[to], ptr'[to], m, m, 1, x)
    BY <1>3, <2>2 DEF HoleAt
  <2>5. m = last'[to] + 1 /\ m <= m
    BY <1>3, <1>6
  <2>6. w'.pc = "end" /\ w'.page = to /\ w'.n = m /\ w'.hole = m /\ w'.word = 1 /\ w'.rec = x
    BY <1>4
  <2>7. QED
    BY ONLY <2>3, <2>4, <2>5, <2>6, HoleAfter
<1>14. QED
  BY <1>9, <1>10, <1>11, <1>12, <1>13 DEF SortedInv

(* What a split copies to the new page.                                    *)
SplitOf(x, p, c, m, s) ==
  /\ w.pc = "idle" /\ x \notin Indexed /\ p \in Linked /\ Linked \subseteq Page
  /\ Chain = Linked /\ Linked' = Linked
  /\ c = Card - 1 /\ m >= 1 /\ m <= Card - 2 /\ m \in Nat /\ c \in Nat
  /\ c - m - 1 \in 0 .. Card - 3
  /\ last[p] = c - 1 /\ Live(p) = 0 .. c - 1
  /\ s \in Page /\ s \notin Linked /\ s # p /\ s # First /\ First \in Linked
  /\ sibling[s] = Null /\ sibling[p] # s
  /\ \A q \in Page : sibling[q] \in (Linked \cup {Null}) \ {q, First}
  /\ \A q \in Page \ {s} : /\ key'[q] = key[q] /\ ptr'[q] = ptr[q]
                           /\ last'[q] = last[q] /\ sibling'[q] = sibling[q]
  /\ \A i \in 0 .. c - m - 1 : /\ i + m \in 0 .. c - 1
                               /\ key'[s][i] = key[p][i + m]
                               /\ ptr'[s][i] = ptr[p][i + m]
  /\ ptr'[s][c - m] = Null /\ last'[s] = c - m - 1 /\ sibling'[s] = sibling[p]
  /\ w'.pc = "publish" /\ w'.rec = x /\ w'.page = p /\ w'.new = s /\ w'.n = m
  /\ w'.pc \in Splitting /\ w'.pc \notin Entry /\ w'.pc # "idle"

LEMMA SplitCopies ==
  ASSUME PageInv, SortedInv, NEW x \in Rec, NEW p \in Page, StoreSplit(x, p),
         NEW c, NEW m, NEW s, c = Count(p), m = c \div 2, s = NewPage
  PROVE  SplitOf(x, p, c, m, s)
<1> USE Constants
<1>c. c = Count(p) /\ m = c \div 2 /\ s = NewPage
  OBVIOUS
<1>0. w.pc = "idle" /\ x \notin Indexed /\ p \in Linked /\ Linked \subseteq Page /\ Chain = Linked
  BY DEF StoreSplit, IsTarget, Linked, Chain
<1>1. /\ c = Card - 1 /\ m >= 1 /\ m <= Card - 2 /\ m \in Nat /\ c \in Nat
      /\ c - m - 1 \in 0 .. Card - 3
      /\ last[p] = c - 1 /\ Live(p) = 0 .. c - 1
  <2>1. c \in Slot /\ c >= Card - 1
    BY <1>c, CountInPage DEF StoreSplit
  <2>2. c = last[p] + 1 /\ Live(p) = 0 .. last[p] /\ last[p] \in -1 .. Card - 2
    BY <1>0, <1>c, IdleCount DEF PageInv, PageTypes
  <2>3. last[p] = c - 1
    BY <2>1, <2>2
  <2>4. m = c \div 2 /\ c = Card - 1 /\ c \in Nat
    BY <1>c, <2>1
  <2>5. m >= 1 /\ m <= Card - 2 /\ m \in Nat /\ c - m - 1 \in 0 .. Card - 3
    <3>1. \A v \in Nat : v >= 3 =>
            /\ v \div 2 >= 1 /\ v \div 2 <= v - 1 /\ v \div 2 \in Nat
            /\ v - v \div 2 - 1 \in 0 .. v - 2
      OBVIOUS
    <3>2. QED
      BY <2>4, <3>1
  <2>6. QED
    BY <2>2, <2>3, <2>4, <2>5
<1>2. /\ s \in Page /\ s \notin Linked /\ s # p /\ s # First /\ First \in Linked
      /\ sibling[s] = Null /\ sibling[p] # s
      /\ \A q \in Page : sibling[q] \in (Linked \cup {Null}) \ {q, First}
  <2>1. s \in Page /\ s \notin Linked
    BY <1>c, NewPageIsUnlinked DEF StoreSplit
  <2>2. \A q \in Page : sibling[q] \in (Linked \cup {Null}) \ {q, First}
    BY DEF PageInv, PageTypes, Linked, SortedInv, ChainInv
  <2>3. First \in Linked
    BY DEF Linked
  <2>4. sibling[s] = Null
    BY <1>0, <2>1 DEF SortedInv, ChainInv
  <2>5. QED
    BY <1>0, <2>1, <2>2, <2>3, <2>4
<1>3. /\ \A q \in Page \ {s} : /\ key'[q] = key[q] /\ ptr'[q] = ptr[q]
                               /\ last'[q] = last[q] /\ sibling'[q] = sibling[q]
      /\ \A i \in 0 .. c - m - 1 : /\ i + m \in 0 .. c - 1
                                   /\ key'[s][i] = key[p][i + m]
                                   /\ ptr'[s][i] = ptr[p][i + m]
      /\ ptr'[s][c - m] = Null /\ last'[s] = c - m - 1 /\ sibling'[s] = sibling[p]
  <2> DEFINE Up(f, none) == [i \in Slot |-> IF i + m < c THEN f[i + m] ELSE none]
  <2>1. /\ key' = [key EXCEPT ![s] = Up(key[p], ZeroKey)]
        /\ ptr' = [ptr EXCEPT ![s] = Up(ptr[p], Null)]
        /\ last' = [last EXCEPT ![s] = c - m - 1]
        /\ sibling' = [sibling EXCEPT ![s] = sibling[p]]
    BY <1>c DEF StoreSplit
  <2>2. key'[s] = Up(key[p], ZeroKey) /\ ptr'[s] = Up(ptr[p], Null)
    BY <1>2, <2>1 DEF PageInv, PageTypes
  <2>3. \A i \in 0 .. c - m - 1 : i \in Slot /\ i + m < c /\ i + m \in 0 .. c - 1
    BY <1>1
  <2>4. c - m \in Slot /\ ~ ((c - m) + m < c)
    BY <1>1
  <2>5. /\ \A q \in Page \ {s} : /\ key'[q] = key[q] /\ ptr'[q] = ptr[q]
                                 /\ last'[q] = last[q] /\ sibling'[q] = sibling[q]
        /\ last'[s] = c - m - 1 /\ sibling'[s] = sibling[p]
    BY <1>2, <2>1 DEF PageInv, PageTypes
  <2>6. \A i \in 0 .. c - m - 1 : key'[s][i] = key[p][i + m] /\ ptr'[s][i] = ptr[p][i + m]
    BY <2>2, <2>3
  <2>7. ptr'[s][c - m] = Null
    BY <2>2, <2>4
  <2>8. QED
    BY <2>3, <2>5, <2>6, <2>7
<1>4. /\ w'.pc = "publish" /\ w'.rec = x /\ w'.page = p /\ w'.new = s /\ w'.n = m
      /\ w'.pc \in Splitting /\ w'.pc \notin Entry /\ w'.pc # "idle"
  <2>1. w' = [pc |-> "publish", rec |-> x, page |-> p, new |-> s, n |-> m,
              hole |-> 0, word |-> 1]
    BY <1>c DEF StoreSplit, IdleWriter
  <2>2. QED
    BY <2>1 DEF Splitting, Entry
<1>5. Linked' = Linked
  <2>1. \A q \in Page : (\E h \in Page : sibling'[h] = q) <=> (\E h \in Page : sibling[h] = q)
    <3> SUFFICES ASSUME NEW q \in Page
                 PROVE  (\E h \in Page : sibling'[h] = q) <=> (\E h \in Page : sibling[h] = q)
      OBVIOUS
    <3>1. ASSUME NEW h \in Page, sibling'[h] = q PROVE \E g \in Page : sibling[g] = q
      BY <1>3, <3>1
    <3>2. ASSUME NEW h \in Page, sibling[h] = q PROVE \E g \in Page : sibling'[g] = q
      BY <1>2, <1>3, <3>2
    <3>3. QED
      BY <3>1, <3>2
  <2>2. QED
    BY <2>1 DEF Linked
<1>6. QED
  BY ONLY <1>0, <1>1, <1>2, <1>3, <1>4, <1>5 DEF SplitOf

LEMMA StoreSplitSorted ==
  ASSUME PageInv, SortedInv, NEW x \in Rec, NEW p \in Page, StoreSplit(x, p)
  PROVE  SortedInv'
<1> USE Constants
<1>c. PICK c, m, s : c = Count(p) /\ m = c \div 2 /\ s = NewPage
  OBVIOUS
<1>s. SplitOf(x, p, c, m, s)
  BY <1>c, SplitCopies
<1>0. w.pc = "idle" /\ x \notin Indexed /\ p \in Linked /\ Linked \subseteq Page /\ Chain = Linked
  BY DEF StoreSplit, IsTarget, Linked, Chain
<1>1. /\ c = Card - 1 /\ m >= 1 /\ m <= Card - 2 /\ m \in Nat /\ c \in Nat
      /\ c - m - 1 \in 0 .. Card - 3
      /\ last[p] = c - 1 /\ Live(p) = 0 .. c - 1
  BY <1>s DEF SplitOf
<1>2. /\ s \in Page /\ s \notin Linked /\ s # p /\ s # First /\ First \in Linked
      /\ sibling[s] = Null /\ sibling[p] # s
      /\ \A q \in Page : sibling[q] \in (Linked \cup {Null}) \ {q, First}
  BY <1>s DEF SplitOf
<1>3. /\ \A q \in Page \ {s} : /\ key'[q] = key[q] /\ ptr'[q] = ptr[q]
                               /\ last'[q] = last[q] /\ sibling'[q] = sibling[q]
      /\ \A i \in 0 .. c - m - 1 : /\ i + m \in 0 .. c - 1
                                   /\ key'[s][i] = key[p][i + m]
                                   /\ ptr'[s][i] = ptr[p][i + m]
      /\ ptr'[s][c - m] = Null /\ last'[s] = c - m - 1 /\ sibling'[s] = sibling[p]
  BY <1>s DEF SplitOf
<1>4. /\ w'.pc = "publish" /\ w'.rec = x /\ w'.page = p /\ w'.new = s /\ w'.n = m
      /\ w'.pc \in Splitting /\ w'.pc \notin Entry /\ w'.pc # "idle"
  BY <1>s DEF SplitOf
<1>5. Linked' = Linked
  BY <1>s DEF SplitOf
<1>6. Chain' = Linked \cup {s}
  BY <1>4, <1>5 DEF Chain
<1>7. /\ Live(p)' = 0 .. m - 1 /\ Live(s)' = 0 .. c - m - 1
      /\ \A q \in Linked \ {p} : Live(q)' = Live(q)
  <2>1. Live(p)' = 0 .. m - 1
    BY <1>4 DEF Live
  <2>2. \A q \in Page : q # p => Live(q)' = 0 .. last'[q]
    BY <1>4 DEF Live
  <2>3. \A q \in Page : Live(q) = 0 .. last[q]
    BY <1>0 DEF Live, Splitting, Entry
  <2>4. QED
    BY <1>0, <1>2, <1>3, <2>1, <2>2, <2>3
<1>8. /\ \A i \in 0 .. m - 1 : i \in Live(p) /\ i \in Nat
      /\ \A i \in 0 .. c - m - 1 : i + m \in Live(p) /\ i \in Nat
  BY <1>1, <1>3
<1>9. /\ \A q \in Linked \ {p} : Content(q)' = Content(q)
      /\ \A y \in Content(p)' : \E i \in 0 .. m - 1 : y = ptr[p][i]
      /\ \A y \in Content(s)' : \E i \in 0 .. c - m - 1 : y = ptr[p][i + m]
  <2>1. \A q \in Linked \ {p} : Content(q)' = Content(q)
    BY <1>0, <1>2, <1>3, <1>7 DEF Content
  <2>2. ptr'[p] = ptr[p]
    BY <1>2, <1>3
  <2>3. \A y \in Content(p)' : \E i \in 0 .. m - 1 : y = ptr[p][i]
    BY <1>7, <2>2 DEF Content
  <2>4. \A y \in Content(s)' : \E i \in 0 .. c - m - 1 : y = ptr'[s][i]
    BY <1>7 DEF Content
  <2>5. QED
    BY <1>3, <2>1, <2>3, <2>4
<1>10. \A y \in Content(p)' \cup Content(s)' : y \in Content(p)
  BY <1>8, <1>9 DEF Content
<1>11. \A q \in Linked : Content(q)' \subseteq Content(q)
  BY <1>9, <1>10
<1>12. /\ \A y, q : q \in Linked \cup {Null} => (NotAbove(y, q)' <=> NotAbove(y, q))
       /\ \A q \in Linked : sibling'[q] = sibling[q]
  BY <1>0, <1>2, <1>3 DEF NotAbove
<1>13. InOrder(key[p], ptr[p], Live(p)) /\ \A y \in Content(p) : NotAbove(y, sibling[p])
  BY <1>0 DEF SortedInv, LeafOrder
<1>14. LeafOrder'
  <2>1. ASSUME NEW q \in Linked
        PROVE  /\ InOrder(key'[q], ptr'[q], Live(q)')
               /\ \A y \in Content(q)' : NotAbove(y, sibling[q])'
    <3>1. InOrder(key[q], ptr[q], Live(q)) /\ \A y \in Content(q) : NotAbove(y, sibling[q])
      BY <1>0 DEF SortedInv, LeafOrder
    <3>2. key'[q] = key[q] /\ ptr'[q] = ptr[q] /\ Live(q)' \subseteq Live(q)
      <4>1. q \in Page \ {s}
        BY <1>0, <1>2
      <4>2. CASE q = p
        BY <1>3, <1>7, <1>8, <4>1, <4>2
      <4>3. CASE q # p
        BY <1>3, <1>7, <4>1, <4>3
      <4>4. QED
        BY <4>2, <4>3
    <3>3. InOrder(key'[q], ptr'[q], Live(q)')
      BY <3>1, <3>2, InOrderSubset
    <3>4. sibling[q] \in Linked \cup {Null} /\ sibling'[q] = sibling[q]
      BY <1>0, <1>2, <1>12
    <3>5. QED
      BY <1>11, <1>12, <3>1, <3>3, <3>4
  <2>2. InOrder(key'[s], ptr'[s], Live(s)')
    <3>1. ASSUME NEW i \in 0 .. c - m - 1
          PROVE  /\ ptr'[s][i] \in Rec /\ key'[s][i] = KeyOf[ptr'[s][i]]
                 /\ \A j \in 0 .. c - m - 1 : i < j =>
                      ptr'[s][i] # ptr'[s][j] /\ ~Less(key'[s][j], key'[s][i])
      <4>1. i + m \in Live(p)
        BY <1>8
      <4>2. ptr[p][i + m] \in Rec /\ key[p][i + m] = KeyOf[ptr[p][i + m]]
        BY <1>13, <4>1 DEF InOrder
      <4>3. ASSUME NEW j \in 0 .. c - m - 1, i < j
            PROVE  ptr[p][i + m] # ptr[p][j + m] /\ ~Less(key[p][j + m], key[p][i + m])
        <5>1. j + m \in Live(p) /\ i + m < j + m
          BY <1>1, <1>8, <4>3
        <5>2. QED
          BY <1>13, <4>1, <5>1 DEF InOrder
      <4>4. QED
        BY <1>3, <4>2, <4>3
    <3>2. QED
      BY <1>7, <3>1 DEF InOrder
  <2>3. \A y \in Content(s)' : NotAbove(y, sibling[s])'
    <3>1. sibling'[s] = sibling[p] /\ sibling[p] \in Linked \cup {Null}
      BY <1>2, <1>3
    <3>2. QED
      BY <1>10, <1>12, <1>13, <3>1
  <2>4. QED
    BY <1>6, <2>1, <2>2, <2>3 DEF LeafOrder
<1>15. Apart'
  <2>1. \A q, h \in Linked : q # h => Content(q)' \cap Content(h)' = {}
    BY <1>0, <1>11 DEF SortedInv, Apart
  <2>2. \A q \in Linked : q # s => Content(q)' \cap Content(s)' = {}
    <3>1. ASSUME NEW q \in Linked, q # p PROVE Content(q)' \cap Content(s)' = {}
      <4>1. Content(q) \cap Content(p) = {}
        BY <1>0, <3>1 DEF SortedInv, Apart
      <4>2. QED
        BY <1>10, <1>11, <4>1
    <3>2. Content(p)' \cap Content(s)' = {}
      <4> SUFFICES ASSUME NEW y \in Content(p)', y \in Content(s)' PROVE FALSE
        OBVIOUS
      <4>1. PICK i \in 0 .. m - 1 : y = ptr[p][i]
        BY <1>9
      <4>2. PICK j \in 0 .. c - m - 1 : y = ptr[p][j + m]
        BY <1>9
      <4>3. i \in Live(p) /\ j + m \in Live(p) /\ i < j + m
        BY <1>1, <1>8
      <4>4. QED
        BY <1>13, <4>1, <4>2, <4>3 DEF InOrder
    <3>3. QED
      BY <3>1, <3>2
  <2>3. \A q \in Linked \cup {s} : x \notin Content(q)'
    <3>1. \A q \in Linked : x \notin Content(q)
      BY <1>0, IdleIndexed
    <3>2. QED
      BY <1>0, <1>10, <1>11, <3>1
  <2>4. QED
    BY <1>2, <1>4, <1>6, <2>1, <2>2, <2>3 DEF Apart
<1>16. ChainInv'
  <2>1. \A q \in Page : sibling'[q] # q /\ sibling'[q] # First
    BY <1>0, <1>2, <1>3
  <2>2. \A q \in Page \ (Linked \cup {s}) : sibling'[q] = Null
    BY <1>0, <1>3 DEF SortedInv, ChainInv
  <2>3. QED
    BY <1>0, <1>4, <1>5, <1>6, <2>1, <2>2 DEF ChainInv
<1>17. EndInv'
  <2>1. \A q \in Linked : ptr[q][last[q] + 1] = Null
    BY <1>0 DEF SortedInv, EndInv
  <2>2. \A q \in Linked : ptr'[q][last'[q] + 1] = Null
    BY <1>0, <1>2, <1>3, <2>1
  <2>3. ptr'[s][last'[s] + 1] = Null
    <3>1. last'[s] + 1 = c - m
      BY <1>1, <1>3
    <3>2. QED
      BY <1>3, <3>1
  <2>4. last'[First] = -1 => ptr'[First][1] = Null
    BY <1>2, <1>3 DEF SortedInv, EndInv
  <2>5. QED
    BY <1>6, <2>2, <2>3, <2>4 DEF EndInv
<1>18. SplitInv'
  <2>1. s \notin Linked' /\ sibling'[s] = sibling'[p]
    BY <1>2, <1>3, <1>5
  <2>2. \A y \in Content(p)' : NotAbove(y, s)'
    <3> SUFFICES ASSUME NEW y \in Content(p)' PROVE ~Less(key'[s][0], KeyOf[y])
      BY DEF NotAbove
    <3>1. PICK i \in 0 .. m - 1 : y = ptr[p][i]
      BY <1>9
    <3>2. 0 \in 0 .. c - m - 1 /\ 0 + m = m
      BY <1>1
    <3>3. key'[s][0] = key[p][m] /\ m \in Live(p)
      BY <1>3, <1>8, <3>2
    <3>4. i \in Live(p) /\ i < m
      BY <1>1, <1>8
    <3>5. QED
      BY <1>13, <3>1, <3>3, <3>4 DEF InOrder
  <2>3. NotAbove(x, sibling[s])'
    <3>1. NotAbove(x, sibling[p])
      BY DEF StoreSplit, IsTarget, NotAbove
    <3>2. sibling'[s] = sibling[p] /\ sibling[p] \in Linked \cup {Null}
      BY <1>2, <1>3
    <3>3. QED
      BY <1>12, <3>1, <3>2
  <2>4. QED
    BY <1>4, <2>1, <2>2, <2>3 DEF SplitInv, Content, NotAbove
<1>19. HoleInv'
  BY <1>4 DEF HoleInv
<1>20. QED
  BY <1>14, <1>15, <1>16, <1>17, <1>18, <1>19 DEF SortedInv

-----------------------------------------------------------------------------
LEMMA SortedInit == Init => SortedInv
<1> SUFFICES ASSUME Init PROVE SortedInv
  OBVIOUS
<1> USE Constants
<1>f. PICK f \in Arrangements :
        /\ key = [p \in Page |-> [i \in Slot |->
                   IF p = First /\ i \in DOMAIN f THEN KeyOf[f[i]] ELSE ZeroKey]]
        /\ ptr = [p \in Page |-> [i \in Slot |->
                   IF p = First /\ i \in DOMAIN f THEN f[i] ELSE Null]]
  BY DEF Init
<1>k. PICK k : k = Cardinality(Preload)
  OBVIOUS
<1>c. k \in 0 .. Card - 1 /\ 0 .. k - 1 \subseteq Slot
  <2>1. k \in Nat /\ k < Card
    BY <1>k, FS_CardinalityType, FastFairAssumption
  <2>2. QED
    BY <2>1
<1>d. /\ DOMAIN f = 0 .. k - 1 /\ \A i \in 0 .. k - 1 : f[i] \in Rec
      /\ \A i, j \in 0 .. k - 1 : i < j => f[i] # f[j] /\ ~Less(KeyOf[f[j]], KeyOf[f[i]])
  BY <1>k, FastFairAssumption DEF Arrangements
<1>1. /\ sibling = [p \in Page |-> Null] /\ w = IdleWriter
      /\ last = [p \in Page |-> IF p = First THEN k - 1 ELSE -1]
  BY <1>k DEF Init
<1>2. w.pc = "idle" /\ Linked = {First} /\ Chain = {First} /\ last[First] = k - 1
  BY <1>1 DEF IdleWriter, Linked, Chain
<1>3. Live(First) = 0 .. k - 1
  BY <1>2 DEF Live, Splitting, Entry
<1>4. \A i \in 0 .. k - 1 : key[First][i] = KeyOf[f[i]] /\ ptr[First][i] = f[i]
  BY <1>c, <1>d, <1>f
<1>5. \A i \in Slot : i \notin 0 .. k - 1 => ptr[First][i] = Null
  BY <1>d, <1>f
<1>6. LeafOrder
  <2>1. InOrder(key[First], ptr[First], Live(First))
    BY <1>3, <1>4, <1>d DEF InOrder
  <2>2. sibling[First] = Null
    BY <1>1
  <2>3. QED
    BY <1>2, <2>1, <2>2 DEF LeafOrder, NotAbove
<1>7. Apart /\ ChainInv
  BY <1>1, <1>2 DEF Apart, ChainInv, First, Null
<1>8. EndInv
  <2>1. ptr[First][k] = Null
    BY <1>5, <1>c
  <2>2. k = 0 => ptr[First][1] = Null
    BY <1>5, <1>c
  <2>3. last[First] + 1 = k /\ (last[First] = -1 => k = 0)
    BY <1>2, <1>c
  <2>4. QED
    BY <1>2, <2>1, <2>2, <2>3 DEF EndInv
<1>9. SplitInv /\ HoleInv
  BY <1>2 DEF SplitInv, HoleInv, Splitting, Entry
<1>10. QED
  BY <1>6, <1>7, <1>8, <1>9 DEF SortedInv

LEMMA SortedFrame == SortedInv /\ UNCHANGED <<pageVars, w>> => SortedInv'
<1> SUFFICES ASSUME SortedInv, UNCHANGED <<pageVars, w>> PROVE SortedInv'
  OBVIOUS
<1>1. UNCHANGED <<key, ptr, sibling, last, w>>
  BY DEF pageVars
<1>2. Linked' = Linked /\ Chain' = Chain
  BY <1>1, LinkSame DEF Chain
<1>3. \A p : Live(p)' = Live(p)
  BY <1>1 DEF Live
<1>4. \A p : Content(p)' = Content(p)
  BY <1>1, <1>3 DEF Content
<1>5. \A x, q : NotAbove(x, q)' <=> NotAbove(x, q)
  BY <1>1 DEF NotAbove
<1>6. LeafOrder'
  BY <1>1, <1>2, <1>3, <1>4, <1>5 DEF SortedInv, LeafOrder
<1>7. Apart' /\ ChainInv' /\ EndInv'
  BY <1>1, <1>2, <1>4 DEF SortedInv, Apart, ChainInv, EndInv
<1>8. SplitInv'
  BY <1>1, <1>2, <1>4, <1>5 DEF SortedInv, SplitInv
<1>9. HoleInv'
  BY <1>1, <1>5 DEF SortedInv, HoleInv
<1>10. QED
  BY <1>6, <1>7, <1>8, <1>9 DEF SortedInv

(* The leftmost page is the last one, and not being split, while it is     *)
(* empty.                                                                  *)
FirstInv ==
  last[First] = -1 =>
    sibling[First] = Null /\ ~(w.pc \in Splitting /\ w.page = First)

LEMMA FirstStep ==
  ASSUME PageInv, SortedInv, FirstInv, Write
  PROVE  FirstInv'
<1> USE Constants
<1>1. ASSUME NEW x \in Rec, NEW p \in Page, StoreFast(x, p) PROVE FirstInv'
  <2>1. w'.pc \in {"key", "end"} /\ last' = last /\ sibling' = sibling
    BY <1>1 DEF StoreFast, Entering, IdleWriter, pageVars
  <2>2. QED
    BY <2>1 DEF FirstInv, Splitting
<1>2. ASSUME NEW x \in Rec, NEW p \in Page, StoreSplit(x, p) PROVE FirstInv'
  <2>1. NewPage \in Page /\ NewPage \notin Linked /\ NewPage # First /\ p \in Linked
    BY <1>2, NewPageIsUnlinked DEF StoreSplit, IsTarget, Linked
  <2>2. last'[First] = last[First] /\ sibling'[First] = sibling[First]
    BY <1>2, <2>1 DEF StoreSplit, PageInv, PageTypes
  <2>3. w'.page = p
    BY <1>2 DEF StoreSplit, IdleWriter
  <2>4. last[p] # -1
    <3>1. Count(p) \in Slot /\ Count(p) >= Card - 1
      BY <1>2, CountInPage DEF StoreSplit
    <3>2. Count(p) = last[p] + 1 /\ last[p] \in -1 .. Card - 2
      BY <1>2, <2>1, IdleCount DEF StoreSplit, PageInv, PageTypes
    <3>3. QED
      BY <3>1, <3>2
  <2>5. QED
    BY <2>2, <2>3, <2>4 DEF FirstInv
<1>3. CASE Publish
  <2>1. /\ w.pc \in Splitting /\ sibling' = [sibling EXCEPT ![w.page] = w.new]
        /\ last' = last
    BY <1>3 DEF Publish, Splitting
  <2>2. w'.page = w.page
    BY <1>3 DEF Publish, PageInv, WriterTypes
  <2>3. QED
    BY <2>1, <2>2 DEF FirstInv, PageInv, PageTypes
<1>4. CASE Bump
  <2>1. w.pc \in Splitting /\ sibling' = sibling /\ last' = last
    BY <1>4 DEF Bump, Splitting
  <2>2. w'.page = w.page
    BY <1>4 DEF Bump, PageInv, WriterTypes
  <2>3. QED
    BY <2>1, <2>2 DEF FirstInv
<1>5. CASE Cut
  <2>1. w.pc \in Splitting
    BY <1>5 DEF Cut, Splitting
  <2>2. /\ last' = [last EXCEPT ![w.page] = w.n - 1] /\ sibling' = sibling
        /\ w'.pc \in {"key", "end"}
    BY <1>5 DEF Cut, Entering, IdleWriter
  <2>3. w.n \in 1 .. Card - 2 /\ w.page \in Page
    BY <2>1, SplitIs
  <2>4. w'.pc \notin Splitting /\ w.n - 1 # -1
    BY <2>2, <2>3 DEF Splitting
  <2>5. last'[First] = IF w.page = First THEN w.n - 1 ELSE last[First]
    BY <2>2, <2>3 DEF PageInv, PageTypes
  <2>6. QED
    BY <2>2, <2>4, <2>5 DEF FirstInv
<1>6. CASE MoveEnd \/ Shift \/ MoveKey \/ SetKey
  <2>1. last' = last /\ sibling' = sibling
    BY <1>6 DEF MoveEnd, Shift, MoveKey, SetKey
  <2>2. w'.pc \in {"shift", "move", "key", "ptr"}
    BY <1>6 DEF MoveEnd, Shift, MoveKey, SetKey, PageInv, WriterTypes
  <2>3. QED
    BY <2>1, <2>2 DEF FirstInv, Splitting
<1>7. CASE SetPtr
  <2>1. /\ last' = [last EXCEPT ![w.page] = w.n] /\ sibling' = sibling
        /\ w'.pc = "idle" /\ w.n \in 0 .. Card - 2 /\ w.page \in Page
    BY <1>7 DEF SetPtr, IdleWriter, PageInv, WriterTypes
  <2>2. last'[First] = IF w.page = First THEN w.n ELSE last[First]
    BY <2>1 DEF PageInv, PageTypes
  <2>3. w.n # -1 /\ w'.pc \notin Splitting
    BY <2>1 DEF Splitting
  <2>4. QED
    BY <2>1, <2>2, <2>3 DEF FirstInv
<1>8. QED
  BY <1>1, <1>2, <1>3, <1>4, <1>5, <1>6, <1>7 DEF Write

LEMMA SortedWrite ==
  ASSUME PageInv, SortedInv, Write
  PROVE  SortedInv'
<1>1. ASSUME NEW x \in Rec, NEW p \in Page, StoreFast(x, p) PROVE SortedInv'
  BY <1>1, StoreFastSorted
<1>2. ASSUME NEW x \in Rec, NEW p \in Page, StoreSplit(x, p) PROVE SortedInv'
  BY <1>2, StoreSplitSorted
<1>3. CASE Publish
  BY <1>3, PublishSorted
<1>4. CASE Bump \/ Cut
  BY <1>4, BumpSorted, CutSorted
<1>5. CASE MoveEnd
  BY <1>5, MoveEndSorted
<1>6. CASE Shift
  BY <1>6, ShiftSorted
<1>7. CASE MoveKey
  BY <1>7, EntryKeeps, MoveKeySorted
<1>8. CASE SetKey
  BY <1>8, EntryKeeps, SetKeySorted
<1>9. CASE SetPtr
  BY <1>9, SetPtrSorted
<1>10. QED
  BY <1>1, <1>2, <1>3, <1>4, <1>5, <1>6, <1>7, <1>8, <1>9 DEF Write

LEMMA SortedStep ==
  FastFairInv /\ SortedInv /\ FirstInv /\ [Next]_vars => SortedInv' /\ FirstInv'
<1> SUFFICES ASSUME FastFairInv, SortedInv, FirstInv, [Next]_vars
             PROVE  SortedInv' /\ FirstInv'
  OBVIOUS
<1>0. PageInv
  BY DEF FastFairInv
<1>1. CASE Write
  BY <1>0, <1>1, SortedWrite, FirstStep
<1>2. CASE UNCHANGED <<pageVars, w>>
  BY <1>2, SortedFrame DEF FirstInv, pageVars
<1>3. Scan => UNCHANGED <<pageVars, w>>
  BY DEF Scan, Scans, ScanStart, EnterPage, ReadKey, ReadPtr, ReadLeft,
         ReReadKey, TestEntry, CheckCounter, HopSibling
<1>4. QED
  BY <1>1, <1>2, <1>3 DEF Next, vars

LEMMA SortedIsSorted ==
  ASSUME PageInv, SortedInv, FirstInv
  PROVE  LeavesSorted
<1> SUFFICES ASSUME w.pc = "idle"
    PROVE /\ \A p, q \in Linked : p # q => Held(p) \cap Held(q) = {}
          /\ \A p \in Linked :
               /\ Count(p) = last[p] + 1
               /\ Cardinality(Held(p)) = Count(p)
               /\ \A i \in 0 .. last[p] : key[p][i] = KeyOf[ptr[p][i]]
               /\ \A i \in 1 .. last[p] : ~Less(key[p][i], key[p][i - 1])
               /\ sibling[p] # Null => ~Less(key[sibling[p]][0], key[p][last[p]])
  BY DEF LeavesSorted
<1> USE Constants
<1>1. \A p, q \in Linked : p # q => Held(p) \cap Held(q) = {}
  BY IdleCount DEF SortedInv, Apart
<1>2. ASSUME NEW p \in Linked
      PROVE /\ Count(p) = last[p] + 1
            /\ Cardinality(Held(p)) = Count(p)
            /\ \A i \in 0 .. last[p] : key[p][i] = KeyOf[ptr[p][i]]
            /\ \A i \in 1 .. last[p] : ~Less(key[p][i], key[p][i - 1])
            /\ sibling[p] # Null => ~Less(key[sibling[p]][0], key[p][last[p]])
  <2>0. PICK n : n = last[p]
    OBVIOUS
  <2>1. /\ p \in Page /\ Count(p) = n + 1 /\ Live(p) = 0 .. n
        /\ Held(p) = Content(p) /\ Chain = Linked
    BY <2>0, IdleCount
  <2>2. n \in -1 .. Card - 2
    BY <2>0, <2>1 DEF PageInv, PageTypes
  <2>3. /\ InOrder(key[p], ptr[p], 0 .. n)
        /\ \A x \in Content(p) : NotAbove(x, sibling[p])
    BY <2>1 DEF SortedInv, LeafOrder
  <2>4. Cardinality(Content(p)) = n + 1
    <3> DEFINE f == [i \in 0 .. n |-> ptr[p][i]]
    <3>1. Content(p) = {ptr[p][i] : i \in 0 .. n}
      BY <2>1 DEF Content
    <3>2. f \in Surjection(0 .. n, Content(p))
      BY <3>1 DEF Surjection
    <3>3. ASSUME NEW i \in 0 .. n, NEW j \in 0 .. n, f[i] = f[j]
          PROVE  i = j
      <4>1. ~(i < j) /\ ~(j < i)
        BY <2>3, <3>3 DEF InOrder
      <4>2. QED
        BY <4>1
    <3>4. f \in Injection(0 .. n, Content(p))
      BY <3>2, <3>3 DEF Injection, Surjection, IsInjective
    <3>5. IsFiniteSet(0 .. n) /\ Cardinality(0 .. n) = n + 1
      <4>1. n \in Int /\ 0 \in Int /\ (0 > n => n = -1)
        BY <2>2
      <4>2. /\ IsFiniteSet(0 .. n)
            /\ Cardinality(0 .. n) = IF 0 > n THEN 0 ELSE n - 0 + 1
        BY <4>1, FS_Interval
      <4>3. (IF 0 > n THEN 0 ELSE n - 0 + 1) = n + 1
        BY <4>1
      <4>4. QED
        BY <4>2, <4>3
    <3> HIDE DEF f
    <3>6. QED
      BY <3>2, <3>4, <3>5, FS_Surjection
  <2>5. \A i \in 0 .. n : key[p][i] = KeyOf[ptr[p][i]]
    BY <2>3 DEF InOrder
  <2>6. ASSUME NEW i \in 1 .. n PROVE ~Less(key[p][i], key[p][i - 1])
    <3>1. i \in 0 .. n /\ i - 1 \in 0 .. n /\ i - 1 < i
      BY <2>2
    <3>2. QED
      BY <2>3, <3>1 DEF InOrder
  <2>7. ASSUME sibling[p] # Null PROVE ~Less(key[sibling[p]][0], key[p][n])
    <3>1. n # -1
      BY <2>0, <2>7 DEF FirstInv, PageInv, NotEmpty
    <3>2. n \in 0 .. n
      BY <2>2, <3>1
    <3>3. ptr[p][n] \in Content(p)
      BY <2>1, <3>2 DEF Content
    <3>4. QED
      BY <2>3, <2>5, <2>7, <3>2, <3>3 DEF NotAbove
  <2>8. QED
    BY <2>0, <2>1, <2>4, <2>5, <2>6, <2>7
<1>3. QED
  BY <1>1, <1>2

(* Between two inserts the leaf chain is a sorted list of the records,     *)
(* each of them in it once, and last_index agrees with the terminator:     *)
(* neither a shift nor a split loses, repeats or misplaces a record, for   *)
(* every page size, key length and order of inserts (store, insert_key).   *)
THEOREM LeavesAreSorted == Spec => []LeavesSorted
<1>1. Init => FirstInv
  BY Constants DEF Init, FirstInv, IdleWriter, Splitting
<1>2. Spec => [](SortedInv /\ FirstInv)
  <2>1. SortedInv /\ FirstInv /\ FastFairInv /\ [Next]_vars => (SortedInv /\ FirstInv)'
    BY SortedStep
  <2>2. QED
    BY <1>1, <2>1, SortedInit, Invariant, PTL DEF Spec
<1>3. FastFairInv /\ SortedInv /\ FirstInv => LeavesSorted
  BY SortedIsSorted DEF FastFairInv
<1>4. QED
  BY <1>2, <1>3, Invariant, PTL

-----------------------------------------------------------------------------
(* What a scan finds in a page: until a new page is linked, the half that  *)
(* was copied to it is found in the old one.                               *)
Alive(p) == IF w.pc = "publish" /\ p = w.page THEN 0 .. last[p] ELSE Live(p)

Holds(p) == {ptr[p][i] : i \in Alive(p)}

(* The new page is a copy of the upper half of the old one.                *)
HalfInv ==
  w.pc \in Splitting =>
    /\ last[w.page] = w.n + last[w.new]
    /\ ptr[w.page][last[w.page] + 1] = Null
    /\ InOrder(key[w.page], ptr[w.page], 0 .. last[w.page])
    /\ \A i \in 0 .. last[w.new] : ptr[w.new][i] = ptr[w.page][w.n + i]

(* The entry in the hole is that of its right neighbour until the pointer  *)
(* of the left one is put there.                                           *)
TwinAt(pc, k, f, n, h) ==
  /\ pc = "shift" => IF h = n THEN f[h] = Null
                     ELSE f[h] = f[h + 1] /\ k[h] = k[h + 1]
  /\ pc \in {"move", "key", "ptr"} => f[h] = IF h = 0 THEN Null ELSE f[h - 1]

TwinInv == w.pc \in Entry => TwinAt(w.pc, key[w.page], ptr[w.page], w.n, w.hole)

(* The pages that are reached from p along siblings.                       *)
Closed(S) == \A h \in S : sibling[h] # Null => sibling[h] \in S
Right(p) == {q \in Page : \A S \in SUBSET Page : p \in S /\ Closed(S) => q \in S}

RightInv == \A q \in Linked : q \in Right(First)

LeafInv == PageInv /\ SortedInv /\ HalfInv /\ TwinInv /\ RightInv

-----------------------------------------------------------------------------
LEMMA AliveIs ==
  ASSUME PageInv, SortedInv, HalfInv, NEW p \in Linked
  PROVE  /\ p \in Page /\ Alive(p) \subseteq Slot
         /\ InOrder(key[p], ptr[p], Alive(p))
         /\ key[p] \in [Slot -> Keys] /\ ptr[p] \in [Slot -> Rec \cup {Null}]
         /\ last[p] \in -1 .. Card - 2
         /\ \A k \in Alive(p) : \A i \in 0 .. k :
              i \in Alive(p) \/ (w.pc \in Entry /\ p = w.page /\ i = w.hole /\ k <= w.n)
<1> USE Constants
<1>1. p \in Page /\ p \in Chain
  BY DEF Linked, Chain
<1>2. /\ key[p] \in [Slot -> Keys] /\ ptr[p] \in [Slot -> Rec \cup {Null}]
      /\ last[p] \in -1 .. Card - 2
  BY <1>1 DEF PageInv, PageTypes
<1>3. CASE w.pc = "publish" /\ p = w.page
  <2>1. Alive(p) = 0 .. last[p] /\ w.pc \in Splitting
    BY <1>3 DEF Alive, Splitting
  <2>2. InOrder(key[p], ptr[p], Alive(p))
    BY <1>3, <2>1 DEF HalfInv
  <2>3. QED
    BY <1>1, <1>2, <2>1, <2>2
<1>4. CASE ~(w.pc = "publish" /\ p = w.page)
  <2>1. Alive(p) = Live(p) /\ InOrder(key[p], ptr[p], Alive(p))
    BY <1>1, <1>4 DEF Alive, SortedInv, LeafOrder
  <2>2. CASE w.pc \in Splitting /\ p = w.page
    <3>1. Live(p) = 0 .. w.n - 1 /\ w.n \in 1 .. Card - 2
      BY <2>2, SplitIs
    <3>2. QED
      BY <1>1, <1>2, <2>1, <3>1
  <2>3. CASE w.pc \in Entry /\ p = w.page
    <3>1. /\ Live(p) = (0 .. w.n) \ {w.hole} /\ w.n \in 0 .. Card - 2
          /\ w.hole \in 0 .. Card - 2
      BY <2>3, EntryIs
    <3>2. QED
      BY <1>1, <1>2, <2>1, <2>3, <3>1
  <2>4. CASE ~(w.pc \in Splitting /\ p = w.page) /\ ~(w.pc \in Entry /\ p = w.page)
    <3>1. Live(p) = 0 .. last[p]
      BY <2>4 DEF Live
    <3>2. QED
      BY <1>1, <1>2, <2>1, <3>1
  <2>5. QED
    BY <2>2, <2>3, <2>4
<1>5. QED
  BY <1>3, <1>4

(* x is in page p, and in no slot before i.                                *)
Lead(x, p, i) == x \in Holds(p) /\ \A j \in 0 .. i - 1 : ptr[p][j] # x

(* The leftmost pointer to a record has its key next to it.                *)
LEMMA LeadKey ==
  ASSUME LeafInv, NEW p \in Linked, NEW x \in Rec, NEW i \in Slot,
         Lead(x, p, i), ptr[p][i] = x
  PROVE  key[p][i] = KeyOf[x]
<1> USE Constants
<1>0. PageInv /\ SortedInv /\ HalfInv /\ TwinInv
  BY DEF LeafInv
<1>1. PICK k \in Alive(p) : x = ptr[p][k]
  BY DEF Lead, Holds
<1>2. /\ k \in Slot /\ InOrder(key[p], ptr[p], Alive(p))
      /\ \A j \in 0 .. k :
           j \in Alive(p) \/ (w.pc \in Entry /\ p = w.page /\ j = w.hole /\ k <= w.n)
  BY <1>0, AliveIs
<1>3. key[p][k] = KeyOf[x]
  BY <1>1, <1>2 DEF InOrder
<1>4. i <= k
  BY <1>1, <1>2 DEF Lead
<1>5. CASE i = k
  BY <1>3, <1>5
<1>6. CASE i # k
  <2>1. i < k /\ i \in 0 .. k
    BY <1>2, <1>4, <1>6
  <2>2. i \notin Alive(p)
    BY <1>1, <1>2, <2>1 DEF InOrder
  <2>3. w.pc \in Entry /\ p = w.page /\ i = w.hole /\ k <= w.n
    BY <1>2, <2>1, <2>2
  <2>4. Alive(p) = (0 .. w.n) \ {i} /\ w.n \in 0 .. Card - 2 /\ w.hole \in Nat
    BY <1>0, <2>3, EntryIs DEF Alive, Entry
  <2>5. TwinAt(w.pc, key[p], ptr[p], w.n, i)
    BY <1>0, <2>3 DEF TwinInv
  <2>6. w.pc # "end"
    <3>1. w.pc = "end" => w.hole = w.n
      BY <1>0, <2>3 DEF SortedInv, HoleInv, HoleAt
    <3>2. QED
      BY <2>1, <2>3, <2>4, <3>1, <1>2
  <2>7. w.pc \notin {"move", "key", "ptr"}
    <3> SUFFICES ASSUME w.pc \in {"move", "key", "ptr"} PROVE FALSE
      OBVIOUS
    <3>1. ptr[p][i] = IF i = 0 THEN Null ELSE ptr[p][i - 1]
      BY <2>5 DEF TwinAt
    <3>2. i # 0 /\ ptr[p][i - 1] = x
      BY <3>1
    <3>3. i - 1 \in 0 .. i - 1
      BY <3>2
    <3>4. QED
      BY <3>2, <3>3 DEF Lead
  <2>8. w.pc = "shift"
    BY <2>3, <2>6, <2>7 DEF Entry
  <2>9. ptr[p][i + 1] = x /\ key[p][i] = key[p][i + 1]
    <3>1. i # w.n
      BY <1>2, <2>1, <2>3, <2>4
    <3>2. QED
      BY <2>5, <2>8, <3>1 DEF TwinAt
  <2>10. i + 1 \in Alive(p)
    BY <1>2, <2>1, <2>3, <2>4
  <2>11. key[p][i + 1] = KeyOf[x]
    BY <1>2, <2>9, <2>10 DEF InOrder
  <2>12. QED
    BY <2>9, <2>11
<1>7. QED
  BY <1>5, <1>6

(* A null pointer behind slot 0 is behind all records of the page.         *)
LEMMA NullEnds ==
  ASSUME LeafInv, NEW p \in Linked, NEW x \in Rec, NEW i \in Slot, i >= 1,
         Lead(x, p, i)
  PROVE  ptr[p][i] # Null
<1> USE Constants
<1> SUFFICES ASSUME ptr[p][i] = Null PROVE FALSE
  OBVIOUS
<1>0. PageInv /\ SortedInv /\ HalfInv /\ TwinInv
  BY DEF LeafInv
<1>1. PICK k \in Alive(p) : x = ptr[p][k]
  BY DEF Lead, Holds
<1>2. /\ k \in Slot /\ InOrder(key[p], ptr[p], Alive(p))
      /\ \A j \in 0 .. k :
           j \in Alive(p) \/ (w.pc \in Entry /\ p = w.page /\ j = w.hole /\ k <= w.n)
  BY <1>0, AliveIs
<1>3. i < k /\ i \in 0 .. k
  <2>1. i <= k
    BY <1>1, <1>2 DEF Lead
  <2>2. i # k
    BY <1>1
  <2>3. QED
    BY <1>2, <2>1, <2>2
<1>4. i \notin Alive(p)
  BY <1>2 DEF InOrder
<1>5. w.pc \in Entry /\ p = w.page /\ i = w.hole /\ k <= w.n
  BY <1>2, <1>3, <1>4
<1>6. Alive(p) = (0 .. w.n) \ {i} /\ w.n \in 0 .. Card - 2 /\ w.hole \in Nat
  BY <1>0, <1>5, EntryIs DEF Alive, Entry
<1>7. TwinAt(w.pc, key[p], ptr[p], w.n, i)
  BY <1>0, <1>5 DEF TwinInv
<1>8. i # w.n /\ i + 1 \in Alive(p) /\ i - 1 \in Alive(p)
  BY <1>2, <1>3, <1>5, <1>6
<1>9. ptr[p][i + 1] # Null /\ ptr[p][i - 1] # Null
  BY <1>2, <1>8 DEF InOrder
<1>10. w.pc \in {"shift", "move", "key", "ptr"}
  <2>1. w.pc = "end" => w.hole = w.n
    BY <1>0, <1>5 DEF SortedInv, HoleInv, HoleAt
  <2>2. QED
    BY <1>5, <1>8, <2>1 DEF Entry
<1>11. CASE w.pc = "shift"
  BY <1>7, <1>8, <1>9, <1>11 DEF TwinAt
<1>12. CASE w.pc \in {"move", "key", "ptr"}
  BY <1>7, <1>9, <1>12 DEF TwinAt
<1>13. QED
  BY <1>10, <1>11, <1>12

-----------------------------------------------------------------------------
(* The chain.                                                              *)
LEMMA RightSelf == \A p \in Page : p \in Right(p)
  BY DEF Right

LEMMA RightTrans ==
  ASSUME NEW p, NEW q \in Right(p), NEW h \in Right(q)
  PROVE  h \in Right(p)
  BY DEF Right

LEMMA RightNext ==
  ASSUME PageInv, NEW p \in Page, sibling[p] # Null
  PROVE  sibling[p] \in Page /\ sibling[p] \in Right(p)
<1>1. sibling[p] \in Page
  BY DEF PageInv, PageTypes
<1>2. QED
  BY <1>1 DEF Right, Closed

LEMMA RightStep ==
  ASSUME PageInv, NEW p \in Page, NEW q \in Right(p), q # p
  PROVE  sibling[p] # Null /\ q \in Right(sibling[p])
<1>1. sibling[p] # Null
  <2> SUFFICES ASSUME sibling[p] = Null PROVE FALSE
    OBVIOUS
  <2>1. {p} \in SUBSET Page /\ Closed({p})
    BY DEF Closed
  <2>2. q \in {p}
    BY <2>1 DEF Right
  <2>3. QED
    BY <2>2
<1>2. ASSUME NEW S \in SUBSET Page, sibling[p] \in S, Closed(S)
      PROVE  q \in S
  <2>1. S \cup {p} \in SUBSET Page /\ Closed(S \cup {p})
    BY <1>2 DEF Closed
  <2>2. q \in S \cup {p}
    BY <2>1 DEF Right
  <2>3. QED
    BY <2>2
<1>3. QED
  BY <1>1, <1>2 DEF Right

(* The records of a page are not above its sibling's first key, the half   *)
(* that is being split off included.                                       *)
LEMMA HoldsBelow ==
  ASSUME LeafInv, NEW p \in Linked, NEW x \in Holds(p)
  PROVE  x \in Rec /\ NotAbove(x, sibling[p])
<1> USE Constants
<1>0. PageInv /\ SortedInv /\ HalfInv
  BY DEF LeafInv
<1>1. PICK k \in Alive(p) : x = ptr[p][k]
  BY DEF Holds
<1>2. x \in Rec
  BY <1>0, <1>1, AliveIs DEF InOrder
<1>3. CASE ~(w.pc = "publish" /\ p = w.page)
  <2>1. x \in Content(p) /\ p \in Chain
    BY <1>1, <1>3 DEF Alive, Content, Chain
  <2>2. QED
    BY <1>0, <1>2, <2>1 DEF SortedInv, LeafOrder
<1>4. CASE w.pc = "publish" /\ p = w.page
  <2>p. PICK s, n : s = w.new /\ n = w.n
    OBVIOUS
  <2>1. w.pc \in Splitting
    BY <1>4 DEF Splitting
  <2>2. /\ n \in 1 .. Card - 2 /\ last[s] \in 0 .. Card - 3
        /\ Live(p) = 0 .. n - 1 /\ Live(s) = 0 .. last[s]
    BY <1>0, <1>4, <2>1, <2>p, SplitIs
  <2>3. /\ last[p] = n + last[s] /\ sibling[s] = sibling[p] /\ s \in Chain
        /\ \A i \in 0 .. last[s] : ptr[s][i] = ptr[p][n + i]
    BY <1>0, <1>4, <2>1, <2>p DEF HalfInv, SortedInv, SplitInv, Chain
  <2>4. k \in 0 .. n + last[s]
    BY <1>1, <1>4, <2>3 DEF Alive
  <2>5. CASE k < n
    <3>1. k \in Live(p)
      BY <2>2, <2>4, <2>5
    <3>2. x \in Content(p) /\ p \in Chain
      BY <1>1, <3>1 DEF Content, Chain
    <3>3. QED
      BY <1>0, <1>2, <3>2 DEF SortedInv, LeafOrder
  <2>6. CASE ~(k < n)
    <3>1. k - n \in 0 .. last[s] /\ n + (k - n) = k
      BY <2>2, <2>4, <2>6
    <3>2. ptr[s][k - n] = x
      BY <1>1, <2>3, <3>1
    <3>3. x \in Content(s)
      BY <2>2, <3>1, <3>2 DEF Content
    <3>4. NotAbove(x, sibling[s])
      BY <1>0, <2>3, <3>3 DEF SortedInv, LeafOrder
    <3>5. QED
      BY <1>2, <2>3, <3>4
  <2>7. QED
    BY <2>5, <2>6
<1>5. QED
  BY <1>3, <1>4

LEMMA FirstSlot ==
  ASSUME LeafInv, NEW p \in Linked, p # First
  PROVE  0 \in Alive(p)
<1> USE Constants
<1>0. PageInv /\ SortedInv /\ HalfInv
  BY DEF LeafInv
<1>1. last[p] >= 0 /\ last[p] \in Int
  BY <1>0, AliveIs DEF PageInv, NotEmpty
<1>2. CASE w.pc \in Splitting /\ p = w.page
  <2>1. Live(p) = 0 .. w.n - 1 /\ w.n \in 1 .. Card - 2
    BY <1>0, <1>2, SplitIs
  <2>2. QED
    BY <1>1, <2>1 DEF Alive
<1>3. CASE w.pc \in Entry /\ p = w.page
  <2>1. Live(p) = (0 .. w.n) \ {w.hole} /\ w.n \in 0 .. Card - 2
    BY <1>0, <1>3, EntryIs
  <2>2. w.hole >= 1
    BY <1>0, <1>3 DEF PageInv, HoleInPage
  <2>3. 0 \in Live(p)
    BY <1>0, <1>3, <2>1, <2>2, EntryIs
  <2>4. QED
    BY <1>1, <2>3 DEF Alive
<1>4. CASE ~(w.pc \in Splitting /\ p = w.page) /\ ~(w.pc \in Entry /\ p = w.page)
  BY <1>1, <1>4 DEF Alive, Live, Splitting
<1>5. QED
  BY <1>2, <1>3, <1>4

(* The pages that a descent has left behind hold nothing above the first   *)
(* key of the page it came to.                                             *)
LEMMA StartsLeft ==
  ASSUME LeafInv, NEW p \in Linked, NEW b \in Keys,
         p # First => ~Less(b, key[p][0]),
         NEW q \in Linked, NEW x \in Holds(q), Less(b, KeyOf[x])
  PROVE  q \in Right(p)
<1> USE Constants
<1>0. PageInv /\ SortedInv /\ HalfInv /\ RightInv /\ Linked \subseteq Page /\ First \in Linked
  BY DEF LeafInv, Linked
<1> DEFINE Behind(h, g) == \A y \in Holds(g) : ~Less(key[h][0], KeyOf[y])
           S == {h \in Linked : \A g \in Linked : g \in Right(h) \/ Behind(h, g)}
<1>1. First \in S
  BY <1>0 DEF RightInv
<1>2. ASSUME NEW h \in S, sibling[h] # Null
      PROVE  sibling[h] \in S
  <2>c. PICK c : c = sibling[h]
    OBVIOUS
  <2>1. c \in Page /\ c \in Linked /\ h \in Linked /\ h \in Page
    BY <1>0, <1>2, <2>c, RightNext DEF Linked
  <2>2. ASSUME NEW g \in Linked
        PROVE  g \in Right(c) \/ Behind(c, g)
    <3>1. CASE g = h
      <4>1. \A y \in Holds(h) : NotAbove(y, sibling[h])
        BY <2>1, HoldsBelow
      <4>2. QED
        BY <1>2, <2>c, <3>1, <4>1 DEF NotAbove
    <3>2. CASE g # h /\ g \in Right(h)
      BY <1>0, <2>1, <2>c, <3>2, RightStep
    <3>3. CASE g # h /\ g \notin Right(h)
      <4>1. Behind(h, g) /\ h # First
        BY <1>0, <3>3 DEF RightInv
      <4>2. 0 \in Alive(h)
        BY <2>1, <4>1, FirstSlot
      <4>3. ptr[h][0] \in Holds(h) /\ key[h][0] = KeyOf[ptr[h][0]] /\ key[h][0] \in Keys
        <5>1. InOrder(key[h], ptr[h], Alive(h)) /\ key[h] \in [Slot -> Keys]
          BY <1>0, <2>1, AliveIs
        <5>2. QED
          BY <4>2, <5>1 DEF InOrder, Holds
      <4>4. ~Less(key[c][0], key[h][0])
        BY <1>2, <2>1, <2>c, <4>3, HoldsBelow DEF NotAbove
      <4>5. ASSUME NEW y \in Holds(g) PROVE ~Less(key[c][0], KeyOf[y])
        <5>1. ~Less(key[h][0], KeyOf[y])
          BY <4>1
        <5>2. KeyOf[y] \in Keys /\ key[c][0] \in Keys
          <6>1. y \in Rec
            BY <2>2, <4>5, HoldsBelow
          <6>2. QED
            BY <1>0, <2>1, <6>1 DEF PageInv, PageTypes
        <5>3. QED
          BY <4>3, <4>4, <5>1, <5>2, NotLessTrans
      <4>6. QED
        BY <4>5
    <3>4. QED
      BY <3>1, <3>2, <3>3
  <2>3. QED
    BY <2>1, <2>2, <2>c
<1>3. p \in S
  <2> HIDE DEF S
  <2>1. Closed(S)
    BY <1>2 DEF Closed
  <2>2. S \in SUBSET Page
    BY <1>0 DEF S
  <2>3. p \in Right(First)
    BY <1>0 DEF RightInv
  <2>4. QED
    BY <1>1, <2>1, <2>2, <2>3 DEF Right
<1>4. q \in Right(p) \/ Behind(p, q)
  BY <1>3
<1>5. CASE p = First
  BY <1>0, <1>5 DEF RightInv
<1>6. CASE p # First /\ Behind(p, q)
  <2>1. KeyOf[x] \in Keys /\ key[p][0] \in Keys
    <3>1. x \in Rec /\ key[p] \in [Slot -> Keys]
      BY <1>0, HoldsBelow, AliveIs
    <3>2. QED
      BY <3>1
  <2>2. ~Less(b, key[p][0]) /\ ~Less(key[p][0], KeyOf[x])
    BY <1>6
  <2>3. ~Less(b, KeyOf[x])
    BY <2>1, <2>2, NotLessTrans
  <2>4. QED
    BY <2>3
<1>7. QED
  BY <1>4, <1>5, <1>6

(* What is indexed is in a page, whatever the writer is doing.             *)
LEMMA IndexedHeld ==
  ASSUME LeafInv, NEW x \in Indexed
  PROVE  \E q \in Linked : x \in Holds(q)
<1> USE Constants
<1>0. PageInv /\ SortedInv /\ HalfInv /\ TwinInv
  BY DEF LeafInv
<1>1. PICK p \in Linked : x \in Held(p)
  BY DEF Indexed
<1>2. x # Null
  BY DEF Indexed
<1>3. PICK i \in 0 .. Count(p) - 1 : x = ptr[p][i]
  BY <1>1 DEF Held
<1>4. /\ p \in Page /\ last[p] \in -1 .. Card - 2 /\ p \in Chain
      /\ ptr[p] \in [Slot -> Rec \cup {Null}]
  BY <1>0, AliveIs DEF Chain
<1>5. /\ Count(p) \in Slot /\ Count(p) > last[p]
      /\ \A j \in last[p] + 1 .. Count(p) - 1 : ptr[p][j] # Null
  BY <1>0, <1>4, CountInPage
<1>6. ASSUME NEW e \in Slot, e > last[p], ptr[p][e] = Null
      PROVE  i < e
  <2>1. ~(e < Count(p))
    BY <1>4, <1>5, <1>6
  <2>2. QED
    BY <1>3, <1>5, <2>1
<1>7. CASE w.pc \in Splitting /\ p = w.page
  <2>p. PICK s, n : s = w.new /\ n = w.n
    OBVIOUS
  <2>1. /\ n \in 1 .. Card - 2 /\ last[s] \in 0 .. Card - 3 /\ s # p
        /\ Live(p) = 0 .. n - 1 /\ Live(s) = 0 .. last[s]
    BY <1>0, <1>7, <2>p, SplitIs
  <2>2. /\ last[p] = n + last[s] /\ ptr[p][last[p] + 1] = Null
        /\ \A j \in 0 .. last[s] : ptr[s][j] = ptr[p][n + j]
    BY <1>0, <1>7, <2>p DEF HalfInv
  <2>3. i \in 0 .. last[p]
    <3>1. last[p] + 1 \in Slot
      BY <1>4
    <3>2. i < last[p] + 1
      BY <1>4, <1>6, <2>2, <3>1
    <3>3. QED
      BY <1>3, <1>4, <1>5, <3>2
  <2>4. CASE w.pc = "publish"
    BY <1>3, <1>7, <2>3, <2>4 DEF Holds, Alive
  <2>5. CASE w.pc # "publish" /\ i < n
    <3>1. i \in Alive(p)
      BY <2>1, <2>3, <2>5 DEF Alive
    <3>2. QED
      BY <1>3, <3>1 DEF Holds
  <2>6. CASE w.pc # "publish" /\ ~(i < n)
    <3>1. i - n \in 0 .. last[s] /\ n + (i - n) = i
      BY <2>1, <2>2, <2>3, <2>6
    <3>2. ptr[s][i - n] = x
      BY <1>3, <2>2, <3>1
    <3>3. x \in Holds(s)
      BY <2>1, <2>6, <3>1, <3>2 DEF Holds, Alive
    <3>4. s \in Linked
      <4>1. sibling[p] = s /\ s \in Page
        BY <1>0, <1>7, <2>6, <2>p, SplitIs DEF SortedInv, SplitInv
      <4>2. QED
        BY <1>4, <4>1 DEF Linked
    <3>5. QED
      BY <3>3, <3>4
  <2>7. QED
    BY <2>4, <2>5, <2>6
<1>8. CASE w.pc \in Entry /\ p = w.page
  <2>p. PICK n, h : n = w.n /\ h = w.hole
    OBVIOUS
  <2>1. /\ n \in 0 .. Card - 2 /\ h \in 0 .. Card - 2 /\ h <= n /\ n = last[p] + 1
        /\ Live(p) = (0 .. n) \ {h}
    BY <1>0, <1>8, <2>p, EntryIs
  <2>2. Alive(p) = (0 .. n) \ {h}
    BY <1>8, <2>1 DEF Alive, Entry
  <2>3. TwinAt(w.pc, key[p], ptr[p], n, h) /\ HoleAt(w.pc, key[p], ptr[p], n, h, w.word, w.rec)
    BY <1>0, <1>8, <2>p DEF TwinInv, SortedInv, HoleInv
  <2>4. i \in 0 .. n
    <3>1. CASE w.pc = "end"
      <4>1. ptr[p][n] = Null /\ n \in Slot /\ n > last[p]
        BY <1>0, <1>4, <1>8, <2>1, <2>p, <3>1 DEF PageInv, HoleInPage
      <4>2. i < n
        BY <1>6, <4>1
      <4>3. QED
        BY <1>3, <1>5, <2>1, <4>2
    <3>2. CASE w.pc # "end"
      <4>1. ptr[p][n + 1] = Null /\ n + 1 \in Slot /\ n + 1 > last[p]
        <5>1. ptr[p][n + 1] = Null
          BY <2>3, <3>2 DEF HoleAt
        <5>2. n + 1 \in Slot /\ n + 1 > last[p]
          BY <1>4, <2>1
        <5>3. QED
          BY <5>1, <5>2
      <4>2. i < n + 1
        BY <1>6, <4>1
      <4>3. QED
        BY <1>3, <1>5, <2>1, <4>2
    <3>3. QED
      BY <3>1, <3>2
  <2>5. CASE i # h
    BY <1>3, <2>2, <2>4, <2>5 DEF Holds
  <2>6. CASE i = h
    <3>1. w.pc # "end"
      <4>1. w.pc = "end" => h = n /\ ptr[p][n] = Null
        BY <1>0, <1>8, <2>3, <2>p DEF HoleAt, PageInv, HoleInPage
      <4>2. QED
        BY <1>2, <1>3, <2>6, <4>1
    <3>2. CASE w.pc = "shift"
      <4>1. h # n /\ ptr[p][h + 1] = x
        BY <1>2, <1>3, <2>3, <2>6, <3>2 DEF TwinAt
      <4>2. h + 1 \in Alive(p)
        BY <2>1, <2>2, <4>1
      <4>3. QED
        BY <4>1, <4>2 DEF Holds
    <3>3. CASE w.pc \in {"move", "key", "ptr"}
      <4>1. h # 0 /\ ptr[p][h - 1] = x
        BY <1>2, <1>3, <2>3, <2>6, <3>3 DEF TwinAt
      <4>2. h - 1 \in Alive(p)
        BY <2>1, <2>2, <4>1
      <4>3. QED
        BY <4>1, <4>2 DEF Holds
    <3>4. QED
      BY <1>8, <3>1, <3>2, <3>3 DEF Entry
  <2>7. QED
    BY <2>5, <2>6
<1>9. CASE ~(w.pc \in Splitting /\ p = w.page) /\ ~(w.pc \in Entry /\ p = w.page)
  <2>1. Alive(p) = 0 .. last[p]
    BY <1>9 DEF Alive, Live, Splitting
  <2>2. w.pc = "idle" \/ p # w.page
    BY <1>0, <1>9 DEF PageInv, WriterTypes
  <2>3. ptr[p][last[p] + 1] = Null /\ last[p] + 1 \in Slot
    BY <1>0, <1>4, <2>2 DEF SortedInv, EndInv
  <2>4. i < last[p] + 1
    BY <1>4, <1>6, <2>3
  <2>5. i \in Alive(p)
    BY <1>3, <1>4, <1>5, <2>1, <2>4
  <2>6. QED
    BY <1>3, <2>5 DEF Holds
<1>10. QED
  BY <1>7, <1>8, <1>9

-----------------------------------------------------------------------------
(* The writer, as a scan sees it: in a page of the chain a pointer appears *)
(* only where it was, or right of where it was, or as the new record...    *)
PtrMoves ==
  \A q \in Linked, i \in Slot, x \in Rec :
    ptr'[q][i] = x => \/ ptr[q][i] = x
                      \/ i >= 1 /\ ptr[q][i - 1] = x
                      \/ w.pc = "ptr" /\ x = w.rec

(* ... and no page loses a record, but by the split.                       *)
HoldsKept == \A q \in Linked : \A x \in Holds(q) : x \in Holds(q)'

LEMMA StoreFastMoves ==
  ASSUME LeafInv, NEW x \in Rec, NEW p \in Page, StoreFast(x, p)
  PROVE  PtrMoves /\ HoldsKept /\ HalfInv' /\ TwinInv'
<1> USE Constants
<1>0. PageInv /\ SortedInv
  BY DEF LeafInv
<1>n. PICK n : n = Count(p)
  OBVIOUS
<1>1. /\ w.pc = "idle" /\ p \in Linked /\ n = last[p] + 1 /\ ptr[p][n] = Null
      /\ w' = Entering(x, p, n) /\ UNCHANGED <<key, ptr, sibling, last>>
      /\ last[p] \in -1 .. Card - 2
  BY <1>0, <1>n, IdleCount, CountInPage DEF StoreFast, IsTarget, pageVars, PageInv, PageTypes
<1>2. /\ w'.pc = (IF n = 0 THEN "key" ELSE "end") /\ w'.page = p
      /\ w'.n = n /\ w'.hole = n
      /\ w'.pc \in Entry /\ w'.pc \notin Splitting \cup {"idle", "publish"}
  BY <1>1 DEF Entering, IdleWriter, Entry, Splitting
<1>3. \A q \in Page : Alive(q)' = Alive(q)
  <2> SUFFICES ASSUME NEW q \in Page PROVE Alive(q)' = Alive(q)
    OBVIOUS
  <2>1. Alive(q) = 0 .. last[q]
    BY <1>1 DEF Alive, Live, Splitting, Entry
  <2>2. CASE q = p
    <3>1. Alive(q)' = (0 .. n) \ {n}
      BY <1>2, <2>2 DEF Alive, Live
    <3>2. (0 .. n) \ {n} = 0 .. last[p]
      BY <1>1
    <3>3. QED
      BY <2>1, <2>2, <3>1, <3>2
  <2>3. CASE q # p
    BY <1>1, <1>2, <2>1, <2>3 DEF Alive, Live
  <2>4. QED
    BY <2>2, <2>3
<1>4. PtrMoves
  BY <1>1 DEF PtrMoves
<1>5. HoldsKept
  <2>1. Linked \subseteq Page
    BY DEF Linked
  <2>2. QED
    BY <1>1, <1>3, <2>1 DEF HoldsKept, Holds
<1>6. HalfInv'
  BY <1>2 DEF HalfInv
<1>7. TwinInv'
  <2>1. TwinAt(w'.pc, key'[p], ptr'[p], n, n)
    BY <1>1, <1>2 DEF TwinAt
  <2>2. QED
    BY <1>2, <2>1 DEF TwinInv, TwinAt
<1>8. QED
  BY <1>4, <1>5, <1>6, <1>7

LEMMA StoreSplitMoves ==
  ASSUME LeafInv, NEW x \in Rec, NEW p \in Page, StoreSplit(x, p)
  PROVE  PtrMoves /\ HoldsKept /\ HalfInv' /\ TwinInv'
<1> USE Constants
<1>0. PageInv /\ SortedInv /\ HalfInv
  BY DEF LeafInv
<1>c. PICK c, m, s : c = Count(p) /\ m = c \div 2 /\ s = NewPage
  OBVIOUS
<1>s. SplitOf(x, p, c, m, s)
  BY <1>0, <1>c, SplitCopies
<1>1. /\ w.pc = "idle" /\ p \in Linked /\ Linked \subseteq Page
      /\ c = Card - 1 /\ m >= 1 /\ m <= Card - 2 /\ m \in Nat /\ c \in Nat
      /\ last[p] = c - 1 /\ s \notin Linked /\ s # p
  BY <1>s DEF SplitOf
<1>2. /\ \A q \in Page \ {s} : /\ key'[q] = key[q] /\ ptr'[q] = ptr[q]
                               /\ last'[q] = last[q]
      /\ \A i \in 0 .. c - m - 1 : ptr'[s][i] = ptr[p][i + m]
      /\ last'[s] = c - m - 1
  BY <1>s DEF SplitOf
<1>3. /\ w'.pc = "publish" /\ w'.page = p /\ w'.new = s /\ w'.n = m
      /\ w'.pc \in Splitting /\ w'.pc \notin Entry
  BY <1>s DEF SplitOf
<1>4. \A q \in Linked : Alive(q)' = Alive(q) /\ ptr'[q] = ptr[q]
  <2> SUFFICES ASSUME NEW q \in Linked PROVE Alive(q)' = Alive(q) /\ ptr'[q] = ptr[q]
    OBVIOUS
  <2>1. Alive(q) = 0 .. last[q]
    BY <1>1 DEF Alive, Live, Splitting, Entry
  <2>2. q \in Page \ {s}
    BY <1>1
  <2>3. Alive(q)' = 0 .. last'[q]
    BY <1>3 DEF Alive, Live
  <2>4. QED
    BY <1>2, <2>1, <2>2, <2>3
<1>5. PtrMoves /\ HoldsKept
  BY <1>4 DEF PtrMoves, HoldsKept, Holds
<1>6. HalfInv'
  <2>1. key'[p] = key[p] /\ ptr'[p] = ptr[p] /\ last'[p] = last[p]
    BY <1>1, <1>2
  <2>2. last'[p] = m + last'[s]
    BY <1>1, <1>2, <2>1
  <2>3. ptr'[p][last'[p] + 1] = Null
    BY <1>0, <1>1, <2>1 DEF SortedInv, EndInv, Chain
  <2>4. InOrder(key'[p], ptr'[p], 0 .. last'[p])
    <3>1. InOrder(key[p], ptr[p], Alive(p)) /\ Alive(p) = 0 .. last[p]
      BY <1>0, <1>1, AliveIs DEF Alive, Live, Splitting, Entry
    <3>2. QED
      BY <2>1, <3>1
  <2>5. \A i \in 0 .. last'[s] : ptr'[s][i] = ptr'[p][m + i]
    <3> SUFFICES ASSUME NEW i \in 0 .. last'[s] PROVE ptr'[s][i] = ptr'[p][m + i]
      OBVIOUS
    <3>1. i \in 0 .. c - m - 1 /\ i + m = m + i
      BY <1>1, <1>2
    <3>2. QED
      BY <1>2, <2>1, <3>1
  <2>6. InOrder(key[w.page], ptr[w.page], 0 .. last[w.page])'
    BY <1>3, <2>4 DEF InOrder
  <2>7. QED
    BY <1>3, <2>2, <2>3, <2>5, <2>6 DEF HalfInv
<1>7. TwinInv'
  BY <1>3 DEF TwinInv
<1>8. QED
  BY <1>5, <1>6, <1>7

LEMMA PublishMoves ==
  ASSUME LeafInv, Publish
  PROVE  /\ PtrMoves /\ HalfInv' /\ TwinInv'
         /\ \E p \in Linked, s \in Page :
              /\ p = w.page /\ sibling' = [sibling EXCEPT ![p] = s]
              /\ sibling[s] = sibling[p] /\ s # p
              /\ \A q \in Linked : \A x \in Holds(q) :
                   x \in Holds(q)' \/ (q = p /\ x \in Holds(s)')
<1> USE Constants
<1>0. PageInv /\ SortedInv /\ HalfInv
  BY DEF LeafInv
<1>1. w.pc = "publish" /\ w.pc \in Splitting
  BY DEF Publish, Splitting
<1>p. PICK p, s, n : p = w.page /\ s = w.new /\ n = w.n
  OBVIOUS
<1>2. /\ p \in Page /\ p \in Linked /\ s \in Page /\ s # p /\ n \in 1 .. Card - 2
      /\ last[s] \in 0 .. Card - 3
  BY <1>0, <1>1, <1>p, SplitIs
<1>3. /\ sibling' = [sibling EXCEPT ![p] = s] /\ w' = [w EXCEPT !.pc = "bump"]
      /\ UNCHANGED <<key, ptr, last>> /\ sibling[s] = sibling[p]
  BY <1>0, <1>1, <1>p DEF Publish, SortedInv, SplitInv
<1>4. /\ w'.pc = "bump" /\ w'.page = p /\ w'.new = s /\ w'.n = n
      /\ w'.pc \in Splitting /\ w'.pc \notin Entry
  BY <1>0, <1>1, <1>3, <1>p, SplitIs DEF Splitting, Entry
<1>5. PtrMoves
  BY <1>3 DEF PtrMoves
<1>6. /\ last[p] = n + last[s] /\ ptr[p][last[p] + 1] = Null
      /\ InOrder(key[p], ptr[p], 0 .. last[p])
      /\ \A i \in 0 .. last[s] : ptr[s][i] = ptr[p][n + i]
  BY <1>0, <1>1, <1>p DEF HalfInv
<1>7. HalfInv'
  <2>1. InOrder(key[w.page], ptr[w.page], 0 .. last[w.page])'
    BY <1>3, <1>4, <1>6 DEF InOrder
  <2>2. QED
    BY <1>3, <1>4, <1>6, <2>1 DEF HalfInv
<1>8. TwinInv'
  BY <1>4 DEF TwinInv
<1>9. ASSUME NEW q \in Linked, NEW x \in Holds(q)
      PROVE  x \in Holds(q)' \/ (q = p /\ x \in Holds(s)')
  <2>1. CASE q # p
    <3>1. Alive(q)' = Alive(q)
      BY <1>1, <1>3, <1>4, <1>p, <2>1 DEF Alive, Live
    <3>2. QED
      BY <1>3, <1>9, <3>1 DEF Holds
  <2>2. CASE q = p
    <3>1. Alive(p) = 0 .. last[p]
      BY <1>1, <1>p DEF Alive
    <3>2. Alive(p)' = 0 .. n - 1 /\ Alive(s)' = 0 .. last[s]
      BY <1>2, <1>3, <1>4 DEF Alive, Live
    <3>3. PICK k \in 0 .. last[p] : x = ptr[p][k]
      BY <1>9, <2>2, <3>1 DEF Holds
    <3>4. CASE k < n
      <4>1. k \in Alive(p)'
        BY <1>2, <3>2, <3>4
      <4>2. QED
        BY <1>3, <2>2, <3>3, <4>1 DEF Holds
    <3>5. CASE ~(k < n)
      <4>1. k - n \in 0 .. last[s] /\ n + (k - n) = k
        BY <1>2, <1>6, <3>5
      <4>2. ptr'[s][k - n] = x /\ k - n \in Alive(s)'
        BY <1>3, <1>6, <3>2, <3>3, <4>1
      <4>3. QED
        BY <2>2, <4>2 DEF Holds
    <3>6. QED
      BY <3>4, <3>5
  <2>3. QED
    BY <2>1, <2>2
<1>10. QED
  BY <1>2, <1>3, <1>5, <1>7, <1>8, <1>9, <1>p

LEMMA BumpMoves ==
  ASSUME LeafInv, Bump
  PROVE  PtrMoves /\ HoldsKept /\ HalfInv' /\ TwinInv'
<1> USE Constants
<1>0. PageInv /\ SortedInv /\ HalfInv
  BY DEF LeafInv
<1>1. w.pc = "bump" /\ w.pc \in Splitting
  BY DEF Bump, Splitting
<1>2. w' = [w EXCEPT !.pc = "cut"] /\ UNCHANGED <<key, ptr, sibling, last>>
  BY DEF Bump
<1>3. /\ w'.pc = "cut" /\ w'.page = w.page /\ w'.new = w.new /\ w'.n = w.n
      /\ w'.pc \in Splitting /\ w'.pc \notin Entry
  BY <1>0, <1>1, <1>2, SplitIs DEF Splitting, Entry
<1>4. \A q : Alive(q)' = Alive(q)
  BY <1>1, <1>2, <1>3 DEF Alive, Live
<1>5. PtrMoves /\ HoldsKept
  BY <1>2, <1>4 DEF PtrMoves, HoldsKept, Holds
<1>6. HalfInv'
  <2>1. InOrder(key[w.page], ptr[w.page], 0 .. last[w.page])'
    BY <1>0, <1>1, <1>2, <1>3 DEF HalfInv, InOrder
  <2>2. QED
    BY <1>0, <1>1, <1>2, <1>3, <2>1 DEF HalfInv
<1>7. TwinInv'
  BY <1>3 DEF TwinInv
<1>8. QED
  BY <1>5, <1>6, <1>7

LEMMA CutMoves ==
  ASSUME LeafInv, Cut
  PROVE  PtrMoves /\ HoldsKept /\ HalfInv' /\ TwinInv'
<1> USE Constants
<1>0. PageInv /\ SortedInv /\ Linked \subseteq Page
  BY DEF LeafInv, Linked
<1>1. w.pc = "cut" /\ w.pc \in Splitting
  BY DEF Cut, Splitting
<1>p. PICK p, s, n : p = w.page /\ s = w.new /\ n = w.n
  OBVIOUS
<1>2. /\ p \in Page /\ n \in 1 .. Card - 2 /\ Live(p) = 0 .. n - 1 /\ last[s] \in 0 .. Card - 3
  BY <1>0, <1>1, <1>p, SplitIs
<1>3. ptr' = [ptr EXCEPT ![p][n] = Null] /\ UNCHANGED <<key, sibling>>
  BY <1>p DEF Cut
<1>4. w'.pc = "end"
  <2>1. n # 0 /\ last[s] + 1 # 0
    BY <1>2
  <2>2. w' = Entering(w.rec, p, n) \/ w' = Entering(w.rec, s, last[s] + 1)
    BY <1>p DEF Cut
  <2>3. QED
    BY <2>1, <2>2 DEF Entering, IdleWriter
<1>5. \A q \in Page, i \in Slot :
        ptr'[q][i] = IF q = p /\ i = n THEN Null ELSE ptr[q][i]
  BY <1>2, <1>3, <1>0 DEF PageInv, PageTypes
<1>6. PtrMoves
  BY <1>0, <1>5 DEF PtrMoves
<1>7. \A q \in Page : Alive(q)' = Alive(q) /\ Alive(q) = Live(q)
  <2>1. \A q \in Page : Live(q)' = Live(q)
    BY <1>0, CutLive
  <2>2. QED
    BY <1>1, <1>4, <2>1 DEF Alive
<1>8. HoldsKept
  <2> SUFFICES ASSUME NEW q \in Linked, NEW x \in Holds(q) PROVE x \in Holds(q)'
    BY DEF HoldsKept
  <2>1. PICK k \in Alive(q) : x = ptr[q][k]
    BY DEF Holds
  <2>2. k \in Slot /\ q \in Page
    BY <1>0, AliveIs DEF LeafInv
  <2>3. ~(q = p /\ k = n)
    BY <1>2, <1>7, <2>1
  <2>4. ptr'[q][k] = x /\ k \in Alive(q)'
    BY <1>5, <1>7, <2>1, <2>2, <2>3
  <2>5. QED
    BY <2>4 DEF Holds
<1>9. HalfInv' /\ TwinInv'
  BY <1>4 DEF HalfInv, TwinInv, TwinAt, Splitting
<1>10. QED
  BY <1>6, <1>8, <1>9

(* The steps that leave the hole where it is.                              *)
LEMMA HoleStays ==
  ASSUME LeafInv, w.pc \in Entry, w'.pc \in Entry, w'.page = w.page, w'.n = w.n,
         w'.hole = w.hole, last' = last,
         \A q \in Page, i \in Slot : ~(q = w.page /\ i \in {w.hole, w.n + 1}) =>
           ptr'[q][i] = ptr[q][i]
  PROVE  HoldsKept /\ HalfInv'
<1> USE Constants
<1>0. PageInv /\ SortedInv
  BY DEF LeafInv
<1>1. HoldsKept
  <2> SUFFICES ASSUME NEW q \in Linked, NEW x \in Holds(q) PROVE x \in Holds(q)'
    BY DEF HoldsKept
  <2>1. PICK k \in Alive(q) : x = ptr[q][k]
    BY DEF Holds
  <2>2. k \in Slot /\ q \in Page
    BY AliveIs DEF LeafInv
  <2>3. Alive(q)' = Alive(q)
    BY DEF Alive, Live, Entry, Splitting
  <2>4. ~(q = w.page /\ k \in {w.hole, w.n + 1})
    <3>1. q = w.page => Alive(q) = (0 .. w.n) \ {w.hole} /\ w.n \in 0 .. Card - 2
      BY <1>0, EntryIs DEF Alive, Entry
    <3>2. QED
      BY <2>1, <3>1
  <2>5. ptr'[q][k] = x /\ k \in Alive(q)'
    BY <2>1, <2>2, <2>3, <2>4
  <2>6. QED
    BY <2>5 DEF Holds
<1>2. HalfInv'
  BY DEF HalfInv, Entry, Splitting
<1>3. QED
  BY <1>1, <1>2

LEMMA TwinAfter ==
  ASSUME NEW pc, NEW p, NEW n, NEW h, w'.pc = pc, w'.page = p, w'.n = n, w'.hole = h,
         TwinAt(pc, key'[p], ptr'[p], n, h)
  PROVE  TwinInv'
<1>1. TwinAt(w'.pc, key'[w'.page], ptr'[w'.page], w'.n, w'.hole)
  OBVIOUS
<1>2. TwinAt(w.pc, key[w.page], ptr[w.page], w.n, w.hole)'
  BY ONLY <1>1 DEF TwinAt
<1>3. QED
  BY <1>2 DEF TwinInv

LEMMA EntryMoves ==
  ASSUME LeafInv, MoveEnd \/ Shift \/ MoveKey \/ SetKey \/ SetPtr
  PROVE  PtrMoves /\ HoldsKept /\ HalfInv' /\ TwinInv'
<1> USE Constants
<1>0. /\ PageInv /\ SortedInv /\ Linked \subseteq Page
      /\ w.pc \in Entry
  BY DEF LeafInv, Linked, MoveEnd, Shift, MoveKey, SetKey, SetPtr, Entry
<1>p. PICK p, n, h, x : p = w.page /\ n = w.n /\ h = w.hole /\ x = w.rec
  OBVIOUS
<1>1. /\ p \in Page /\ x \in Rec /\ n \in 0 .. Card - 2 /\ h \in 0 .. Card - 2 /\ h <= n
      /\ w.word \in Word /\ n = last[p] + 1 /\ n + 1 \in Slot /\ h \in Slot /\ n \in Slot
      /\ DOMAIN w = {"pc", "rec", "page", "new", "n", "hole", "word"}
  BY <1>0, <1>p, EntryIs
<1>2. /\ HoleAt(w.pc, key[p], ptr[p], n, h, w.word, x)
      /\ TwinAt(w.pc, key[p], ptr[p], n, h)
  BY <1>0, <1>p DEF LeafInv, SortedInv, HoleInv, TwinInv
<1>3. CASE MoveEnd
  <2>1. /\ w.pc = "end" /\ h = n /\ ptr[p][n] = Null
        /\ ptr' = [ptr EXCEPT ![p][n + 1] = Null]
        /\ w' = [w EXCEPT !.pc = "shift"] /\ UNCHANGED <<key, last>>
    BY <1>0, <1>2, <1>3, <1>p DEF MoveEnd, HoleAt, PageInv, HoleInPage
  <2>2. /\ w'.pc = "shift" /\ w'.pc \in Entry /\ w'.page = p /\ w'.n = n /\ w'.hole = h
    BY <1>1, <1>p, <2>1 DEF Entry
  <2>3. \A q \in Page, i \in Slot :
          ptr'[q][i] = IF q = p /\ i = n + 1 THEN Null ELSE ptr[q][i]
    BY <1>0, <1>1, <2>1 DEF PageInv, PageTypes
  <2>4. PtrMoves
    BY <1>0, <2>3 DEF PtrMoves
  <2>5. TwinAt("shift", key'[p], ptr'[p], n, h)
    BY <1>1, <2>1, <2>3 DEF TwinAt
  <2>6. HoldsKept /\ HalfInv'
    BY <1>0, <1>p, <2>1, <2>2, <2>3, HoleStays
  <2>7. QED
    BY <2>2, <2>4, <2>5, <2>6, TwinAfter
<1>4. CASE Shift
  <2>1. /\ w.pc = "shift"
        /\ ptr' = [ptr EXCEPT ![p][h] = IF h = 0 THEN Null ELSE ptr[p][h - 1]]
        /\ w' = [w EXCEPT !.pc = IF h > 0 /\ Less(KeyOf[x], key[p][h - 1])
                                 THEN "move" ELSE "key"]
        /\ UNCHANGED <<key, last>>
    BY <1>4, <1>p DEF Shift
  <2>2. /\ w'.pc \in {"move", "key"} /\ w'.pc \in Entry /\ w'.page = p /\ w'.n = n
        /\ w'.hole = h
    BY <1>1, <1>p, <2>1 DEF Entry
  <2>3. \A q \in Page, i \in Slot :
          ptr'[q][i] = IF q = p /\ i = h THEN IF h = 0 THEN Null ELSE ptr[p][h - 1]
                       ELSE ptr[q][i]
    BY <1>0, <1>1, <2>1 DEF PageInv, PageTypes
  <2>4. PtrMoves
    <3> SUFFICES ASSUME NEW q \in Linked, NEW i \in Slot, NEW y \in Rec, ptr'[q][i] = y
                 PROVE  ptr[q][i] = y \/ (i >= 1 /\ ptr[q][i - 1] = y)
      BY DEF PtrMoves
    <3>1. CASE q = p /\ i = h
      <4>1. h # 0 /\ ptr[p][h - 1] = y
        BY <1>0, <2>3, <3>1
      <4>2. h >= 1
        BY <1>1, <4>1
      <4>3. QED
        BY <3>1, <4>1, <4>2
    <3>2. CASE ~(q = p /\ i = h)
      BY <1>0, <2>3, <3>2
    <3>3. QED
      BY <3>1, <3>2
  <2>5. TwinAt(w'.pc, key'[p], ptr'[p], n, h)
    <3>1. ptr'[p][h] = IF h = 0 THEN Null ELSE ptr[p][h - 1]
      BY <1>1, <2>3
    <3>2. h # 0 => ptr'[p][h - 1] = ptr[p][h - 1]
      BY <1>1, <2>3
    <3>3. QED
      BY <2>2, <3>1, <3>2 DEF TwinAt
  <2>6. HoldsKept /\ HalfInv'
    BY <1>0, <1>p, <2>1, <2>2, <2>3, HoleStays
  <2>7. QED
    BY <2>2, <2>4, <2>5, <2>6, TwinAfter
<1>5. CASE SetKey
  <2>1. /\ w.pc = "key" /\ UNCHANGED <<ptr, last>>
        /\ w' = IF w.word < NumWord THEN [w EXCEPT !.word = @ + 1]
                ELSE [w EXCEPT !.pc = "ptr"]
    BY <1>5 DEF SetKey
  <2>2. /\ w'.pc \in {"key", "ptr"} /\ w'.pc \in Entry /\ w'.page = p /\ w'.n = n
        /\ w'.hole = h
    BY <1>1, <1>p, <2>1 DEF Entry
  <2>3. PtrMoves
    BY <2>1 DEF PtrMoves
  <2>4. TwinAt(w'.pc, key'[p], ptr'[p], n, h)
    BY <1>2, <2>1, <2>2 DEF TwinAt
  <2>5. HoldsKept /\ HalfInv'
    BY <1>0, <1>p, <2>1, <2>2, HoleStays
  <2>6. QED
    BY <2>2, <2>3, <2>4, <2>5, TwinAfter
<1>6. CASE SetPtr
  <2>1. /\ w.pc = "ptr" /\ ptr' = [ptr EXCEPT ![p][h] = x]
        /\ last' = [last EXCEPT ![p] = n] /\ w'.pc = "idle" /\ w'.page = First
    BY <1>6, <1>p DEF SetPtr, IdleWriter
  <2>2. \A q \in Page, i \in Slot :
          ptr'[q][i] = IF q = p /\ i = h THEN x ELSE ptr[q][i]
    BY <1>0, <1>1, <2>1 DEF PageInv, PageTypes
  <2>3. PtrMoves
    BY <1>0, <1>p, <2>1, <2>2 DEF PtrMoves
  <2>4. HoldsKept
    <3> SUFFICES ASSUME NEW q \in Linked, NEW y \in Holds(q) PROVE y \in Holds(q)'
      BY DEF HoldsKept
    <3>1. PICK k \in Alive(q) : y = ptr[q][k]
      BY DEF Holds
    <3>2. k \in Slot /\ q \in Page
      BY AliveIs DEF LeafInv
    <3>3. Alive(q)' = 0 .. last'[q]
      BY <2>1 DEF Alive, Live, Splitting, Entry
    <3>4. CASE q = p
      <4>1. Alive(p) = (0 .. n) \ {h}
        BY <1>0, <1>p, EntryIs DEF Alive, Entry
      <4>2. last'[p] = n
        BY <1>0, <1>1, <2>1 DEF PageInv, PageTypes
      <4>3. k \in Alive(q)' /\ k # h
        BY <3>1, <3>3, <3>4, <4>1, <4>2
      <4>4. QED
        BY <2>2, <3>1, <3>2, <3>4, <4>3 DEF Holds
    <3>5. CASE q # p
      <4>1. last'[q] = last[q]
        BY <1>0, <2>1, <3>2, <3>5 DEF PageInv, PageTypes
      <4>2. Alive(q) = 0 .. last[q]
        BY <1>p, <2>1, <3>5 DEF Alive, Live, Splitting
      <4>3. k \in Alive(q)'
        BY <3>1, <3>3, <4>1, <4>2
      <4>4. QED
        BY <2>2, <3>1, <3>2, <3>5, <4>3 DEF Holds
    <3>6. QED
      BY <3>4, <3>5
  <2>5. HalfInv' /\ TwinInv'
    BY <2>1 DEF HalfInv, TwinInv, Splitting, Entry
  <2>6. QED
    BY <2>3, <2>4, <2>5
<1>7. CASE MoveKey
  <2>w. PICK word : word = w.word
    OBVIOUS
  <2>1. /\ w.pc = "move" /\ h >= 1 /\ UNCHANGED <<ptr, last>>
        /\ key' = [key EXCEPT ![p][h][word] = key[p][h - 1][word]]
        /\ w' = IF word < NumWord THEN [w EXCEPT !.word = @ + 1]
                ELSE [w EXCEPT !.pc = "shift", !.hole = h - 1, !.word = 1]
    BY <1>0, <1>7, <1>p, <2>w DEF MoveKey, PageInv, HoleInPage
  <2>2. PtrMoves
    BY <2>1 DEF PtrMoves
  <2>3. ptr[p][h] = ptr[p][h - 1]
    BY <1>2, <2>1 DEF TwinAt
  <2>4. CASE word < NumWord
    <3>1. w'.pc = "move" /\ w'.pc \in Entry /\ w'.page = p /\ w'.n = n /\ w'.hole = h
      BY <1>1, <1>p, <2>1, <2>4 DEF Entry
    <3>2. TwinAt("move", key'[p], ptr'[p], n, h)
      BY <2>1, <2>3 DEF TwinAt
    <3>3. HoldsKept /\ HalfInv'
      BY <1>0, <1>p, <2>1, <3>1, HoleStays
    <3>4. QED
      BY <2>2, <3>1, <3>2, <3>3, TwinAfter
  <2>5. CASE ~(word < NumWord)
    <3>1. w'.pc = "shift" /\ w'.pc \in Entry /\ w'.page = p /\ w'.n = n /\ w'.hole = h - 1
      BY <1>1, <1>p, <2>1, <2>5 DEF Entry
    <3>2. word = NumWord
      BY <1>1, <2>w, <2>5 DEF Word
    <3>3. key'[p][h] = key'[p][h - 1]
      <4>1. h - 1 \in Slot /\ h # h - 1 /\ h \in Slot /\ word \in Word
        BY <1>1, <2>1, <2>w
      <4>2. key[p][h] \in Keys /\ key[p][h - 1] \in Keys /\ key[p] \in [Slot -> Keys]
        BY <1>0, <1>1, <4>1 DEF PageInv, PageTypes
      <4>3. /\ key'[p][h - 1] = key[p][h - 1]
            /\ key'[p][h] = [key[p][h] EXCEPT ![word] = key[p][h - 1][word]]
        BY <1>0, <1>1, <2>1, <4>1, <4>2 DEF PageInv, PageTypes
      <4>4. \A j \in Word : key'[p][h][j] = key[p][h - 1][j]
        <5> SUFFICES ASSUME NEW j \in Word PROVE key'[p][h][j] = key[p][h - 1][j]
          OBVIOUS
        <5>1. CASE j = word
          BY <4>1, <4>2, <4>3, <5>1 DEF Keys
        <5>2. CASE j # word
          <6>1. j \in 1 .. word - 1
            BY <3>2, <5>2 DEF Word
          <6>2. key[p][h][j] = key[p][h - 1][j]
            BY <1>2, <2>1, <2>w, <6>1 DEF HoleAt
          <6>3. QED
            BY <4>2, <4>3, <5>2, <6>2 DEF Keys
        <5>3. QED
          BY <5>1, <5>2
      <4>5. key'[p][h] \in [Word -> Nat] /\ key[p][h - 1] \in [Word -> Nat]
        <5>1. key[p][h - 1][word] \in Nat
          BY <4>1, <4>2 DEF Keys
        <5>2. QED
          BY <4>2, <4>3, <5>1 DEF Keys
      <4>6. QED
        BY <4>3, <4>4, <4>5
    <3>4. TwinAt("shift", key'[p], ptr'[p], n, h - 1)
      <4>1. h - 1 # n /\ (h - 1) + 1 = h
        BY <1>1, <2>1
      <4>2. QED
        BY <2>1, <2>3, <3>3, <4>1 DEF TwinAt
    <3>5. TwinInv'
      BY <3>1, <3>4, TwinAfter
    <3>6. HalfInv'
      BY <3>1 DEF HalfInv, Splitting
    <3>7. HoldsKept
      <4> SUFFICES ASSUME NEW q \in Linked, NEW y \in Holds(q) PROVE y \in Holds(q)'
        BY DEF HoldsKept
      <4>1. PICK k \in Alive(q) : y = ptr[q][k]
        BY DEF Holds
      <4>2. CASE q # p
        <5>1. Alive(q)' = Alive(q)
          BY <1>p, <2>1, <3>1, <4>2 DEF Alive, Live, Splitting
        <5>2. QED
          BY <2>1, <4>1, <5>1 DEF Holds
      <4>3. CASE q = p
        <5>1. Alive(p) = (0 .. n) \ {h} /\ Alive(p)' = (0 .. n) \ {h - 1}
          BY <1>0, <1>p, <3>1, EntryIs DEF Alive, Live, Entry, Splitting
        <5>2. CASE k = h - 1
          <6>1. ptr'[p][h] = y /\ h \in Alive(p)'
            BY <1>1, <2>1, <2>3, <4>1, <4>3, <5>1, <5>2
          <6>2. QED
            BY <4>3, <6>1 DEF Holds
        <5>3. CASE k # h - 1
          <6>1. ptr'[p][k] = y /\ k \in Alive(p)'
            BY <2>1, <4>1, <4>3, <5>1, <5>3
          <6>2. QED
            BY <4>3, <6>1 DEF Holds
        <5>4. QED
          BY <5>2, <5>3
      <4>4. QED
        BY <4>2, <4>3
    <3>8. QED
      BY <2>2, <3>5, <3>6, <3>7
  <2>6. QED
    BY <2>4, <2>5
<1>8. QED
  BY <1>3, <1>4, <1>5, <1>6, <1>7

-----------------------------------------------------------------------------
(* No step of the writer takes a page out of the way of a scan.            *)
LEMMA ClosedKept ==
  ASSUME LeafInv, Write, NEW S \in SUBSET Page, Closed(S)'
  PROVE  Closed(S)
<1> USE Constants
<1>0. PageInv /\ SortedInv
  BY DEF LeafInv
<1>1. CASE sibling' = sibling
  BY <1>1 DEF Closed
<1>2. ASSUME NEW x \in Rec, NEW p \in Page, StoreSplit(x, p)
      PROVE  Closed(S)
  <2>c. PICK c, m, s : c = Count(p) /\ m = c \div 2 /\ s = NewPage
    OBVIOUS
  <2>1. sibling[s] = Null /\ \A q \in Page \ {s} : sibling'[q] = sibling[q]
    <3>1. SplitOf(x, p, c, m, s)
      BY <1>0, <1>2, <2>c, SplitCopies
    <3>2. QED
      BY <3>1 DEF SplitOf
  <2>2. QED
    BY <2>1 DEF Closed
<1>3. CASE Publish
  <2>1. PICK p \in Linked, s \in Page :
          /\ sibling' = [sibling EXCEPT ![p] = s] /\ sibling[s] = sibling[p] /\ s # p
    BY <1>3, PublishMoves
  <2>2. p \in Page /\ \A q \in Page : sibling'[q] = IF q = p THEN s ELSE sibling[q]
    BY <1>0, <2>1 DEF PageInv, PageTypes, Linked
  <2>3. ASSUME NEW h \in S, sibling[h] # Null PROVE sibling[h] \in S
    <3>1. CASE h # p
      BY <2>2, <2>3, <3>1 DEF Closed
    <3>2. CASE h = p
      <4>1. s \in S
        BY <2>1, <2>2, <3>2 DEF Closed
      <4>2. sibling'[s] = sibling[p]
        BY <2>1, <2>2
      <4>3. QED
        BY <2>3, <3>2, <4>1, <4>2 DEF Closed
    <3>3. QED
      BY <3>1, <3>2
  <2>4. QED
    BY <2>3 DEF Closed
<1>4. QED
  BY <1>1, <1>2, <1>3 DEF Write, StoreFast, Bump, Cut, MoveEnd, Shift, MoveKey,
                          SetKey, SetPtr, pageVars

LEMMA RightKept ==
  ASSUME LeafInv, Write
  PROVE  /\ \A p, q : q \in Right(p) => q \in Right(p)'
         /\ \A q \in Linked : q \in Linked'
         /\ RightInv'
<1> USE Constants
<1>0. PageInv /\ SortedInv
  BY DEF LeafInv
<1>1. \A p, q : q \in Right(p) => q \in Right(p)'
  <2> SUFFICES ASSUME NEW p, NEW q \in Right(p) PROVE q \in Right(p)'
    OBVIOUS
  <2>1. q \in Page /\ \A S \in SUBSET Page : p \in S /\ Closed(S) => q \in S
    BY DEF Right
  <2>2. \A S \in SUBSET Page : p \in S /\ Closed(S)' => q \in S
    BY <2>1, ClosedKept
  <2>3. QED
    BY <2>1, <2>2 DEF Right
<1>2. CASE Publish
  <2>1. PICK p \in Linked, s \in Page :
          p = w.page /\ sibling' = [sibling EXCEPT ![p] = s]
    BY <1>2, PublishMoves
  <2>2. p \in Page /\ sibling'[p] = s /\ s # Null
    BY <1>0, <2>1 DEF PageInv, PageTypes, Linked
  <2>3. Linked' = Linked \cup {s}
    <3>1. Linked' = Linked \cup {w.new}
      BY <1>0, <1>2, PublishSorted
    <3>2. w.new = s
      <4>1. sibling' = [sibling EXCEPT ![p] = w.new]
        BY <1>2, <2>1 DEF Publish
      <4>2. QED
        BY <1>0, <2>2, <4>1 DEF PageInv, PageTypes
    <3>3. QED
      BY <3>1, <3>2
  <2>4. p \in Right(First)'
    BY <1>1 DEF LeafInv, RightInv
  <2>5. s \in Right(First)'
    BY <2>2, <2>4 DEF Right, Closed
  <2>6. \A q \in Linked : q \in Right(First)'
    BY <1>1 DEF LeafInv, RightInv
  <2>7. QED
    BY <1>1, <2>3, <2>5, <2>6 DEF RightInv
<1>3. CASE Linked' = Linked
  BY <1>1, <1>3 DEF LeafInv, RightInv
<1>4. ASSUME NEW x \in Rec, NEW p \in Page, StoreSplit(x, p) PROVE Linked' = Linked
  <2>c. PICK c, m, s : c = Count(p) /\ m = c \div 2 /\ s = NewPage
    OBVIOUS
  <2>1. SplitOf(x, p, c, m, s)
    BY <1>0, <1>4, <2>c, SplitCopies
  <2>2. QED
    BY <2>1 DEF SplitOf
<1>5. QED
  BY <1>2, <1>3, <1>4, LinkSame
     DEF Write, StoreFast, Bump, Cut, MoveEnd, Shift, MoveKey, SetKey, SetPtr, pageVars

LEMMA WriteMoves ==
  ASSUME LeafInv, Write
  PROVE  /\ PtrMoves /\ HalfInv' /\ TwinInv'
         /\ \/ HoldsKept /\ \A q \in Linked : sibling'[q] = sibling[q]
            \/ \E p \in Linked, s \in Page :
                 /\ sibling' = [sibling EXCEPT ![p] = s]
                 /\ sibling[s] = sibling[p] /\ s # p
                 /\ \A q \in Linked : \A x \in Holds(q) :
                      x \in Holds(q)' \/ (q = p /\ x \in Holds(s)')
<1> USE Constants
<1>0. PageInv /\ SortedInv
  BY DEF LeafInv
<1>1. ASSUME NEW x \in Rec, NEW p \in Page, StoreFast(x, p)
      PROVE  PtrMoves /\ HoldsKept /\ HalfInv' /\ TwinInv' /\ sibling' = sibling
  BY <1>1, StoreFastMoves DEF StoreFast, pageVars
<1>2. ASSUME NEW x \in Rec, NEW p \in Page, StoreSplit(x, p)
      PROVE  /\ PtrMoves /\ HoldsKept /\ HalfInv' /\ TwinInv'
             /\ \A q \in Linked : sibling'[q] = sibling[q]
  <2>c. PICK c, m, s : c = Count(p) /\ m = c \div 2 /\ s = NewPage
    OBVIOUS
  <2>1. \A q \in Linked : sibling'[q] = sibling[q]
    <3>1. SplitOf(x, p, c, m, s)
      BY <1>0, <1>2, <2>c, SplitCopies
    <3>2. QED
      BY <3>1 DEF SplitOf
  <2>2. QED
    BY <1>2, <2>1, StoreSplitMoves
<1>3. CASE Publish
  <2>1. PtrMoves /\ HalfInv' /\ TwinInv'
    BY <1>3, PublishMoves
  <2>2. \E p \in Linked, s \in Page :
          /\ sibling' = [sibling EXCEPT ![p] = s]
          /\ sibling[s] = sibling[p] /\ s # p
          /\ \A q \in Linked : \A x \in Holds(q) :
               x \in Holds(q)' \/ (q = p /\ x \in Holds(s)')
    BY <1>3, PublishMoves
  <2>3. QED
    BY <2>1, <2>2
<1>4. CASE Bump
  BY <1>4, BumpMoves DEF Bump
<1>5. CASE Cut
  BY <1>5, CutMoves DEF Cut
<1>6. CASE MoveEnd \/ Shift \/ MoveKey \/ SetKey \/ SetPtr
  BY <1>6, EntryMoves DEF MoveEnd, Shift, MoveKey, SetKey, SetPtr
<1>7. QED
  BY <1>1, <1>2, <1>3, <1>4, <1>5, <1>6 DEF Write

LEMMA LeafStep ==
  ASSUME LeafInv, Write
  PROVE  LeafInv'
  BY WriteKeeps, SortedWrite, WriteMoves, RightKept DEF LeafInv

(* x is in a page to the right of p.                                       *)
Beyond(x, p) == sibling[p] # Null /\ \E q \in Right(sibling[p]) : x \in Holds(q)

LEMMA RightLinked ==
  ASSUME PageInv, NEW p \in Linked, NEW q \in Right(p)
  PROVE  q \in Linked
<1>1. Linked \in SUBSET Page /\ Closed(Linked)
  BY Constants DEF Linked, Closed, PageInv, PageTypes
<1>2. QED
  BY <1>1 DEF Right

(* What is reached from p's sibling by now is reached from p's sibling     *)
(* after the step.                                                         *)
LEMMA BeyondKept ==
  ASSUME LeafInv, Write, NEW x, NEW p \in Linked, Beyond(x, p)
  PROVE  Beyond(x, p)'
<1> USE Constants
<1>0. PageInv /\ SortedInv /\ p \in Page
  BY DEF LeafInv, Linked
<1>1. PageInv' /\ \A a, q : q \in Right(a) => q \in Right(a)'
  BY LeafStep, RightKept DEF LeafInv
<1>c. PICK c : c = sibling[p]
  OBVIOUS
<1>2. PICK q \in Right(c) : x \in Holds(q)
  BY <1>c DEF Beyond
<1>3. c \in Linked /\ c \in Page /\ q \in Linked /\ c # Null
  <2>1. c \in Page /\ c # Null
    BY <1>0, <1>c, RightNext DEF Beyond
  <2>2. c \in Linked
    BY <1>0, <1>c, <2>1 DEF Linked
  <2>3. QED
    BY <1>0, <2>1, <2>2, RightLinked
<1>4. CASE HoldsKept /\ \A h \in Linked : sibling'[h] = sibling[h]
  <2>1. x \in Holds(q)' /\ sibling'[p] = c /\ q \in Right(c)'
    BY <1>1, <1>2, <1>3, <1>4, <1>c DEF HoldsKept
  <2>2. QED
    BY <1>3, <2>1 DEF Beyond, Right
<1>5. CASE \E g \in Linked, s \in Page :
             /\ sibling' = [sibling EXCEPT ![g] = s]
             /\ sibling[s] = sibling[g] /\ s # g
             /\ \A h \in Linked : \A y \in Holds(h) :
                  y \in Holds(h)' \/ (h = g /\ y \in Holds(s)')
  <2>1. PICK g \in Linked, s \in Page :
             /\ sibling' = [sibling EXCEPT ![g] = s]
             /\ sibling[s] = sibling[g] /\ s # g
             /\ \A h \in Linked : \A y \in Holds(h) :
                  y \in Holds(h)' \/ (h = g /\ y \in Holds(s)')
    BY <1>5
  <2>2. \A h \in Page : sibling'[h] = IF h = g THEN s ELSE sibling[h]
    BY <1>0, <2>1 DEF PageInv, PageTypes, Linked
  <2>3. PICK d : d = sibling'[p]
    OBVIOUS
  <2>4. d # Null /\ c \in Right(d)'
    <3>1. CASE p = g
      <4>1. d = s /\ sibling'[s] = c
        BY <1>0, <1>c, <2>1, <2>2, <2>3, <3>1
      <4>2. QED
        BY <1>3, <2>1, <4>1 DEF Right, Closed
    <3>2. CASE p # g
      <4>1. d = c
        BY <1>0, <1>c, <2>2, <2>3, <3>2
      <4>2. QED
        BY <1>3, <4>1 DEF Right
    <3>3. QED
      BY <3>1, <3>2
  <2>5. q \in Right(c)'
    BY <1>1, <1>2
  <2>6. \E h : h \in Right(c)' /\ x \in Holds(h)'
    <3>1. CASE x \in Holds(q)'
      BY <2>5, <3>1
    <3>2. CASE q = g /\ x \in Holds(s)'
      <4>1. sibling'[q] = s /\ q \in Page
        BY <1>3, <2>2, <3>2 DEF Linked
      <4>2. s \in Right(c)'
        BY <2>1, <2>5, <4>1 DEF Right, Closed
      <4>3. QED
        BY <3>2, <4>2
    <3>3. QED
      BY <1>2, <1>3, <2>1, <3>1, <3>2
  <2>7. PICK h : h \in Right(c)' /\ x \in Holds(h)'
    BY <2>6
  <2>8. h \in Right(d)'
    BY <2>4, <2>7 DEF Right
  <2>9. QED
    BY <2>3, <2>4, <2>7, <2>8 DEF Beyond, Right
<1>6. QED
  BY <1>4, <1>5, WriteMoves

LEMMA LeadKept ==
  ASSUME LeafInv, Write, NEW x \in Rec, NEW p \in Linked, NEW i \in Slot, Lead(x, p, i)
  PROVE  Beyond(x, p)' \/ (Lead(x, p, i)' /\ (ptr'[p][i] = x => ptr[p][i] = x))
<1> USE Constants
<1>0. PageInv /\ SortedInv /\ p \in Page
  BY DEF LeafInv, Linked
<1>1. w.pc = "ptr" => x # w.rec
  <2> SUFFICES ASSUME w.pc = "ptr" PROVE x # w.rec
    OBVIOUS
  <2>1. x \in Content(p) /\ p \in Chain
    BY DEF Lead, Holds, Alive, Content, Chain
  <2>2. QED
    BY <1>0, <2>1 DEF SortedInv, Apart
<1>2. ASSUME NEW j \in Slot, ptr'[p][j] = x
      PROVE  ptr[p][j] = x \/ (j >= 1 /\ ptr[p][j - 1] = x)
  BY <1>1, <1>2, WriteMoves DEF PtrMoves
<1>3. \A j \in 0 .. i - 1 : ptr'[p][j] # x
  <2> SUFFICES ASSUME NEW j \in 0 .. i - 1, ptr'[p][j] = x PROVE FALSE
    OBVIOUS
  <2>1. j \in Slot /\ (j >= 1 => j - 1 \in 0 .. i - 1)
    OBVIOUS
  <2>2. QED
    BY <1>2, <2>1 DEF Lead
<1>4. ptr'[p][i] = x => ptr[p][i] = x
  <2>1. i >= 1 => i - 1 \in 0 .. i - 1
    OBVIOUS
  <2>2. QED
    BY <1>2, <2>1 DEF Lead
<1>5. x \in Holds(p)' \/ Beyond(x, p)'
  <2>1. CASE HoldsKept
    BY <2>1 DEF HoldsKept, Lead
  <2>2. CASE \E g \in Linked, s \in Page :
             /\ sibling' = [sibling EXCEPT ![g] = s]
             /\ sibling[s] = sibling[g] /\ s # g
             /\ \A h \in Linked : \A y \in Holds(h) :
                  y \in Holds(h)' \/ (h = g /\ y \in Holds(s)')
    <3>1. PICK g \in Linked, s \in Page :
             /\ sibling' = [sibling EXCEPT ![g] = s]
             /\ \A h \in Linked : \A y \in Holds(h) :
                  y \in Holds(h)' \/ (h = g /\ y \in Holds(s)')
      BY <2>2
    <3>2. CASE x \in Holds(p)'
      BY <3>2
    <3>3. CASE p = g /\ x \in Holds(s)'
      <4>1. sibling'[p] = s /\ s # Null
        BY <1>0, <3>1, <3>3 DEF PageInv, PageTypes
      <4>2. QED
        BY <3>1, <3>3, <4>1 DEF Beyond, Right
    <3>4. QED
      BY <3>1, <3>2, <3>3 DEF Lead
  <2>3. QED
    BY <2>1, <2>2, WriteMoves
<1>6. QED
  BY <1>3, <1>4, <1>5 DEF Lead

-----------------------------------------------------------------------------
(* What a scan v has of a record x of its range: when it begins page again *)
(* (Due) and from where it is (Now).                                       *)
Kept(v, x) == \E k \in 1 .. v.old : v.buf[k] = x
Got(v, x)  == \E k \in 1 .. Len(v.buf) : v.buf[k] = x
InR(v, x)  == Less(v.min, KeyOf[x]) /\ Less(KeyOf[x], v.max)

(* What it has read so far of an entry with x's pointer.                   *)
ReadSo(v, x) ==
  /\ v.pc = "key" => \A j \in 1 .. v.word - 1 : v.tmp[j] = KeyOf[x][j]
  /\ v.pc \in {"ptr", "left", "again"} => v.tmp = KeyOf[x]
  /\ v.pc \in {"left", "again"} => v.p = x

Coming(v, x) ==
  /\ v.pc \in {"key", "ptr", "left", "again", "test"}
  /\ Lead(x, v.page, v.i) /\ (ptr[v.page][v.i] = x => ReadSo(v, x))

Due(v, x) == v.pc # "ended" => Kept(v, x) \/ Lead(x, v.page, 0) \/ Beyond(x, v.page)
Now(v, x) ==
  v.pc # "page" => Got(v, x) \/ (v.pc # "ended" /\ Beyond(x, v.page)) \/ Coming(v, x)

ScanAt(v) ==
  /\ v.page \in Linked
  /\ v.pc = "test" => v.i >= 1 /\ v.word = 1
  /\ v.pc = "left" => v.i >= 1

MissesNot(v, x) == Due(v, x) /\ Now(v, x)

ScanInv ==
  /\ seen \in [before : SUBSET Rec, quiet : BOOLEAN]
  /\ \A v, B : v = r /\ B = seen.before =>
    /\ ScanAt(v)
    /\ v.pc \notin {"idle", "stopped"} => \A x \in B : InR(v, x) => MissesNot(v, x)

LEMMA MissesKept ==
  ASSUME LeafInv, Write, NEW v, NEW x \in Rec, ScanAt(v), v.i \in Slot, MissesNot(v, x)
  PROVE  MissesNot(v, x)'
<1> USE Constants
<1>p. PICK p, i : p = v.page /\ i = v.i
  OBVIOUS
<1>1. p \in Linked /\ i \in Slot
  BY <1>p DEF ScanAt
<1>2. Beyond(x, p) => Beyond(x, p)'
  BY <1>1, BeyondKept
<1>3. Due(v, x)'
  <2>1. Lead(x, p, 0) => Beyond(x, p)' \/ Lead(x, p, 0)'
    BY <1>1, LeadKept
  <2>2. Kept(v, x)' <=> Kept(v, x)
    BY DEF Kept
  <2>3. QED
    BY <1>2, <1>p, <2>1, <2>2 DEF Due, MissesNot
<1>4. Now(v, x)'
  <2>1. Got(v, x)' <=> Got(v, x)
    BY DEF Got
  <2>2. CASE Coming(v, x)
    <3>1. v.pc # "ended" /\ Lead(x, p, i)
      BY <1>p, <2>2 DEF Coming
    <3>2. Beyond(x, p)' \/ (Lead(x, p, i)' /\ (ptr'[p][i] = x => ptr[p][i] = x))
      BY <1>1, <3>1, LeadKept
    <3>3. ReadSo(v, x)' <=> ReadSo(v, x)
      BY DEF ReadSo
    <3>4. CASE Beyond(x, p)'
      BY <1>p, <3>1, <3>4 DEF Now
    <3>5. CASE Lead(x, p, i)' /\ (ptr'[p][i] = x => ptr[p][i] = x)
      <4>1. Coming(v, x)'
        BY <1>p, <2>2, <3>3, <3>5 DEF Coming
      <4>2. QED
        BY <4>1 DEF Now
    <3>6. QED
      BY <3>2, <3>4, <3>5
  <2>3. CASE ~Coming(v, x)
    BY <1>2, <1>p, <2>1, <2>3 DEF Now, MissesNot
  <2>4. QED
    BY <2>2, <2>3
<1>5. QED
  BY <1>3, <1>4 DEF MissesNot

LEMMA WriteScan ==
  ASSUME FastFairInv, LeafInv, ScanInv, Write
  PROVE  ScanInv'
<1>1. r' = r /\ seen'.before = seen.before /\ seen' \in [before : SUBSET Rec, quiet : BOOLEAN]
  <2>1. r' = r
    BY DEF Write, Writes, StoreFast, StoreSplit, Publish, Bump, Cut, MoveEnd, Shift,
           MoveKey, SetKey, SetPtr
  <2>2. seen' = seen \/ seen' = [seen EXCEPT !.quiet = FALSE]
    BY DEF Write, Writes, StoreFast, StoreSplit, Publish, Bump, Cut, MoveEnd, Shift,
           MoveKey, SetKey, SetPtr
  <2>3. QED
    BY <2>1, <2>2 DEF ScanInv
<1>2. ASSUME NEW v, NEW B, v = r, B = seen.before
      PROVE  /\ ScanAt(v)'
             /\ v.pc \notin {"idle", "stopped"} =>
                  \A x \in B : InR(v, x) => MissesNot(v, x)'
  <2>1. /\ ScanAt(v) /\ B \subseteq Rec /\ v.i \in Slot
        /\ v.pc \notin {"idle", "stopped"} => \A x \in B : InR(v, x) => MissesNot(v, x)
    BY <1>2 DEF ScanInv, FastFairInv, ScanTypes
  <2>2. ScanAt(v)'
    BY <2>1, RightKept DEF ScanAt
  <2>3. QED
    BY <2>1, <2>2, MissesKept
<1>3. \A v, x : InR(v, x)' <=> InR(v, x)
  BY DEF InR, Less
<1>4. QED
  BY <1>1, <1>2, <1>3 DEF ScanInv

-----------------------------------------------------------------------------
(* The steps of the scan: each lemma is about one record of the range.     *)
LEMMA LeadNext ==
  ASSUME NEW x, NEW p, NEW i \in Nat, Lead(x, p, i), ptr[p][i] # x
  PROVE  Lead(x, p, i + 1)
<1>1. \A j \in 0 .. (i + 1) - 1 : j = i \/ j \in 0 .. i - 1
  OBVIOUS
<1>2. QED
  BY <1>1 DEF Lead

(* What was put out stays out.                                             *)
LEMMA GrownKeeps ==
  ASSUME NEW v, NEW u, NEW x, v.old \in Nat, Len(v.buf) \in Nat, Len(u.buf) \in Nat,
         v.old <= Len(v.buf), Len(v.buf) <= Len(u.buf), u.old = v.old,
         \A k \in 1 .. Len(v.buf) : u.buf[k] = v.buf[k]
  PROVE  (Kept(v, x) => Kept(u, x)) /\ (Got(v, x) => Got(u, x))
<1>1. ASSUME Kept(v, x) PROVE Kept(u, x)
  <2>1. PICK k \in 1 .. v.old : v.buf[k] = x
    BY <1>1 DEF Kept
  <2>2. k \in 1 .. u.old /\ u.buf[k] = x
    BY <2>1
  <2>3. QED
    BY <2>2 DEF Kept
<1>2. ASSUME Got(v, x) PROVE Got(u, x)
  <2>1. PICK k \in 1 .. Len(v.buf) : v.buf[k] = x
    BY <1>2 DEF Got
  <2>2. k \in 1 .. Len(u.buf) /\ u.buf[k] = x
    BY <2>1
  <2>3. QED
    BY <2>2 DEF Got
<1>3. QED
  BY <1>1, <1>2

(* Going to the next entry is right unless x is in this one.               *)
LEMMA NextMisses ==
  ASSUME FastFairInv, LeafInv, NEW u, NEW x \in Rec, MissesNot(r, x),
         r.pc \in {"key", "ptr", "left", "again"},
         u.pc = "test", u.page = r.page, u.i = r.i + 1, u.old = r.old,
         r.old <= Len(u.buf), \A k \in 1 .. Len(r.buf) : u.buf[k] = r.buf[k],
         Len(u.buf) \in Nat, Len(r.buf) <= Len(u.buf),
         ptr[r.page][r.i] = x => Got(u, x)
  PROVE  MissesNot(u, x)
<1>1. r.i \in Nat /\ Len(r.buf) \in Nat /\ r.old \in Nat /\ r.old <= Len(r.buf)
  BY Constants DEF FastFairInv, ScanTypes, ScanInPage
<1>2. (Kept(r, x) => Kept(u, x)) /\ (Got(r, x) => Got(u, x))
  BY <1>1, GrownKeeps
<1>3. Due(u, x)
  BY <1>2 DEF Due, MissesNot
<1>4. Now(u, x)
  <2>1. CASE Coming(r, x) /\ ptr[r.page][r.i] # x
    <3>1. Lead(x, r.page, r.i + 1)
      BY <1>1, <2>1, LeadNext DEF Coming
    <3>2. ReadSo(u, x)
      BY DEF ReadSo
    <3>3. QED
      BY <3>1, <3>2 DEF Coming, Now
  <2>2. CASE ~(Coming(r, x) /\ ptr[r.page][r.i] # x)
    BY <1>2, <2>2 DEF Now, MissesNot, Coming
  <2>3. QED
    BY <2>1, <2>2
<1>5. QED
  BY <1>3, <1>4 DEF MissesNot

(* Staying at an entry is right when what is read of it is x's.            *)
LEMMA StayMisses ==
  ASSUME NEW v, NEW u, NEW x, MissesNot(v, x),
         v.pc \in {"key", "ptr", "left", "again", "test"},
         u.pc \in {"key", "ptr", "left", "again"},
         u.page = v.page, u.i = v.i, u.old = v.old, u.buf = v.buf,
         Lead(x, v.page, v.i) /\ ptr[v.page][v.i] = x /\ ReadSo(v, x) => ReadSo(u, x)
  PROVE  MissesNot(u, x)
<1>1. (Kept(u, x) <=> Kept(v, x)) /\ (Got(u, x) <=> Got(v, x))
  BY DEF Kept, Got
<1>2. Due(u, x)
  BY <1>1 DEF Due, MissesNot
<1>3. Coming(v, x) => Coming(u, x)
  BY DEF Coming
<1>4. QED
  BY <1>1, <1>2, <1>3 DEF Now, MissesNot

LEMMA EnterMisses ==
  ASSUME FastFairInv, EnterPage, NEW x, MissesNot(r, x)
  PROVE  MissesNot(r', x)
<1>1. /\ r.pc = "page" /\ r'.pc = "key" /\ r'.i = 0 /\ r'.word = 1
      /\ r'.page = r.page /\ r'.old = r.old /\ r'.buf = SubSeq(r.buf, 1, r.old)
  BY DEF EnterPage, FastFairInv, ScanTypes
<1>2. r.old \in Nat /\ r.old <= Len(r.buf) /\ r.buf \in Seq(Rec)
  BY DEF FastFairInv, ScanTypes, ScanInPage
<1>3. Len(r'.buf) = r.old /\ \A k \in 1 .. r.old : r'.buf[k] = r.buf[k]
  BY <1>1, <1>2
<1>4. Kept(r, x) => Kept(r', x) /\ Got(r', x)
  BY <1>1, <1>3 DEF Kept, Got
<1>5. ReadSo(r', x)
  BY <1>1 DEF ReadSo
<1>6. Due(r, x)
  BY DEF MissesNot
<1>7. Due(r', x)
  BY <1>1, <1>4, <1>6 DEF Due
<1>8. Now(r', x)
  BY <1>1, <1>4, <1>5, <1>6 DEF Due, Now, Coming
<1>9. QED
  BY <1>7, <1>8 DEF MissesNot

LEMMA ReadKeyMisses ==
  ASSUME FastFairInv, LeafInv, ScanAt(r), ReadKey, NEW x \in Rec, InR(r, x), MissesNot(r, x)
  PROVE  r'.pc = "stopped" \/ MissesNot(r', x)
<1> USE Constants
<1>p. PICK p, i, n, tmp :
        /\ p = r.page /\ i = r.i /\ n = r.word
        /\ tmp = [r.tmp EXCEPT ![n] = key[p][i][n]]
  OBVIOUS
<1>1. /\ r.pc = "key" /\ p \in Linked /\ p \in Page /\ i \in Slot /\ n \in Word
      /\ r.tmp \in Keys /\ key[p][i] \in Keys
  BY <1>p DEF ReadKey, ScanAt, Linked, FastFairInv, ScanTypes, PageInv, PageTypes
<1>2. tmp \in Keys
  BY <1>p, <1>1 DEF Keys
<1>3. Lead(x, p, i) /\ ptr[p][i] = x /\ ReadSo(r, x) =>
        \A j \in 1 .. n : tmp[j] = KeyOf[x][j]
  <2> SUFFICES ASSUME Lead(x, p, i), ptr[p][i] = x, ReadSo(r, x), NEW j \in 1 .. n
               PROVE  tmp[j] = KeyOf[x][j]
    OBVIOUS
  <2>1. key[p][i] = KeyOf[x]
    BY <1>1, LeadKey
  <2>2. j \in Word /\ (j # n => j \in 1 .. n - 1)
    BY <1>1 DEF Word
  <2>3. CASE j = n
    BY <1>p, <1>1, <2>1, <2>2, <2>3 DEF Keys
  <2>4. CASE j # n
    <3>1. r.tmp[j] = KeyOf[x][j]
      BY <1>1, <1>p, <2>2, <2>4 DEF ReadSo
    <3>2. QED
      BY <1>p, <1>1, <2>2, <2>4, <3>1 DEF Keys
  <2>5. QED
    BY <2>3, <2>4
<1>4. Lead(x, p, i) /\ ptr[p][i] = x /\ ReadSo(r, x) /\ n = NumWord => tmp = KeyOf[x]
  <2> SUFFICES ASSUME Lead(x, p, i), ptr[p][i] = x, ReadSo(r, x), n = NumWord
               PROVE  tmp = KeyOf[x]
    OBVIOUS
  <2>1. \A j \in Word : tmp[j] = KeyOf[x][j]
    BY <1>3 DEF Word
  <2>2. tmp \in [Word -> Nat] /\ KeyOf[x] \in [Word -> Nat]
    BY <1>2 DEF Keys
  <2>3. QED
    BY <2>1, <2>2
<1>5. CASE n < NumWord
  <2>1. r' = [r EXCEPT !.word = n + 1, !.tmp = tmp]
    BY <1>5, <1>p DEF ReadKey
  <2>2. /\ r'.pc = "key" /\ r'.page = p /\ r'.i = i /\ r'.old = r.old
        /\ r'.buf = r.buf /\ r'.word = n + 1 /\ r'.tmp = tmp
    BY <1>1, <1>p, <2>1 DEF FastFairInv, ScanTypes
  <2>3. (n + 1) - 1 = n
    BY <1>1 DEF Word
  <2>4. Lead(x, p, i) /\ ptr[p][i] = x /\ ReadSo(r, x) => ReadSo(r', x)
    BY <1>3, <2>2, <2>3 DEF ReadSo
  <2>5. QED
    BY <1>1, <1>p, <2>2, <2>4, StayMisses
<1>6. CASE ~(n < NumWord) /\ ~Less(r.min, tmp)
  <2>1. n = NumWord
    BY <1>1, <1>6 DEF Word
  <2>2. r' = NextEntry
    BY <1>6, <1>p, <2>1, ~(NumWord < NumWord) DEF ReadKey
  <2>3. /\ r'.pc = "test" /\ r'.page = r.page /\ r'.i = r.i + 1 /\ r'.old = r.old
        /\ r'.buf = r.buf
    BY <2>2 DEF NextEntry, FastFairInv, ScanTypes
  <2>4. ~(Lead(x, p, i) /\ ptr[p][i] = x /\ ReadSo(r, x))
    BY <1>4, <1>6, <2>1 DEF InR
  <2>5. CASE Coming(r, x)
    <3>1. ptr[p][i] # x
      BY <1>p, <2>4, <2>5 DEF Coming
    <3>2. r.old <= Len(r.buf) /\ Len(r.buf) \in Nat
      BY DEF FastFairInv, ScanTypes, ScanInPage
    <3>3. QED
      BY <1>1, <1>p, <2>3, <3>1, <3>2, NextMisses
  <2>6. CASE ~Coming(r, x)
    <3>1. (Kept(r', x) <=> Kept(r, x)) /\ (Got(r', x) <=> Got(r, x))
      BY <2>3 DEF Kept, Got
    <3>2. QED
      BY <1>1, <2>3, <2>6, <3>1 DEF MissesNot, Due, Now
  <2>7. QED
    BY <2>5, <2>6
<1>7. CASE ~(n < NumWord) /\ Less(r.min, tmp) /\ ~Less(tmp, r.max)
  <2>1. n = NumWord
    BY <1>1, <1>7 DEF Word
  <2>2. r' = [r EXCEPT !.pc = "stopped"]
    BY <1>7, <1>p, <2>1 DEF ReadKey
  <2>3. QED
    BY <2>2 DEF FastFairInv, ScanTypes
<1>8. CASE ~(n < NumWord) /\ Less(r.min, tmp) /\ Less(tmp, r.max)
  <2>1. n = NumWord
    BY <1>1, <1>8 DEF Word
  <2>2. r' = [r EXCEPT !.pc = "ptr", !.word = 1, !.tmp = tmp]
    BY <1>8, <1>p, <2>1 DEF ReadKey
  <2>3. /\ r'.pc = "ptr" /\ r'.page = p /\ r'.i = i /\ r'.old = r.old
        /\ r'.buf = r.buf /\ r'.tmp = tmp
    BY <1>1, <1>p, <2>2 DEF FastFairInv, ScanTypes
  <2>4. Lead(x, p, i) /\ ptr[p][i] = x /\ ReadSo(r, x) => ReadSo(r', x)
    BY <1>4, <2>1, <2>3 DEF ReadSo
  <2>5. QED
    BY <1>1, <1>p, <2>3, <2>4, StayMisses
<1>9. QED
  BY <1>5, <1>6, <1>7, <1>8

LEMMA ReadPtrMisses ==
  ASSUME FastFairInv, LeafInv, ScanAt(r), ReadPtr, NEW x \in Rec, MissesNot(r, x)
  PROVE  MissesNot(r', x)
<1> USE Constants
<1>p. PICK p, i, q : p = r.page /\ i = r.i /\ q = ptr[p][i]
  OBVIOUS
<1>1. r.pc = "ptr" /\ r.old <= Len(r.buf) /\ Len(r.buf) \in Nat
  BY DEF ReadPtr, FastFairInv, ScanTypes, ScanInPage
<1>2. CASE i = 0 /\ q = Null
  <2>1. r' = NextEntry
    BY <1>2, <1>p DEF ReadPtr
  <2>2. /\ r'.pc = "test" /\ r'.page = r.page /\ r'.i = r.i + 1 /\ r'.old = r.old
        /\ r'.buf = r.buf
    BY <2>1 DEF NextEntry, FastFairInv, ScanTypes
  <2>3. ptr[r.page][r.i] # x
    BY <1>2, <1>p
  <2>4. QED
    BY <1>1, <2>2, <2>3, NextMisses
<1>3. CASE ~(i = 0 /\ q = Null)
  <2>1. r' = [r EXCEPT !.p = q, !.pc = IF i = 0 THEN "again" ELSE "left"]
    BY <1>3, <1>p DEF ReadPtr
  <2>2. /\ r'.pc \in {"again", "left"} /\ r'.page = p /\ r'.i = i /\ r'.old = r.old
        /\ r'.buf = r.buf /\ r'.p = q /\ r'.tmp = r.tmp
    BY <1>p, <2>1 DEF FastFairInv, ScanTypes
  <2>3. ptr[p][i] = x /\ ReadSo(r, x) => ReadSo(r', x)
    BY <1>1, <1>p, <2>2 DEF ReadSo
  <2>4. QED
    BY <1>1, <1>p, <2>2, <2>3, StayMisses
<1>4. QED
  BY <1>2, <1>3

LEMMA ReadLeftMisses ==
  ASSUME FastFairInv, LeafInv, ScanAt(r), ReadLeft, NEW x \in Rec, MissesNot(r, x)
  PROVE  MissesNot(r', x)
<1> USE Constants
<1>p. PICK p, i : p = r.page /\ i = r.i
  OBVIOUS
<1>1. /\ r.pc = "left" /\ r.old <= Len(r.buf) /\ Len(r.buf) \in Nat
      /\ i >= 1 /\ i \in Nat
  BY <1>p DEF ReadLeft, FastFairInv, ScanTypes, ScanInPage, ScanAt
<1>2. CASE r.p = ptr[p][i - 1]
  <2>1. r' = NextEntry
    BY <1>2, <1>p DEF ReadLeft
  <2>2. /\ r'.pc = "test" /\ r'.page = r.page /\ r'.i = r.i + 1 /\ r'.old = r.old
        /\ r'.buf = r.buf
    BY <2>1 DEF NextEntry, FastFairInv, ScanTypes
  <2>3. CASE Coming(r, x)
    <3>1. i - 1 \in 0 .. i - 1
      BY <1>1
    <3>2. ptr[p][i] # x
      BY <1>1, <1>2, <1>p, <2>3, <3>1 DEF Coming, ReadSo, Lead
    <3>3. QED
      BY <1>1, <1>p, <2>2, <3>2, NextMisses
  <2>4. CASE ~Coming(r, x)
    <3>1. (Kept(r', x) <=> Kept(r, x)) /\ (Got(r', x) <=> Got(r, x))
      BY <2>2 DEF Kept, Got
    <3>2. QED
      BY <1>1, <2>2, <2>4, <3>1 DEF MissesNot, Due, Now
  <2>5. QED
    BY <2>3, <2>4
<1>3. CASE r.p # ptr[p][i - 1]
  <2>1. r' = [r EXCEPT !.pc = "again"]
    BY <1>3, <1>p DEF ReadLeft
  <2>2. /\ r'.pc = "again" /\ r'.page = p /\ r'.i = i /\ r'.old = r.old
        /\ r'.buf = r.buf /\ r'.p = r.p /\ r'.tmp = r.tmp
    BY <1>p, <2>1 DEF FastFairInv, ScanTypes
  <2>3. ReadSo(r, x) => ReadSo(r', x)
    BY <1>1, <2>2 DEF ReadSo
  <2>4. QED
    BY <1>1, <1>p, <2>2, <2>3, StayMisses
<1>4. QED
  BY <1>2, <1>3

LEMMA ReReadMisses ==
  ASSUME FastFairInv, LeafInv, ScanAt(r), ReReadKey, NEW x \in Rec, MissesNot(r, x)
  PROVE  MissesNot(r', x)
<1> USE Constants
<1>p. PICK p, i, n : p = r.page /\ i = r.i /\ n = r.word
  OBVIOUS
<1>1. /\ r.pc = "again" /\ r.old <= Len(r.buf) /\ Len(r.buf) \in Nat
      /\ n \in Word /\ i \in Slot /\ p \in Linked /\ r.p \in Rec \cup {Null}
      /\ r.buf \in Seq(Rec) /\ r.old \in Nat
  BY <1>p DEF ReReadKey, FastFairInv, ScanTypes, ScanInPage, ScanAt
<1>2. Lead(x, p, i) /\ ptr[p][i] = x /\ ReadSo(r, x) =>
        r.p = x /\ r.tmp[n] = key[p][i][n]
  BY <1>1, LeadKey DEF ReadSo
<1>3. CASE r.tmp[n] # key[p][i][n]
  <2>1. r' = NextEntry
    BY <1>3, <1>p DEF ReReadKey
  <2>2. /\ r'.pc = "test" /\ r'.page = r.page /\ r'.i = r.i + 1 /\ r'.old = r.old
        /\ r'.buf = r.buf
    BY <2>1 DEF NextEntry, FastFairInv, ScanTypes
  <2>3. CASE Coming(r, x)
    <3>1. ptr[p][i] # x
      BY <1>2, <1>3, <1>p, <2>3 DEF Coming
    <3>2. QED
      BY <1>1, <1>p, <2>2, <3>1, NextMisses
  <2>4. CASE ~Coming(r, x)
    <3>1. (Kept(r', x) <=> Kept(r, x)) /\ (Got(r', x) <=> Got(r, x))
      BY <2>2 DEF Kept, Got
    <3>2. QED
      BY <1>1, <2>2, <2>4, <3>1 DEF MissesNot, Due, Now
  <2>5. QED
    BY <2>3, <2>4
<1>4. CASE r.tmp[n] = key[p][i][n] /\ n < NumWord
  <2>1. r' = [r EXCEPT !.word = n + 1]
    BY <1>4, <1>p DEF ReReadKey
  <2>2. /\ r'.pc = "again" /\ r'.page = p /\ r'.i = i /\ r'.old = r.old
        /\ r'.buf = r.buf /\ r'.p = r.p /\ r'.tmp = r.tmp
    BY <1>1, <1>p, <2>1 DEF FastFairInv, ScanTypes
  <2>3. ReadSo(r, x) => ReadSo(r', x)
    BY <1>1, <2>2 DEF ReadSo
  <2>4. QED
    BY <1>1, <1>p, <2>2, <2>3, StayMisses
<1>5. CASE r.tmp[n] = key[p][i][n] /\ ~(n < NumWord)
  <2>b. PICK buf : buf = IF r.p = Null THEN r.buf ELSE Append(r.buf, r.p)
    OBVIOUS
  <2>1. r' = [NextEntry EXCEPT !.buf = buf]
    BY <1>5, <1>p, <2>b DEF ReReadKey, NextEntry, FastFairInv, ScanTypes
  <2>2. /\ r'.pc = "test" /\ r'.page = r.page /\ r'.i = r.i + 1 /\ r'.old = r.old
        /\ r'.buf = buf
    BY <2>1 DEF NextEntry, FastFairInv, ScanTypes
  <2>3. /\ Len(buf) \in Nat /\ Len(r.buf) <= Len(buf) /\ r.old <= Len(buf)
        /\ \A k \in 1 .. Len(r.buf) : buf[k] = r.buf[k]
        /\ r.p = x => buf[Len(r.buf) + 1] = x /\ Len(buf) = Len(r.buf) + 1
    <3>1. CASE r.p = Null
      BY <1>1, <2>b, <3>1
    <3>2. CASE r.p # Null
      <4>1. r.p \in Rec /\ buf = Append(r.buf, r.p)
        BY <1>1, <2>b, <3>2
      <4>2. /\ Len(buf) = Len(r.buf) + 1 /\ buf[Len(r.buf) + 1] = r.p
            /\ \A k \in 1 .. Len(r.buf) : buf[k] = r.buf[k]
        BY <1>1, <4>1
      <4>3. QED
        BY <1>1, <4>2
    <3>3. QED
      BY <3>1, <3>2
  <2>4. r.p = x => Got(r', x)
    <3>1. r.p = x => Len(r.buf) + 1 \in 1 .. Len(buf)
      BY <1>1, <2>3
    <3>2. QED
      BY <2>2, <2>3, <3>1 DEF Got
  <2>5. CASE Coming(r, x)
    <3>1. ptr[p][i] = x => Got(r', x)
      BY <1>2, <1>p, <2>4, <2>5 DEF Coming
    <3>2. ptr[r.page][r.i] = x => Got(r', x)
      BY <1>p, <3>1
    <3>3. \A k \in 1 .. Len(r.buf) : r'.buf[k] = r.buf[k]
      BY <2>2, <2>3
    <3>4. Len(r'.buf) \in Nat /\ Len(r.buf) <= Len(r'.buf) /\ r.old <= Len(r'.buf)
      BY <2>2, <2>3
    <3>5. /\ FastFairInv /\ LeafInv /\ x \in Rec /\ MissesNot(r, x)
          /\ r.pc \in {"key", "ptr", "left", "again"}
          /\ r'.pc = "test" /\ r'.page = r.page /\ r'.i = r.i + 1 /\ r'.old = r.old
      BY <1>1, <2>2
    <3>6. QED
      BY ONLY <3>2, <3>3, <3>4, <3>5, NextMisses
  <2>6. CASE ~Coming(r, x)
    <3>1. /\ r.old \in Nat /\ Len(r.buf) \in Nat /\ Len(r'.buf) \in Nat
          /\ r.old <= Len(r.buf) /\ Len(r.buf) <= Len(r'.buf) /\ r'.old = r.old
          /\ \A k \in 1 .. Len(r.buf) : r'.buf[k] = r.buf[k]
      BY <1>1, <2>2, <2>3
    <3>2. (Kept(r, x) => Kept(r', x)) /\ (Got(r, x) => Got(r', x))
      BY ONLY <3>1, GrownKeeps
    <3>3. QED
      BY <1>1, <2>2, <2>6, <3>2 DEF MissesNot, Due, Now
  <2>7. QED
    BY <2>5, <2>6
<1>6. QED
  BY <1>3, <1>4, <1>5

LEMMA TestMisses ==
  ASSUME FastFairInv, LeafInv, ScanAt(r), TestEntry, NEW x \in Rec, MissesNot(r, x)
  PROVE  MissesNot(r', x)
<1> USE Constants
<1>1. /\ r.pc = "test" /\ r.i >= 1 /\ r.word = 1 /\ r.i \in Slot /\ r.page \in Linked
      /\ r' = [r EXCEPT !.pc = IF ptr[r.page][r.i] # Null THEN "key" ELSE "check"]
  BY DEF TestEntry, FastFairInv, ScanTypes, ScanAt
<1>2. CASE ptr[r.page][r.i] # Null
  <2>1. /\ r'.pc = "key" /\ r'.page = r.page /\ r'.i = r.i /\ r'.old = r.old
        /\ r'.buf = r.buf /\ r'.word = 1
    BY <1>1, <1>2 DEF FastFairInv, ScanTypes
  <2>2. ReadSo(r', x)
    BY <2>1 DEF ReadSo
  <2>3. QED
    BY <1>1, <2>1, <2>2, StayMisses
<1>3. CASE ptr[r.page][r.i] = Null
  <2>1. /\ r'.pc = "check" /\ r'.page = r.page /\ r'.old = r.old /\ r'.buf = r.buf
    BY <1>1, <1>3 DEF FastFairInv, ScanTypes
  <2>2. ~Coming(r, x)
    BY <1>1, <1>3, NullEnds DEF Coming
  <2>3. (Kept(r', x) <=> Kept(r, x)) /\ (Got(r', x) <=> Got(r, x))
    BY <2>1 DEF Kept, Got
  <2>4. QED
    BY <1>1, <2>1, <2>2, <2>3 DEF MissesNot, Due, Now
<1>4. QED
  BY <1>2, <1>3

LEMMA CheckMisses ==
  ASSUME FastFairInv, CheckCounter, NEW x \in Rec, MissesNot(r, x)
  PROVE  MissesNot(r', x)
<1>1. /\ r.pc = "check" /\ r'.pc \in {"page", "hop"} /\ r'.page = r.page
      /\ r'.old = r.old /\ r'.buf = r.buf
  BY DEF CheckCounter, FastFairInv, ScanTypes
<1>2. (Kept(r', x) <=> Kept(r, x)) /\ (Got(r', x) <=> Got(r, x))
  BY <1>1 DEF Kept, Got
<1>3. ~Coming(r, x)
  BY <1>1 DEF Coming
<1>4. QED
  BY <1>1, <1>2, <1>3 DEF MissesNot, Due, Now

LEMMA BeyondStep ==
  ASSUME PageInv, NEW x, NEW p \in Linked, NEW q \in Right(p), x \in Holds(q)
  PROVE  Lead(x, p, 0) \/ Beyond(x, p)
<1>1. p \in Page
  BY Constants DEF Linked
<1>2. CASE q = p
  BY <1>2 DEF Lead
<1>3. CASE q # p
  BY <1>1, <1>3, RightStep DEF Beyond
<1>4. QED
  BY <1>2, <1>3

LEMMA HopMisses ==
  ASSUME FastFairInv, LeafInv, ScanAt(r), HopSibling, NEW x \in Rec, MissesNot(r, x)
  PROVE  MissesNot(r', x)
<1> USE Constants
<1>p. PICK p, c : p = r.page /\ c = sibling[p]
  OBVIOUS
<1>1. /\ r.pc = "hop" /\ p \in Linked /\ p \in Page /\ PageInv
  BY <1>p DEF HopSibling, ScanAt, Linked, LeafInv
<1>2. Got(r, x) \/ Beyond(x, p)
  BY <1>1, <1>p DEF MissesNot, Now, Coming
<1>3. CASE c = Null
  <2>1. r'.pc = "ended" /\ r'.buf = r.buf
    BY <1>3, <1>p DEF HopSibling, FastFairInv, ScanTypes
  <2>2. Got(r', x)
    BY <1>2, <1>3, <1>p, <2>1 DEF Got, Beyond
  <2>3. QED
    BY <2>1, <2>2 DEF MissesNot, Due, Now
<1>4. CASE c # Null
  <2>1. /\ r'.pc = "page" /\ r'.page = c /\ r'.old = Len(r.buf) /\ r'.buf = r.buf
    BY <1>4, <1>p DEF HopSibling, FastFairInv, ScanTypes
  <2>2. Got(r, x) => Kept(r', x)
    BY <2>1 DEF Got, Kept
  <2>3. Beyond(x, p) => Lead(x, c, 0) \/ Beyond(x, c)
    <3>1. c \in Linked
      <4>1. c \in Page
        BY <1>1, <1>4, <1>p, RightNext
      <4>2. QED
        BY <1>1, <1>p, <4>1 DEF Linked
    <3>2. QED
      BY <1>1, <1>p, <3>1, BeyondStep DEF Beyond
  <2>4. QED
    BY <1>2, <2>1, <2>2, <2>3 DEF MissesNot, Due, Now
<1>5. QED
  BY <1>3, <1>4

LEMMA StartMisses ==
  ASSUME FastFairInv, LeafInv, ScanStart, NEW x \in Indexed, InR(r', x)
  PROVE  MissesNot(r', x)
<1> USE Constants
<1>1. PICK b \in Bounds, p \in Linked :
         /\ p # First => ~Less(b[1], key[p][0])
         /\ r' = [r EXCEPT !.pc = "page", !.page = p, !.min = b[1], !.max = b[2]]
  BY DEF ScanStart
<1>2. r'.pc = "page" /\ r'.page = p /\ r'.min = b[1] /\ b[1] \in Keys
  BY <1>1 DEF FastFairInv, ScanTypes
<1>3. PICK q \in Linked : x \in Holds(q)
  BY IndexedHeld
<1>4. Less(b[1], KeyOf[x])
  BY <1>2 DEF InR
<1>5. q \in Right(p)
  BY <1>1, <1>2, <1>3, <1>4, StartsLeft
<1>6. Lead(x, p, 0) \/ Beyond(x, p)
  BY <1>3, <1>5, BeyondStep DEF LeafInv
<1>7. QED
  BY <1>2, <1>6 DEF MissesNot, Due, Now

LEMMA ScanMisses ==
  ASSUME FastFairInv, LeafInv, ScanAt(r), Scan, ~ScanStart,
         NEW x \in Rec, InR(r, x), MissesNot(r, x)
  PROVE  r'.pc = "stopped" \/ MissesNot(r', x)
  BY EnterMisses, ReadKeyMisses, ReadPtrMisses, ReadLeftMisses, ReReadMisses,
     TestMisses, CheckMisses, HopMisses DEF Scan

LEMMA ScanMoves ==
  ASSUME FastFairInv, ScanAt(r), Scan
  PROVE  ScanAt(r') /\ (~ScanStart => r.pc \notin {"idle", "stopped", "ended"}
                                      /\ r'.min = r.min /\ r'.max = r.max)
<1> USE Constants
<1>1. r \in [pc : {"idle", "page", "key", "ptr", "left", "again", "test", "check",
                    "hop", "stopped", "ended"},
             page : Page, i : Slot, word : Word, tmp : Keys, p : Rec \cup {Null},
             ctr : Nat, old : Nat, min : Keys, max : Keys, buf : Seq(Rec)]
  BY DEF FastFairInv, ScanTypes
<1>n. /\ NextEntry.pc = "test" /\ NextEntry.i = r.i + 1 /\ NextEntry.i >= 1
      /\ NextEntry.word = 1 /\ NextEntry.page = r.page
      /\ NextEntry.min = r.min /\ NextEntry.max = r.max
  BY <1>1 DEF NextEntry
<1>2. CASE ScanStart
  BY <1>1, <1>2 DEF ScanStart, ScanAt
<1>3. CASE EnterPage
  BY <1>1, <1>3 DEF EnterPage, ScanAt
<1>4. CASE ReadKey
  <2>1. r'.pc = "key" \/ r' = NextEntry \/ r'.pc \in {"stopped", "ptr"}
    BY <1>1, <1>4 DEF ReadKey
  <2>2. r' = NextEntry \/ (r'.page = r.page /\ r'.min = r.min /\ r'.max = r.max)
    BY <1>1, <1>4 DEF ReadKey
  <2>3. r.pc = "key"
    BY <1>4 DEF ReadKey
  <2>4. QED
    BY <1>n, <2>1, <2>2, <2>3 DEF ScanAt
<1>5. CASE ReadPtr
  <2>1. \/ r' = NextEntry
        \/ /\ r'.pc = IF r.i = 0 THEN "again" ELSE "left"
           /\ r'.page = r.page /\ r'.min = r.min /\ r'.max = r.max /\ r'.i = r.i
    BY <1>1, <1>5 DEF ReadPtr
  <2>2. r.pc = "ptr" /\ r.i \in Nat
    BY <1>1, <1>5 DEF ReadPtr
  <2>3. QED
    BY <1>n, <2>1, <2>2 DEF ScanAt
<1>6. CASE ReadLeft
  BY <1>1, <1>n, <1>6 DEF ReadLeft, ScanAt
<1>7. CASE ReReadKey
  <2>1. \/ r' = NextEntry
        \/ r' = [r EXCEPT !.word = @ + 1]
        \/ r' = [NextEntry EXCEPT !.buf = IF r.p = Null THEN @ ELSE Append(@, r.p)]
    BY <1>7 DEF ReReadKey
  <2>2. r.pc = "again"
    BY <1>7 DEF ReReadKey
  <2>3. CASE r' = NextEntry
    BY <1>n, <2>2, <2>3 DEF ScanAt
  <2>4. CASE r' = [r EXCEPT !.word = @ + 1]
    BY <1>1, <2>2, <2>4 DEF ScanAt
  <2>5. CASE r' = [NextEntry EXCEPT !.buf = IF r.p = Null THEN @ ELSE Append(@, r.p)]
    <3>1. /\ r'.pc = "test" /\ r'.i = r.i + 1 /\ r'.word = 1 /\ r'.page = r.page
          /\ r'.min = r.min /\ r'.max = r.max
      BY <1>1, <2>5 DEF NextEntry
    <3>2. r.i \in Nat
      BY <1>1
    <3>3. QED
      BY <2>2, <3>1, <3>2 DEF ScanAt
  <2>6. QED
    BY <2>1, <2>3, <2>4, <2>5
<1>8. CASE TestEntry \/ CheckCounter
  BY <1>1, <1>8 DEF TestEntry, CheckCounter, ScanAt
<1>9. CASE HopSibling
  <2>1. r.pc = "hop" /\ r.page \in Linked /\ r.page \in Page
    BY <1>9, <1>1 DEF HopSibling, ScanAt
  <2>2. /\ r'.pc \in {"ended", "page"} /\ r'.min = r.min /\ r'.max = r.max
        /\ r'.page = r.page \/ (sibling[r.page] # Null /\ r'.page = sibling[r.page])
    BY <1>1, <1>9 DEF HopSibling
  <2>3. sibling[r.page] # Null => sibling[r.page] \in Linked
    BY <2>1 DEF FastFairInv, PageInv, PageTypes, Linked
  <2>4. QED
    BY <2>1, <2>2, <2>3 DEF ScanAt
<1>10. QED
  BY <1>2, <1>3, <1>4, <1>5, <1>6, <1>7, <1>8, <1>9 DEF Scan

LEMMA LeafFrame ==
  ASSUME LeafInv, UNCHANGED <<pageVars, w>>
  PROVE  /\ LeafInv'
         /\ \A v : ScanAt(v)' <=> ScanAt(v)
         /\ \A v, x : MissesNot(v, x)' <=> MissesNot(v, x)
<1>1. UNCHANGED <<key, ptr, sibling, last, w>>
  BY DEF pageVars
<1>2. Linked' = Linked /\ \A p : Alive(p)' = Alive(p)
  BY <1>1, LinkSame DEF Alive, Live
<1>3. \A p : Holds(p)' = Holds(p)
  BY <1>1, <1>2 DEF Holds
<1>4. \A p, q : q \in Right(p)' <=> q \in Right(p)
  BY <1>1 DEF Right, Closed
<1>5. HalfInv' /\ TwinInv' /\ RightInv'
  BY <1>1, <1>2, <1>4 DEF LeafInv, HalfInv, TwinInv, RightInv
<1>6. PageInv' /\ SortedInv'
  BY PageFrame, SortedFrame DEF LeafInv
<1>7. \A x, p, i : Lead(x, p, i)' <=> Lead(x, p, i)
  BY <1>1, <1>3 DEF Lead
<1>8. \A x, p : Beyond(x, p)' <=> Beyond(x, p)
  BY <1>1, <1>3, <1>4 DEF Beyond
<1>9. ASSUME NEW v, NEW x PROVE MissesNot(v, x)' <=> MissesNot(v, x)
  <2>1. /\ Kept(v, x)' <=> Kept(v, x)
        /\ Got(v, x)' <=> Got(v, x)
        /\ ReadSo(v, x)' <=> ReadSo(v, x)
    BY DEF Kept, Got, ReadSo
  <2>2. Coming(v, x)' <=> Coming(v, x)
    BY <1>1, <1>7, <2>1 DEF Coming
  <2>3. QED
    BY <1>7, <1>8, <2>1, <2>2 DEF MissesNot, Due, Now
<1>10. QED
  BY <1>2, <1>5, <1>6, <1>9 DEF LeafInv, ScanAt

LEMMA IndexedRecords ==
  ASSUME PageInv
  PROVE  Indexed \subseteq Rec
<1> SUFFICES ASSUME NEW x \in Indexed PROVE x \in Rec
  OBVIOUS
<1>1. PICK p \in Linked : x \in Held(p)
  BY DEF Indexed
<1>2. PICK i \in 0 .. Count(p) - 1 : x = ptr[p][i]
  BY <1>1 DEF Held
<1>3. p \in Page
  BY <1>1, Constants DEF Linked
<1>4. i \in Slot
  BY <1>2, <1>3, CountInPage, Constants
<1>5. x # Null
  BY DEF Indexed
<1>6. QED
  BY <1>2, <1>3, <1>4, <1>5 DEF PageInv, PageTypes

LEMMA ScanScan ==
  ASSUME FastFairInv, LeafInv, ScanInv, Scan
  PROVE  ScanInv'
<1>0. /\ ScanAt(r) /\ seen \in [before : SUBSET Rec, quiet : BOOLEAN]
      /\ r.pc \notin {"idle", "stopped"} =>
           \A x \in seen.before : InR(r, x) => MissesNot(r, x)
  BY DEF ScanInv
<1>1. UNCHANGED <<pageVars, w>>
  BY DEF Scan, Scans, ScanStart, EnterPage, ReadKey, ReadPtr, ReadLeft,
         ReReadKey, TestEntry, CheckCounter, HopSibling
<1>2. ScanAt(r')
  BY <1>0, ScanMoves
<1>3. seen' \in [before : SUBSET Rec, quiet : BOOLEAN]
  <2>1. CASE ScanStart
    BY <2>1, IndexedRecords DEF ScanStart, LeafInv
  <2>2. CASE ~ScanStart
    BY <1>0, <2>2 DEF Scan, Scans, EnterPage, ReadKey, ReadPtr, ReadLeft,
                      ReReadKey, TestEntry, CheckCounter, HopSibling
  <2>3. QED
    BY <2>1, <2>2
<1>4. ASSUME r'.pc \notin {"idle", "stopped"}, NEW x \in seen'.before, InR(r', x)
      PROVE  MissesNot(r', x)
  <2>1. CASE ScanStart
    <3>1. x \in Indexed
      BY <1>4, <2>1 DEF ScanStart
    <3>2. QED
      BY <1>4, <2>1, <3>1, StartMisses
  <2>2. CASE ~ScanStart
    <3>1. seen' = seen
      BY <2>2 DEF Scan, Scans, EnterPage, ReadKey, ReadPtr, ReadLeft,
                  ReReadKey, TestEntry, CheckCounter, HopSibling
    <3>2. /\ r.pc \notin {"idle", "stopped", "ended"}
          /\ r'.min = r.min /\ r'.max = r.max
      BY <1>0, <2>2, ScanMoves
    <3>3. InR(r, x) /\ x \in seen.before /\ x \in Rec
      BY <1>0, <1>4, <3>1, <3>2 DEF InR
    <3>4. MissesNot(r, x)
      BY <1>0, <3>2, <3>3
    <3>5. QED
      BY <1>0, <1>4, <2>2, <3>3, <3>4, ScanMisses
  <2>3. QED
    BY <2>1, <2>2
<1>5. \A v, x : InR(v, x)' <=> InR(v, x)
  BY DEF InR, Less
<1>6. ASSUME NEW v, NEW B, v = r', B = seen'.before
      PROVE  /\ ScanAt(v)'
             /\ v.pc \notin {"idle", "stopped"} =>
                  \A x \in B : InR(v, x)' => MissesNot(v, x)'
  <2>1. ScanAt(v) /\ (v.pc \notin {"idle", "stopped"} =>
                        \A x \in B : InR(v, x) => MissesNot(v, x))
    BY <1>2, <1>4, <1>6
  <2>2. QED
    BY <1>1, <1>5, <2>1, LeafFrame
<1>7. QED
  BY <1>3, <1>6 DEF ScanInv

LEMMA ScanInit == Init => LeafInv /\ ScanInv
<1> SUFFICES ASSUME Init PROVE LeafInv /\ ScanInv
  OBVIOUS
<1>1. PageInv /\ SortedInv
  BY InvInit, SortedInit DEF FastFairInv
<1>2. w.pc = "idle" /\ r.pc = "idle" /\ r.page = First /\ First \in Linked
  BY DEF Init, IdleWriter, IdleScan, Linked
<1>3. Linked = {First}
  BY Constants DEF Init, Linked
<1>4. RightInv
  BY <1>3, RightSelf, Constants DEF RightInv
<1>5. HalfInv /\ TwinInv
  BY <1>2 DEF HalfInv, TwinInv, Splitting, Entry
<1>6. seen = [before |-> {}, quiet |-> TRUE]
  BY DEF Init
<1>7. ScanInv
  BY <1>2, <1>6 DEF ScanInv, ScanAt
<1>8. QED
  BY <1>1, <1>4, <1>5, <1>7 DEF LeafInv

LEMMA ScanStep ==
  FastFairInv /\ LeafInv /\ ScanInv /\ [Next]_vars => LeafInv' /\ ScanInv'
<1> SUFFICES ASSUME FastFairInv, LeafInv, ScanInv, [Next]_vars
             PROVE  LeafInv' /\ ScanInv'
  OBVIOUS
<1>1. CASE Write
  BY <1>1, LeafStep, WriteScan
<1>2. CASE Scan
  <2>1. UNCHANGED <<pageVars, w>>
    BY <1>2 DEF Scan, Scans, ScanStart, EnterPage, ReadKey, ReadPtr, ReadLeft,
                ReReadKey, TestEntry, CheckCounter, HopSibling
  <2>2. QED
    BY <1>2, <2>1, LeafFrame, ScanScan
<1>3. CASE UNCHANGED vars
  <2>1. UNCHANGED <<pageVars, w>> /\ r' = r /\ seen' = seen
    BY <1>3 DEF vars
  <2>2. /\ LeafInv' /\ \A v : ScanAt(v)' <=> ScanAt(v)
        /\ \A v, x : MissesNot(v, x)' <=> MissesNot(v, x)
    BY <2>1, LeafFrame
  <2>3. \A v, x : InR(v, x)' <=> InR(v, x)
    BY DEF InR, Less
  <2>4. QED
    BY <2>1, <2>2, <2>3 DEF ScanInv
<1>4. QED
  BY <1>1, <1>2, <1>3 DEF Next

(* A scan that walks to the end of the leaves has every record of its      *)
(* range that was indexed when it began, for every page size, key length,  *)
(* number of pages and sequence of shifts and splits that it runs into,    *)
(* although it takes no lock (linear_search_range against store and        *)
(* insert_key).                                                            *)
THEOREM EndedScansMissNothing == Spec => []EndedScanMissesNothing
<1>1. Spec => [](LeafInv /\ ScanInv)
  BY ScanInit, ScanStep, Invariant, PTL DEF Spec
<1>2. ScanInv => EndedScanMissesNothing
  <2> SUFFICES ASSUME ScanInv, r.pc = "ended", NEW x \in seen.before, InRange(x)
               PROVE  Found(x)
    BY DEF EndedScanMissesNothing
  <2>1. Now(r, x)
    BY DEF ScanInv, InR, InRange, MissesNot
  <2>2. QED
    BY <2>1 DEF Now, Coming, Got, Found
<1>3. QED
  BY <1>1, <1>2, PTL

-----------------------------------------------------------------------------
(* While a scan has seen no write: the writer is idle or about to begin,   *)
(* and every leaf is in order up to its last entry.                        *)
Still == w.pc \in {"idle", "publish", "end"} \/ (w.pc = "key" /\ w.n = 0)

LEMMA StillPage ==
  ASSUME LeafInv, Still, NEW p \in Linked
  PROVE  /\ p \in Page /\ last[p] \in -1 .. Card - 2 /\ Alive(p) = 0 .. last[p]
         /\ InOrder(key[p], ptr[p], 0 .. last[p])
         /\ key[p] \in [Slot -> Keys] /\ ptr[p] \in [Slot -> Rec \cup {Null}]
         /\ ptr[p][last[p] + 1] = Null
         /\ last[p] = -1 => p = First /\ ptr[p][1] = Null
<1> USE Constants
<1>0. PageInv /\ SortedInv /\ HalfInv /\ TwinInv
  BY DEF LeafInv
<1>1. /\ p \in Page /\ p \in Chain /\ last[p] \in -1 .. Card - 2
      /\ InOrder(key[p], ptr[p], Alive(p))
      /\ key[p] \in [Slot -> Keys] /\ ptr[p] \in [Slot -> Rec \cup {Null}]
  BY <1>0, AliveIs DEF Chain
<1>2. last[p] = -1 => p = First /\ ptr[p][1] = Null
  BY <1>0, <1>1 DEF SortedInv, EndInv, PageInv, NotEmpty
<1>3. CASE w.pc = "idle" \/ p # w.page
  <2>1. Alive(p) = 0 .. last[p]
    BY <1>3 DEF Alive, Live, Splitting, Entry
  <2>2. ptr[p][last[p] + 1] = Null
    BY <1>0, <1>1, <1>3 DEF SortedInv, EndInv
  <2>3. QED
    BY <1>1, <1>2, <2>1, <2>2
<1>4. CASE w.pc = "publish" /\ p = w.page
  <2>1. Alive(p) = 0 .. last[p] /\ ptr[p][last[p] + 1] = Null
    BY <1>0, <1>4 DEF Alive, HalfInv, Splitting
  <2>2. QED
    BY <1>1, <1>2, <2>1
<1>5. CASE w.pc \in {"end", "key"} /\ p = w.page
  <2>p. PICK n, h : n = w.n /\ h = w.hole
    OBVIOUS
  <2>1. w.pc \in Entry
    BY <1>5 DEF Entry
  <2>2. Live(p) = (0 .. n) \ {h} /\ n = last[p] + 1 /\ h <= n /\ h \in Nat /\ n \in Nat
    BY <1>0, <1>5, <2>1, <2>p, EntryIs
  <2>3. h = n /\ ptr[p][n] = Null
    <3>1. CASE w.pc = "end"
      BY <1>0, <1>5, <2>1, <2>p, <3>1
         DEF SortedInv, HoleInv, HoleAt, PageInv, HoleInPage
    <3>2. CASE w.pc = "key"
      <4>1. n = 0 /\ h = 0
        BY <2>2, <2>p, <3>2 DEF Still
      <4>2. TwinAt("key", key[p], ptr[p], n, h)
        BY <1>0, <1>5, <2>1, <2>p, <3>2 DEF TwinInv
      <4>3. QED
        BY <4>1, <4>2 DEF TwinAt
    <3>3. QED
      BY <1>5, <3>1, <3>2
  <2>4. Alive(p) = 0 .. last[p]
    <3>1. (0 .. n) \ {n} = 0 .. n - 1
      BY <2>2
    <3>2. Alive(p) = Live(p)
      BY <1>5 DEF Alive
    <3>3. last[p] = n - 1
      BY <1>1, <2>2
    <3>4. QED
      BY <2>2, <2>3, <3>1, <3>2, <3>3
  <2>5. QED
    BY <1>1, <1>2, <2>2, <2>3, <2>4
<1>6. QED
  BY <1>3, <1>4, <1>5 DEF Still

(* No two pages have the same sibling.                                     *)
JoinInv == \A p, q \in Linked : sibling[p] # Null /\ sibling[p] = sibling[q] => p = q

LEMMA JoinKept ==
  ASSUME LeafInv, JoinInv, Write
  PROVE  JoinInv'
<1> USE Constants
<1>0. PageInv /\ SortedInv /\ Linked \subseteq Page
  BY DEF LeafInv, Linked
<1>1. CASE sibling' = sibling
  BY <1>1, LinkSame DEF JoinInv
<1>2. ASSUME NEW x \in Rec, NEW p \in Page, StoreSplit(x, p)
      PROVE  JoinInv'
  <2>c. PICK c, m, s : c = Count(p) /\ m = c \div 2 /\ s = NewPage
    OBVIOUS
  <2>1. SplitOf(x, p, c, m, s)
    BY <1>0, <1>2, <2>c, SplitCopies
  <2>2. Linked' = Linked /\ \A q \in Linked : sibling'[q] = sibling[q]
    BY <2>1 DEF SplitOf
  <2>3. QED
    BY <2>2 DEF JoinInv
<1>3. CASE Publish
  <2>1. PICK p \in Linked, s \in Page :
          /\ p = w.page /\ sibling' = [sibling EXCEPT ![p] = s]
          /\ sibling[s] = sibling[p] /\ s # p
    BY <1>3, PublishMoves
  <2>2. w.new = s /\ w.pc = "publish"
    BY <1>0, <1>3, <2>1 DEF Publish, PageInv, PageTypes
  <2>3. s \notin Linked /\ Linked' = Linked \cup {s}
    BY <1>0, <1>3, <2>2, PublishSorted DEF SortedInv, SplitInv, Splitting
  <2>4. \A h \in Page : sibling'[h] = (IF h = p THEN s ELSE sibling[h]) /\ sibling[h] # s
    BY <1>0, <2>1, <2>3 DEF PageInv, PageTypes, Linked
  <2>5. ASSUME NEW g \in Linked', NEW h \in Linked', sibling'[g] # Null,
               sibling'[g] = sibling'[h]
        PROVE  g = h
    BY <1>0, <2>1, <2>3, <2>4, <2>5 DEF JoinInv
  <2>6. QED
    BY <2>5 DEF JoinInv
<1>4. QED
  BY <1>1, <1>2, <1>3 DEF Write, StoreFast, Bump, Cut, MoveEnd, Shift, MoveKey,
                          SetKey, SetPtr, pageVars

(* The chain of siblings does not come back.                               *)
LEMMA NeverBack ==
  ASSUME LeafInv, JoinInv, NEW p \in Linked, sibling[p] # Null
  PROVE  p \notin Right(sibling[p])
<1> USE Constants
<1> SUFFICES ASSUME p \in Right(sibling[p]) PROVE FALSE
  OBVIOUS
<1>0. /\ PageInv /\ SortedInv /\ RightInv /\ Linked \subseteq Page /\ First \in Linked
      /\ \A h \in Page : sibling[h] # First /\ sibling[h] \in Page \cup {Null}
  BY DEF LeafInv, Linked, SortedInv, ChainInv, PageInv, PageTypes
<1>c. PICK c : c = sibling[p]
  OBVIOUS
<1>1. c \in Linked /\ c # First /\ c \in Right(c)
  BY <1>0, <1>c, RightSelf DEF Linked
<1>2. ASSUME NEW g \in Right(c), g # c
      PROVE  \E h \in Right(c) : sibling[h] = g
  <2> SUFFICES ASSUME \A h \in Right(c) : sibling[h] # g PROVE FALSE
    OBVIOUS
  <2>1. Closed(Right(c) \ {g})
    <3> SUFFICES ASSUME NEW h \in Right(c) \ {g}, sibling[h] # Null
                 PROVE  sibling[h] \in Right(c) \ {g}
      BY DEF Closed
    <3>1. h \in Page
      BY DEF Right
    <3>2. sibling[h] \in Right(h)
      BY <1>0, <3>1, RightNext
    <3>3. sibling[h] \in Right(c)
      BY <3>2, RightTrans
    <3>4. QED
      BY <3>3
  <2>2. Right(c) \ {g} \in SUBSET Page /\ c \in Right(c) \ {g}
    BY <1>1, <1>2 DEF Right
  <2>3. g \in Right(c) \ {g}
    BY <2>1, <2>2 DEF Right
  <2>4. QED
    BY <2>3
<1>3. First \notin Right(c)
  BY <1>0, <1>1, <1>2 DEF Right
<1>4. Closed(Linked \ Right(c))
  <2> SUFFICES ASSUME NEW h \in Linked \ Right(c), sibling[h] # Null,
                      sibling[h] \notin Linked \ Right(c)
               PROVE  FALSE
    BY DEF Closed
  <2>1. sibling[h] \in Linked /\ sibling[h] \in Right(c)
    BY <1>0 DEF Linked
  <2>2. CASE sibling[h] = c
    BY <1>c, <2>2 DEF JoinInv
  <2>3. CASE sibling[h] # c
    <3>1. PICK g \in Right(c) : sibling[g] = sibling[h]
      BY <1>2, <2>1, <2>3
    <3>2. g \in Linked
      BY <1>0, <1>1, RightLinked
    <3>3. QED
      BY <3>1, <3>2 DEF JoinInv
  <2>4. QED
    BY <2>2, <2>3
<1>5. c \in Linked \ Right(c)
  <2>1. Linked \ Right(c) \in SUBSET Page /\ First \in Linked \ Right(c)
    BY <1>0, <1>3
  <2>2. c \in Right(First)
    BY <1>0, <1>1 DEF RightInv
  <2>3. QED
    BY <1>4, <2>1, <2>2 DEF Right
<1>6. QED
  BY <1>1, <1>5

LEMMA HoldsApart ==
  ASSUME LeafInv, NEW p \in Linked, NEW q \in Linked, p # q
  PROVE  Holds(p) \cap Holds(q) = {}
<1> USE Constants
<1>0. PageInv /\ SortedInv /\ HalfInv
  BY DEF LeafInv
<1>1. ASSUME NEW g \in Linked, NEW x \in Holds(g)
      PROVE  \/ x \in Content(g)
             \/ w.pc = "publish" /\ g = w.page /\ x \in Content(w.new)
  <2>1. PICK k \in Alive(g) : x = ptr[g][k]
    BY DEF Holds
  <2>2. CASE ~(w.pc = "publish" /\ g = w.page)
    BY <2>1, <2>2 DEF Alive, Content
  <2>3. CASE w.pc = "publish" /\ g = w.page
    <3>p. PICK s, n : s = w.new /\ n = w.n
      OBVIOUS
    <3>1. w.pc \in Splitting
      BY <2>3 DEF Splitting
    <3>2. /\ n \in 1 .. Card - 2 /\ last[s] \in 0 .. Card - 3
          /\ Live(g) = 0 .. n - 1 /\ Live(s) = 0 .. last[s]
      BY <1>0, <2>3, <3>1, <3>p, SplitIs
    <3>3. /\ last[g] = n + last[s]
          /\ \A i \in 0 .. last[s] : ptr[s][i] = ptr[g][n + i]
      BY <1>0, <2>3, <3>1, <3>p DEF HalfInv
    <3>4. k \in 0 .. n + last[s]
      BY <2>1, <2>3, <3>3 DEF Alive
    <3>5. CASE k < n
      <4>1. k \in Live(g)
        BY <3>2, <3>4, <3>5
      <4>2. QED
        BY <2>1, <4>1 DEF Content
    <3>6. CASE ~(k < n)
      <4>1. k - n \in 0 .. last[s] /\ n + (k - n) = k
        BY <3>2, <3>4, <3>6
      <4>2. ptr[s][k - n] = x /\ k - n \in Live(s)
        BY <2>1, <3>2, <3>3, <4>1
      <4>3. x \in Content(s)
        BY <4>2 DEF Content
      <4>4. QED
        BY <2>3, <3>p, <4>3
    <3>7. QED
      BY <3>5, <3>6
  <2>4. QED
    BY <2>2, <2>3
<1>2. /\ p \in Chain /\ q \in Chain
      /\ w.pc = "publish" => w.new \in Chain /\ w.new \notin Linked
  BY <1>0 DEF Chain, SortedInv, SplitInv, Splitting
<1>3. ASSUME NEW x \in Holds(p), x \in Holds(q) PROVE FALSE
  BY <1>0, <1>1, <1>2, <1>3 DEF SortedInv, Apart
<1>4. QED
  BY <1>3

(* What comes after a page is neither in it nor below its records.         *)
LEMMA BeyondAbove ==
  ASSUME LeafInv, JoinInv, NEW p \in Linked, NEW x \in Holds(p), NEW y, Beyond(y, p)
  PROVE  y \in Rec /\ y # x /\ ~Less(KeyOf[y], KeyOf[x])
<1> USE Constants
<1>0. /\ PageInv /\ SortedInv /\ Linked \subseteq Page
      /\ \A h \in Page : sibling[h] # First /\ sibling[h] \in Page \cup {Null}
  BY DEF LeafInv, Linked, SortedInv, ChainInv, PageInv, PageTypes
<1>c. PICK c : c = sibling[p]
  OBVIOUS
<1>1. c \in Linked /\ c # First /\ c # Null /\ c \in Page
  BY <1>0, <1>c DEF Linked, Beyond
<1>2. PICK q \in Right(c) : y \in Holds(q)
  BY <1>c DEF Beyond
<1>3. q \in Linked /\ q # p /\ y \in Rec /\ x \in Rec
  <2>1. q \in Linked
    BY <1>0, <1>1, RightLinked
  <2>2. q # p
    BY <1>1, <1>2, <1>c, NeverBack
  <2>3. QED
    BY <1>2, <2>1, <2>2, HoldsBelow
<1>4. y # x
  BY <1>2, <1>3, HoldsApart
<1>5. ASSUME NEW g \in Linked, g # First
      PROVE  /\ key[g][0] \in Keys /\ ptr[g][0] \in Holds(g) /\ key[g][0] = KeyOf[ptr[g][0]]
             /\ \A z \in Holds(g) : z \in Rec /\ ~Less(KeyOf[z], key[g][0])
  <2>1. 0 \in Alive(g)
    BY <1>5, FirstSlot
  <2>2. InOrder(key[g], ptr[g], Alive(g)) /\ key[g] \in [Slot -> Keys] /\ Alive(g) \subseteq Slot
    BY <1>0, AliveIs DEF LeafInv
  <2>3. key[g][0] \in Keys /\ ptr[g][0] \in Holds(g) /\ key[g][0] = KeyOf[ptr[g][0]]
    BY <2>1, <2>2 DEF InOrder, Holds
  <2>4. ASSUME NEW z \in Holds(g) PROVE z \in Rec /\ ~Less(KeyOf[z], key[g][0])
    <3>1. PICK k \in Alive(g) : z = ptr[g][k]
      BY DEF Holds
    <3>2. z \in Rec /\ key[g][k] = KeyOf[z]
      BY <2>2, <3>1 DEF InOrder
    <3>3. CASE k = 0
      BY <2>3, <3>2, <3>3, LessIrreflexive
    <3>4. CASE k # 0
      <4>1. 0 < k
        BY <2>2, <3>1, <3>4
      <4>2. QED
        BY <2>1, <2>2, <3>1, <3>2, <4>1 DEF InOrder
    <3>5. QED
      BY <3>2, <3>3, <3>4
  <2>5. QED
    BY <2>3, <2>4
<1> DEFINE S == {g \in Linked : g # First /\ ~Less(key[g][0], key[c][0])}
<1>6. c \in S
  BY <1>1, <1>5, LessIrreflexive
<1>7. ASSUME NEW g \in S, sibling[g] # Null PROVE sibling[g] \in S
  <2>d. PICK d : d = sibling[g]
    OBVIOUS
  <2>1. d \in Linked /\ d # First /\ d # Null
    BY <1>0, <1>7, <2>d DEF Linked
  <2>2. ptr[g][0] \in Holds(g) /\ key[g][0] = KeyOf[ptr[g][0]] /\ key[g][0] \in Keys
    BY <1>5
  <2>3. ~Less(key[d][0], key[g][0])
    BY <2>1, <2>2, <2>d, HoldsBelow DEF NotAbove
  <2>4. ~Less(key[d][0], key[c][0])
    <3>1. key[d][0] \in Keys /\ key[c][0] \in Keys /\ ~Less(key[g][0], key[c][0])
      BY <1>1, <1>5, <2>1
    <3>2. QED
      BY <2>2, <2>3, <3>1, NotLessTrans
  <2>5. QED
    BY <2>1, <2>4, <2>d
<1>8. q \in S
  <2> HIDE DEF S
  <2>1. Closed(S)
    BY <1>7 DEF Closed
  <2>2. S \in SUBSET Page
    BY <1>0 DEF S
  <2>3. QED
    BY <1>6, <2>1, <2>2, <1>2 DEF Right
<1>9. ~Less(KeyOf[y], key[c][0])
  <2>1. ~Less(KeyOf[y], key[q][0]) /\ key[q][0] \in Keys /\ ~Less(key[q][0], key[c][0])
    BY <1>2, <1>5, <1>8
  <2>2. KeyOf[y] \in Keys /\ key[c][0] \in Keys
    BY <1>1, <1>3, <1>5
  <2>3. QED
    BY <2>1, <2>2, NotLessTrans
<1>10. ~Less(key[c][0], KeyOf[x])
  BY <1>1, <1>c, HoldsBelow DEF NotAbove
<1>11. ~Less(KeyOf[y], KeyOf[x])
  <2>1. KeyOf[y] \in Keys /\ key[c][0] \in Keys /\ KeyOf[x] \in Keys
    BY <1>1, <1>3, <1>5
  <2>2. QED
    BY <1>9, <1>10, <2>1, NotLessTrans
<1>12. QED
  BY <1>3, <1>4, <1>11

-----------------------------------------------------------------------------
(* A step after which every leaf is what it was.                           *)
Same ==
  /\ Linked' = Linked
  /\ \A p \in Linked :
       /\ key'[p] = key[p] /\ ptr'[p] = ptr[p] /\ last'[p] = last[p]
       /\ sibling'[p] = sibling[p] /\ counter'[p] = counter[p]
       /\ Holds(p)' = Holds(p)

LEMMA StoreSame ==
  ASSUME LeafInv, NEW x \in Rec, NEW p \in Page, StoreFast(x, p) \/ StoreSplit(x, p)
  PROVE  Same /\ Still'
<1> USE Constants
<1>0. PageInv /\ SortedInv /\ Linked \subseteq Page
  BY DEF LeafInv, Linked
<1>n. PICK n : n = Count(p)
  OBVIOUS
<1>1. w.pc = "idle" /\ p \in Linked /\ n = last[p] + 1 /\ last[p] \in -1 .. Card - 2
  BY <1>0, <1>n, IdleCount DEF StoreFast, StoreSplit, IsTarget, PageInv, PageTypes
<1>2. \A q \in Linked : Alive(q) = 0 .. last[q]
  BY <1>1 DEF Alive, Live, Splitting, Entry
<1>3. CASE StoreFast(x, p)
  <2>1. w' = Entering(x, p, n) /\ UNCHANGED pageVars
    BY <1>3, <1>n DEF StoreFast
  <2>2. /\ w'.pc = (IF n = 0 THEN "key" ELSE "end") /\ w'.page = p
        /\ w'.n = n /\ w'.hole = n
        /\ w'.pc \in Entry /\ w'.pc \notin Splitting /\ w'.pc # "publish"
    BY <2>1 DEF Entering, IdleWriter, Entry, Splitting
  <2>3. Still'
    BY <2>2 DEF Still
  <2>4. \A q \in Linked : Alive(q)' = 0 .. last[q]
    <3> SUFFICES ASSUME NEW q \in Linked PROVE Alive(q)' = 0 .. last[q]
      OBVIOUS
    <3>1. CASE q = p
      <4>1. Alive(q)' = (0 .. n) \ {n}
        BY <2>2, <3>1 DEF Alive, Live
      <4>2. (0 .. n) \ {n} = 0 .. last[p]
        BY <1>1
      <4>3. QED
        BY <3>1, <4>1, <4>2
    <3>2. CASE q # p
      BY <2>1, <2>2, <3>2 DEF Alive, Live, pageVars
    <3>3. QED
      BY <3>1, <3>2
  <2>5. UNCHANGED <<key, ptr, sibling, counter, last>> /\ Linked' = Linked
    BY <2>1, LinkSame DEF pageVars
  <2>6. QED
    BY <1>2, <2>3, <2>4, <2>5 DEF Same, Holds
<1>4. CASE StoreSplit(x, p)
  <2>c. PICK c, m, s : c = Count(p) /\ m = c \div 2 /\ s = NewPage
    OBVIOUS
  <2>1. SplitOf(x, p, c, m, s)
    BY <1>0, <1>4, <2>c, SplitCopies
  <2>2. /\ Linked' = Linked /\ s \notin Linked
        /\ \A q \in Linked : /\ key'[q] = key[q] /\ ptr'[q] = ptr[q]
                             /\ last'[q] = last[q] /\ sibling'[q] = sibling[q]
        /\ w'.pc = "publish" /\ w'.page = p /\ w'.pc \in Splitting /\ w'.pc \notin Entry
    BY <1>0, <2>1 DEF SplitOf
  <2>3. counter' = counter
    BY <1>4 DEF StoreSplit
  <2>4. \A q \in Linked : Alive(q)' = 0 .. last[q]
    BY <2>2 DEF Alive, Live
  <2>5. \A q \in Linked : Holds(q)' = Holds(q)
    BY <1>2, <2>2, <2>4 DEF Holds
  <2>6. QED
    BY <2>2, <2>3, <2>5 DEF Same, Still
<1>5. QED
  BY <1>3, <1>4

LEMMA RightSame ==
  ASSUME PageInv, Same, NEW p \in Linked
  PROVE  Right(p)' = Right(p)
<1> USE Constants
<1>0. Linked \subseteq Page /\ \A h \in Linked : sibling[h] # Null => sibling[h] \in Linked
  BY DEF Linked, PageInv, PageTypes
<1>l. PICK L : L = Linked /\ L = Linked'
  BY DEF Same
<1>1. \A S \in SUBSET Page : Closed(S) \/ Closed(S)' =>
        Closed(S \cap L) /\ Closed(S \cap L)'
  BY <1>0, <1>l DEF Closed, Same
<1>2. ASSUME NEW q \in Right(p), NEW S \in SUBSET Page, p \in S, Closed(S)'
      PROVE  q \in S
  <2>1. Closed(S \cap L) /\ S \cap L \in SUBSET Page /\ p \in S \cap L
    BY <1>1, <1>2, <1>l
  <2>2. q \in S \cap L
    BY <2>1 DEF Right
  <2>3. QED
    BY <2>2
<1>3. ASSUME NEW q \in Page, NEW S \in SUBSET Page, p \in S, Closed(S),
             \A T \in SUBSET Page : p \in T /\ Closed(T)' => q \in T
      PROVE  q \in S
  <2>1. Closed(S \cap L)' /\ S \cap L \in SUBSET Page /\ p \in S \cap L
    BY <1>1, <1>3, <1>l
  <2>2. q \in S \cap L
    BY <1>3, <2>1
  <2>3. QED
    BY <2>2
<1>4. \A q \in Page : q \in Right(p)' <=> q \in Right(p)
  BY <1>2, <1>3 DEF Right
<1>5. QED
  BY <1>4 DEF Right

LEMMA AheadSame ==
  ASSUME PageInv, Same, NEW p \in Linked, NEW y
  PROVE  /\ Beyond(y, p)' <=> Beyond(y, p)
         /\ \A i : Lead(y, p, i)' <=> Lead(y, p, i)
<1> USE Constants
<1>1. \A i : Lead(y, p, i)' <=> Lead(y, p, i)
  <2>1. Holds(p)' = Holds(p) /\ ptr'[p] = ptr[p]
    BY DEF Same
  <2>2. QED
    BY <2>1 DEF Lead
<1>2. CASE sibling[p] = Null
  BY <1>1, <1>2 DEF Beyond, Same
<1>3. CASE sibling[p] # Null
  <2>c. PICK c : c = sibling[p]
    OBVIOUS
  <2>1. c \in Linked /\ sibling'[p] = c
    BY <1>3, <2>c DEF Linked, PageInv, PageTypes, Same
  <2>2. Right(c)' = Right(c)
    BY <2>1, RightSame
  <2>3. \A q \in Right(c) : Holds(q)' = Holds(q)
    BY <2>1, RightLinked DEF Same
  <2>4. Beyond(y, p)' <=> c # Null /\ \E q \in Right(c)' : y \in Holds(q)'
    BY <2>1 DEF Beyond
  <2>5. Beyond(y, p) <=> c # Null /\ \E q \in Right(c) : y \in Holds(q)
    BY <2>c DEF Beyond
  <2>6. QED
    BY <1>1, <2>2, <2>3, <2>4, <2>5
<1>4. QED
  BY <1>1, <1>2, <1>3

(* What an undisturbed scan v still has before it, what it has read of the *)
(* entry it is at, and what it has put out; B are the indexed records.     *)
Ahead(v, y) ==
  \/ Beyond(y, v.page)
  \/ v.pc = "page" /\ Lead(y, v.page, 0)
  \/ v.pc \in {"key", "ptr", "left", "again", "test"} /\ Lead(y, v.page, v.i)

EntryAt(v) ==
  /\ v.pc = "page" => v.old = Len(v.buf)
  /\ v.pc \in {"key", "ptr", "left", "again", "test", "check", "hop"} =>
       v.ctr = counter[v.page]
  /\ v.pc \in {"key", "ptr", "left", "again"} => v.i = 0 \/ v.i <= last[v.page]
  /\ v.pc = "test" => v.i <= last[v.page] + 1 \/ (last[v.page] = -1 /\ v.i = 1)
  /\ v.pc = "key" => \A j \in 1 .. v.word - 1 : v.tmp[j] = key[v.page][v.i][j]
  /\ v.pc \in {"ptr", "left", "again"} =>
       v.tmp = key[v.page][v.i] /\ Less(v.min, v.tmp) /\ Less(v.tmp, v.max)
  /\ v.pc \in {"left", "again"} => v.p = ptr[v.page][v.i]

SortedOnce(v, B) ==
  /\ \A k \in 1 .. Len(v.buf) : v.buf[k] \in B /\ InR(v, v.buf[k])
  /\ \A k, l \in 1 .. Len(v.buf) :
       k < l => v.buf[k] # v.buf[l] /\ ~Less(KeyOf[v.buf[l]], KeyOf[v.buf[k]])

Later(v) ==
  v.pc \notin {"stopped", "ended"} =>
    \A k \in 1 .. Len(v.buf) : \A y \in Rec :
      Ahead(v, y) => y # v.buf[k] /\ ~Less(KeyOf[y], KeyOf[v.buf[k]])

AllGot(v, B) == v.pc = "stopped" => \A x \in B : InR(v, x) => Got(v, x)

QuietAt(v, B) ==
  /\ \A p \in Linked : Holds(p) \subseteq B
  /\ EntryAt(v) /\ SortedOnce(v, B) /\ Later(v) /\ AllGot(v, B)

QuietInv ==
  \A v, B : v = r /\ B = seen.before =>
    /\ v.pc = "idle" => v.buf = << >> /\ v.old = 0
    /\ v.pc # "idle" /\ seen.quiet => Still /\ QuietAt(v, B)

LEMMA QuietKept ==
  ASSUME PageInv, Same, NEW v, NEW B, v.page \in Linked, QuietAt(v, B)
  PROVE  QuietAt(v, B)'
<1>1. \A p \in Linked' : Holds(p)' \subseteq B
  BY DEF Same, QuietAt
<1>2. EntryAt(v)'
  BY DEF Same, QuietAt, EntryAt, Less
<1>3. SortedOnce(v, B)'
  BY DEF QuietAt, SortedOnce, InR, Less
<1>4. Later(v)'
  <2>1. \A y : Ahead(v, y)' <=> Ahead(v, y)
    BY AheadSame DEF Ahead
  <2>2. QED
    BY <2>1 DEF QuietAt, Later, Less
<1>5. AllGot(v, B)'
  BY DEF QuietAt, AllGot, InR, Less, Got
<1>6. QED
  BY <1>1, <1>2, <1>3, <1>4, <1>5 DEF QuietAt

LEMMA WriteQuiet ==
  ASSUME FastFairInv, LeafInv, ScanInv, QuietInv, Write
  PROVE  QuietInv'
<1>1. r' = r
  BY DEF Write, Writes, StoreFast, StoreSplit, Publish, Bump, Cut, MoveEnd, Shift,
         MoveKey, SetKey, SetPtr
<1>2. CASE seen'.quiet = FALSE
  BY <1>1, <1>2 DEF QuietInv
<1>3. ASSUME NEW x \in Rec, NEW p \in Page, StoreFast(x, p) \/ StoreSplit(x, p)
      PROVE  QuietInv'
  <2>1. Same /\ Still'
    BY <1>3, StoreSame
  <2>2. seen' = seen
    BY <1>3 DEF StoreFast, StoreSplit
  <2>3. ASSUME NEW v, NEW B, v = r, B = seen.before, v.pc # "idle", seen.quiet
        PROVE  QuietAt(v, B)'
    <3>1. QuietAt(v, B)
      BY <2>3 DEF QuietInv
    <3>2. v.page \in Linked /\ PageInv
      BY <2>3 DEF ScanInv, ScanAt, FastFairInv
    <3>3. QED
      BY <2>1, <3>1, <3>2, QuietKept
  <2>4. QED
    BY <1>1, <2>1, <2>2, <2>3 DEF QuietInv
<1>4. \/ seen' = [seen EXCEPT !.quiet = FALSE]
      \/ \E x \in Rec, p \in Page : StoreFast(x, p) \/ StoreSplit(x, p)
  BY DEF Write, Writes, Publish, Bump, Cut, MoveEnd, Shift, MoveKey, SetKey, SetPtr
<1>5. seen' = [seen EXCEPT !.quiet = FALSE] => seen'.quiet = FALSE
  BY DEF ScanInv
<1>6. QED
  BY <1>2, <1>3, <1>4, <1>5

-----------------------------------------------------------------------------
(* The steps of an undisturbed scan, from v to u.                          *)
Running == {"page", "key", "ptr", "left", "again", "test", "check", "hop"}

LEMMA QuietStay ==
  ASSUME NEW v, NEW u, NEW B, QuietAt(v, B), v.pc \in Running, u.pc # "stopped",
         u.buf = v.buf, u.min = v.min, u.max = v.max, EntryAt(u),
         \A y \in Rec : Ahead(u, y) => Ahead(v, y)
  PROVE  QuietAt(u, B)
<1>1. SortedOnce(u, B)
  BY DEF QuietAt, SortedOnce, InR
<1>2. Later(u)
  BY DEF QuietAt, Later, Running
<1>3. AllGot(u, B)
  BY DEF AllGot
<1>4. QED
  BY <1>1, <1>2, <1>3 DEF QuietAt

LEMMA AheadNext ==
  ASSUME NEW v, NEW u, NEW y, v.pc \in {"key", "ptr", "left", "again"}, v.i \in Nat,
         u.pc = "test", u.page = v.page, u.i = v.i + 1, Ahead(u, y)
  PROVE  Ahead(v, y)
<1>1. ASSUME Lead(y, v.page, v.i + 1) PROVE Lead(y, v.page, v.i)
  <2>1. \A j \in 0 .. v.i - 1 : j \in 0 .. (v.i + 1) - 1
    OBVIOUS
  <2>2. QED
    BY <1>1, <2>1 DEF Lead
<1>2. QED
  BY <1>1 DEF Ahead

LEMMA EntryNext ==
  ASSUME NEW v, NEW u, EntryAt(v), v.pc \in {"key", "ptr", "left", "again"},
         v.i \in Nat, last[v.page] \in -1 .. Card - 2, Card \in Nat,
         u.pc = "test", u.page = v.page, u.i = v.i + 1, u.ctr = v.ctr
  PROVE  EntryAt(u)
<1>1. v.i = 0 \/ v.i <= last[v.page]
  BY DEF EntryAt
<1>2. u.i <= last[v.page] + 1 \/ (last[v.page] = -1 /\ u.i = 1)
  BY <1>1
<1>3. QED
  BY <1>2 DEF EntryAt

LEMMA QuietNext ==
  ASSUME PageInv, NEW v, NEW u, NEW B, QuietAt(v, B), v.page \in Page,
         v.pc \in {"key", "ptr", "left", "again"}, v.i \in Nat,
         u.pc = "test", u.page = v.page, u.i = v.i + 1, u.ctr = v.ctr,
         u.buf = v.buf, u.min = v.min, u.max = v.max
  PROVE  QuietAt(u, B)
<1>1. EntryAt(u)
  BY Constants, EntryNext DEF QuietAt, PageInv, PageTypes
<1>2. \A y \in Rec : Ahead(u, y) => Ahead(v, y)
  BY AheadNext
<1>3. QED
  BY <1>1, <1>2, QuietStay DEF Running

LEMMA EnterQuiet ==
  ASSUME FastFairInv, ScanInv, EnterPage, NEW B, QuietAt(r, B)
  PROVE  QuietAt(r', B)
<1>p. PICK v, u : v = r /\ u = r'
  OBVIOUS
<1>1. /\ v.pc = "page" /\ u.pc = "key" /\ u.i = 0 /\ u.word = 1
      /\ u.page = v.page /\ u.buf = SubSeq(v.buf, 1, v.old) /\ u.ctr = counter[v.page]
      /\ u.min = v.min /\ u.max = v.max /\ v.buf \in Seq(Rec)
  BY <1>p DEF EnterPage, FastFairInv, ScanTypes
<1>2. v.old = Len(v.buf) /\ QuietAt(v, B)
  BY <1>p, <1>1 DEF QuietAt, EntryAt
<1>3. u.buf = v.buf
  BY <1>1, <1>2
<1>4. EntryAt(u)
  BY <1>1 DEF EntryAt
<1>5. \A y \in Rec : Ahead(u, y) => Ahead(v, y)
  BY <1>1 DEF Ahead
<1>6. QED
  BY <1>p, <1>1, <1>2, <1>3, <1>4, <1>5, QuietStay DEF Running

LEMMA ReadPtrQuiet ==
  ASSUME FastFairInv, ScanInv, ReadPtr, NEW B, QuietAt(r, B)
  PROVE  QuietAt(r', B)
<1>p. PICK v, u, q : v = r /\ u = r' /\ q = ptr[v.page][v.i]
  OBVIOUS
<1>1. v.pc = "ptr" /\ v.i \in Nat /\ v.page \in Page /\ QuietAt(v, B) /\ PageInv
  BY <1>p, Constants DEF ReadPtr, FastFairInv, ScanTypes
<1>2. CASE v.i = 0 /\ q = Null
  <2>1. u = NextEntry
    BY <1>2, <1>p DEF ReadPtr
  <2>2. /\ u.pc = "test" /\ u.page = v.page /\ u.i = v.i + 1 /\ u.ctr = v.ctr
        /\ u.buf = v.buf /\ u.min = v.min /\ u.max = v.max
    BY <1>p, <2>1 DEF NextEntry, FastFairInv, ScanTypes
  <2>3. QED
    BY <1>p, <1>1, <2>2, QuietNext
<1>3. CASE ~(v.i = 0 /\ q = Null)
  <2>1. u = [v EXCEPT !.p = q, !.pc = IF v.i = 0 THEN "again" ELSE "left"]
    BY <1>3, <1>p DEF ReadPtr
  <2>2. /\ u.pc \in {"again", "left"} /\ u.page = v.page /\ u.i = v.i /\ u.p = q
        /\ u.buf = v.buf /\ u.min = v.min /\ u.max = v.max /\ u.tmp = v.tmp
        /\ u.ctr = v.ctr
    BY <1>p, <2>1 DEF FastFairInv, ScanTypes
  <2>3. EntryAt(u)
    BY <1>1, <1>p, <2>2 DEF EntryAt, QuietAt
  <2>4. \A y \in Rec : Ahead(u, y) => Ahead(v, y)
    BY <1>1, <2>2 DEF Ahead
  <2>5. QED
    BY <1>p, <1>1, <2>2, <2>3, <2>4, QuietStay DEF Running
<1>4. QED
  BY <1>2, <1>3

LEMMA ReadLeftQuiet ==
  ASSUME FastFairInv, ScanInv, ReadLeft, NEW B, QuietAt(r, B)
  PROVE  QuietAt(r', B)
<1>p. PICK v, u : v = r /\ u = r'
  OBVIOUS
<1>1. v.pc = "left" /\ v.i \in Nat /\ v.page \in Page /\ QuietAt(v, B) /\ PageInv
  BY <1>p, Constants DEF ReadLeft, FastFairInv, ScanTypes
<1>2. CASE v.p = ptr[v.page][v.i - 1]
  <2>1. u = NextEntry
    BY <1>2, <1>p DEF ReadLeft
  <2>2. /\ u.pc = "test" /\ u.page = v.page /\ u.i = v.i + 1 /\ u.ctr = v.ctr
        /\ u.buf = v.buf /\ u.min = v.min /\ u.max = v.max
    BY <1>p, <2>1 DEF NextEntry, FastFairInv, ScanTypes
  <2>3. QED
    BY <1>p, <1>1, <2>2, QuietNext
<1>3. CASE v.p # ptr[v.page][v.i - 1]
  <2>1. u = [v EXCEPT !.pc = "again"]
    BY <1>3, <1>p DEF ReadLeft
  <2>2. /\ u.pc = "again" /\ u.page = v.page /\ u.i = v.i /\ u.p = v.p
        /\ u.buf = v.buf /\ u.min = v.min /\ u.max = v.max /\ u.tmp = v.tmp
        /\ u.ctr = v.ctr
    BY <1>p, <2>1 DEF FastFairInv, ScanTypes
  <2>3. EntryAt(u)
    BY <1>1, <1>p, <2>2 DEF EntryAt, QuietAt
  <2>4. \A y \in Rec : Ahead(u, y) => Ahead(v, y)
    BY <1>1, <2>2 DEF Ahead
  <2>5. QED
    BY <1>p, <1>1, <2>2, <2>3, <2>4, QuietStay DEF Running
<1>4. QED
  BY <1>2, <1>3

LEMMA TestQuiet ==
  ASSUME FastFairInv, LeafInv, ScanInv, Still, TestEntry, NEW B, QuietAt(r, B)
  PROVE  QuietAt(r', B)
<1>p. PICK v, u, p, i : v = r /\ u = r' /\ p = r.page /\ i = r.i
  OBVIOUS
<1>1. /\ v.pc = "test" /\ i \in Nat /\ i >= 1 /\ v.word = 1 /\ p \in Linked
      /\ v.page = p /\ v.i = i /\ QuietAt(v, B)
  BY <1>p, Constants DEF TestEntry, FastFairInv, ScanTypes, ScanInv, ScanAt
<1>2. /\ u.pc = IF ptr[p][i] # Null THEN "key" ELSE "check"
      /\ u.page = p /\ u.i = i /\ u.word = 1 /\ u.ctr = v.ctr
      /\ u.buf = v.buf /\ u.min = v.min /\ u.max = v.max
  BY <1>p, <1>1 DEF TestEntry, FastFairInv, ScanTypes
<1>3. ptr[p][i] # Null => i <= last[p]
  <2>1. /\ last[p] \in -1 .. Card - 2 /\ ptr[p][last[p] + 1] = Null
        /\ last[p] = -1 => ptr[p][1] = Null
    BY <1>1, StillPage
  <2>2. i <= last[p] + 1 \/ (last[p] = -1 /\ i = 1)
    BY <1>1 DEF QuietAt, EntryAt
  <2>3. QED
    BY <1>1, <2>1, <2>2, Constants
<1>4. EntryAt(u)
  <2>1. u.ctr = counter[p]
    BY <1>1, <1>2 DEF QuietAt, EntryAt
  <2>2. u.pc = "key" => i <= last[p]
    BY <1>2, <1>3
  <2>3. \A j \in 1 .. u.word - 1 : FALSE
    BY <1>2
  <2>4. QED
    BY <1>2, <2>1, <2>2, <2>3 DEF EntryAt
<1>5. \A y \in Rec : Ahead(u, y) => Ahead(v, y)
  BY <1>1, <1>2 DEF Ahead
<1>6. QED
  BY <1>p, <1>1, <1>2, <1>4, <1>5, QuietStay DEF Running

LEMMA CheckQuiet ==
  ASSUME FastFairInv, ScanInv, CheckCounter, NEW B, QuietAt(r, B)
  PROVE  QuietAt(r', B)
<1>p. PICK v, u : v = r /\ u = r'
  OBVIOUS
<1>1. v.pc = "check" /\ QuietAt(v, B) /\ v.ctr = counter[v.page]
  BY <1>p DEF CheckCounter, QuietAt, EntryAt
<1>2. /\ u.pc = "hop" /\ u.page = v.page /\ u.ctr = v.ctr
      /\ u.buf = v.buf /\ u.min = v.min /\ u.max = v.max
  BY <1>p, <1>1 DEF CheckCounter, FastFairInv, ScanTypes
<1>3. EntryAt(u)
  BY <1>1, <1>2 DEF EntryAt
<1>4. \A y \in Rec : Ahead(u, y) => Ahead(v, y)
  BY <1>1, <1>2 DEF Ahead
<1>5. QED
  BY <1>p, <1>1, <1>2, <1>3, <1>4, QuietStay DEF Running

LEMMA HopQuiet ==
  ASSUME FastFairInv, LeafInv, ScanInv, HopSibling, NEW B, QuietAt(r, B)
  PROVE  QuietAt(r', B)
<1> USE Constants
<1>p. PICK v, u, p, c : v = r /\ u = r' /\ p = r.page /\ c = sibling[p]
  OBVIOUS
<1>1. /\ v.pc = "hop" /\ v.page = p /\ QuietAt(v, B) /\ p \in Linked /\ p \in Page
      /\ PageInv
  BY <1>p DEF HopSibling, ScanInv, ScanAt, Linked, LeafInv
<1>2. u.buf = v.buf /\ u.min = v.min /\ u.max = v.max
  BY <1>p DEF HopSibling, FastFairInv, ScanTypes
<1>3. CASE c = Null
  <2>1. u.pc = "ended" /\ u.page = p
    BY <1>3, <1>p DEF HopSibling, FastFairInv, ScanTypes
  <2>2. EntryAt(u)
    BY <2>1 DEF EntryAt
  <2>3. \A y \in Rec : Ahead(u, y) => Ahead(v, y)
    BY <1>1, <2>1 DEF Ahead
  <2>4. QED
    BY <1>p, <1>1, <1>2, <2>1, <2>2, <2>3, QuietStay DEF Running
<1>4. CASE c # Null
  <2>1. u.pc = "page" /\ u.page = c /\ u.old = Len(u.buf)
    BY <1>4, <1>p DEF HopSibling, FastFairInv, ScanTypes
  <2>2. EntryAt(u)
    BY <2>1 DEF EntryAt
  <2>3. c \in Page
    BY <1>1, <1>4, <1>p, RightNext
  <2>4. ASSUME NEW y, Ahead(u, y) PROVE Beyond(y, p)
    <3>1. CASE Lead(y, c, 0)
      BY <1>4, <1>p, <2>3, <3>1, RightSelf DEF Lead, Beyond
    <3>2. CASE Beyond(y, c)
      <4>1. PICK q \in Right(sibling[c]) : y \in Holds(q)
        BY <3>2 DEF Beyond
      <4>2. sibling[c] \in Right(c)
        BY <1>1, <2>3, <3>2, RightNext DEF Beyond
      <4>3. q \in Right(c)
        BY <4>2, RightTrans
      <4>4. QED
        BY <1>4, <1>p, <4>1, <4>3 DEF Beyond
    <3>3. QED
      BY <2>1, <2>4, <3>1, <3>2 DEF Ahead
  <2>5. \A y \in Rec : Ahead(u, y) => Ahead(v, y)
    BY <1>1, <2>4 DEF Ahead
  <2>6. QED
    BY <1>p, <1>1, <1>2, <2>1, <2>2, <2>5, QuietStay DEF Running
<1>5. QED
  BY <1>3, <1>4

(* The entry an undisturbed scan is at, and what comes after it.           *)
LEMMA EntryQuiet ==
  ASSUME LeafInv, JoinInv, Still, NEW p \in Linked, NEW i \in 0 .. last[p]
  PROVE  /\ ptr[p][i] \in Holds(p) /\ ptr[p][i] \in Rec /\ key[p][i] = KeyOf[ptr[p][i]]
         /\ key[p][i] \in Keys /\ \A j \in 0 .. i - 1 : ptr[p][j] # ptr[p][i]
         /\ \A y : Beyond(y, p) \/ (Lead(y, p, i) /\ y # ptr[p][i]) \/ Lead(y, p, i + 1) =>
              y \in Rec /\ y # ptr[p][i] /\ ~Less(KeyOf[y], key[p][i])
<1> USE Constants
<1>1. /\ p \in Page /\ last[p] \in -1 .. Card - 2 /\ Alive(p) = 0 .. last[p]
      /\ InOrder(key[p], ptr[p], 0 .. last[p])
  BY StillPage
<1>2. ptr[p][i] \in Holds(p) /\ ptr[p][i] \in Rec /\ key[p][i] = KeyOf[ptr[p][i]]
  BY <1>1 DEF Holds, InOrder
<1>3. key[p][i] \in Keys
  BY <1>2
<1>4. \A j \in 0 .. i - 1 : ptr[p][j] # ptr[p][i]
  <2> SUFFICES ASSUME NEW j \in 0 .. i - 1 PROVE ptr[p][j] # ptr[p][i]
    OBVIOUS
  <2>1. j \in 0 .. last[p] /\ j < i
    BY <1>1
  <2>2. QED
    BY <1>1, <2>1 DEF InOrder
<1>5. ASSUME NEW y, Beyond(y, p)
      PROVE  y \in Rec /\ y # ptr[p][i] /\ ~Less(KeyOf[y], key[p][i])
  BY <1>2, <1>5, BeyondAbove
<1>6. ASSUME NEW y, (Lead(y, p, i) /\ y # ptr[p][i]) \/ Lead(y, p, i + 1)
      PROVE  y \in Rec /\ y # ptr[p][i] /\ ~Less(KeyOf[y], key[p][i])
  <2>1. PICK k \in 0 .. last[p] : y = ptr[p][k]
    BY <1>1, <1>6 DEF Lead, Holds
  <2>2. \A j \in 0 .. i : ptr[p][j] # y
    <3> SUFFICES ASSUME NEW j \in 0 .. i PROVE ptr[p][j] # y
      OBVIOUS
    <3>1. j = i \/ j \in 0 .. i - 1
      OBVIOUS
    <3>2. j \in 0 .. (i + 1) - 1
      OBVIOUS
    <3>3. QED
      BY <1>6, <3>1, <3>2 DEF Lead
  <2>3. i < k
    BY <1>1, <2>1, <2>2
  <2>4. QED
    BY <1>1, <1>2, <2>1, <2>3 DEF InOrder
<1>7. QED
  BY <1>2, <1>3, <1>4, <1>5, <1>6

(* An empty leftmost page: there is nothing in it and nothing after it.    *)
LEMMA EmptyQuiet ==
  ASSUME LeafInv, FirstInv, Still, NEW p \in Linked, last[p] = -1
  PROVE  ptr[p][0] = Null /\ \A y : ~Beyond(y, p) /\ y \notin Holds(p)
<1>1. p = First /\ Alive(p) = 0 .. last[p] /\ ptr[p][last[p] + 1] = Null
  BY StillPage
<1>2. sibling[p] = Null
  BY <1>1 DEF FirstInv
<1>3. 0 .. -1 = {} /\ -1 + 1 = 0
  OBVIOUS
<1>4. Holds(p) = {}
  BY <1>1, <1>3 DEF Holds
<1>5. QED
  BY <1>1, <1>2, <1>3, <1>4 DEF Beyond

LEMMA StopQuiet ==
  ASSUME FastFairInv, LeafInv, JoinInv, FirstInv, Still,
         NEW v, NEW u, NEW B, QuietAt(v, B), B \subseteq Rec,
         v.page \in Linked, v.i \in Slot, v.pc = "key",
         v.max \in Keys,
         \A x \in B : InR(v, x) => Now(v, x),
         ~Less(key[v.page][v.i], v.max),
         u.pc = "stopped", u.buf = v.buf, u.min = v.min, u.max = v.max
  PROVE  QuietAt(u, B)
<1> USE Constants
<1>p. PICK p, i : p = v.page /\ i = v.i
  OBVIOUS
<1>1. ASSUME NEW x \in B, InR(v, x) PROVE Got(v, x)
  <2>1. Got(v, x) \/ Beyond(x, p) \/ Lead(x, p, i)
    BY <1>p, <1>1 DEF Now, Coming
  <2>2. p \in Linked /\ (i = 0 \/ i <= last[p]) /\ i \in Nat
    BY <1>p DEF QuietAt, EntryAt
  <2>3. last[p] \in -1 .. Card - 2
    BY <2>2, StillPage
  <2>4. CASE last[p] = -1
    <3>1. ~Beyond(x, p) /\ x \notin Holds(p)
      BY <2>2, <2>4, EmptyQuiet
    <3>2. QED
      BY <2>1, <3>1 DEF Lead
  <2>5. CASE last[p] # -1 /\ ~Got(v, x)
    <3>1. i \in 0 .. last[p]
      BY <2>2, <2>3, <2>5
    <3>2. ~Less(KeyOf[x], key[p][i]) /\ key[p][i] \in Keys
      <4>1. CASE x = ptr[p][i]
        <5>1. key[p][i] = KeyOf[x] /\ key[p][i] \in Keys
          BY <2>2, <3>1, <4>1, EntryQuiet
        <5>2. QED
          BY <5>1, LessIrreflexive
      <4>2. CASE x # ptr[p][i]
        BY <2>1, <2>2, <2>5, <3>1, <4>2, EntryQuiet
      <4>3. QED
        BY <4>1, <4>2
    <3>3. ~Less(key[p][i], v.max) /\ KeyOf[x] \in Keys
      BY <1>p
    <3>4. ~Less(KeyOf[x], v.max)
      BY <3>2, <3>3, NotLessTrans
    <3>5. QED
      BY <1>1, <3>4 DEF InR
  <2>6. QED
    BY <2>4, <2>5
<1>2. AllGot(u, B)
  BY <1>1 DEF AllGot, InR, Got
<1>3. SortedOnce(u, B)
  BY DEF QuietAt, SortedOnce, InR
<1>4. Later(u) /\ EntryAt(u)
  BY DEF Later, EntryAt
<1>5. QED
  BY <1>2, <1>3, <1>4 DEF QuietAt

LEMMA ReadKeyQuiet ==
  ASSUME FastFairInv, LeafInv, JoinInv, FirstInv, ScanInv, Still, ReadKey,
         NEW B, B = seen.before, QuietAt(r, B)
  PROVE  QuietAt(r', B)
<1> USE Constants
<1>p. PICK v, u, p, i, n, tmp :
        /\ v = r /\ u = r' /\ p = r.page /\ i = r.i /\ n = r.word
        /\ tmp = [r.tmp EXCEPT ![n] = key[p][i][n]]
  OBVIOUS
<1>1. /\ v.pc = "key" /\ p \in Linked /\ p \in Page /\ i \in Slot /\ n \in Word
      /\ v.page = p /\ v.i = i /\ v.word = n /\ i \in Nat /\ PageInv
      /\ v.tmp \in Keys /\ key[p][i] \in Keys /\ v.max \in Keys /\ QuietAt(v, B)
  <2>1. /\ v.pc = "key" /\ p \in Linked /\ p \in Page /\ i \in Slot /\ n \in Word
        /\ v.tmp \in Keys /\ v.max \in Keys /\ PageInv
    BY <1>p DEF ReadKey, ScanInv, ScanAt, FastFairInv, ScanTypes
  <2>2. key[p][i] \in Keys
    BY <2>1 DEF PageInv, PageTypes
  <2>3. QED
    BY <1>p, <2>1, <2>2
<1>2. tmp \in Keys
  BY <1>p, <1>1 DEF Keys
<1>3. \A j \in 1 .. n : tmp[j] = key[p][i][j]
  <2> SUFFICES ASSUME NEW j \in 1 .. n PROVE tmp[j] = key[p][i][j]
    OBVIOUS
  <2>1. j \in Word /\ (j # n => j \in 1 .. n - 1)
    BY <1>1 DEF Word
  <2>2. j # n => v.tmp[j] = key[p][i][j]
    BY <1>1, <2>1 DEF QuietAt, EntryAt
  <2>3. QED
    BY <1>p, <1>1, <2>1, <2>2 DEF Keys
<1>4. n = NumWord => tmp = key[p][i]
  <2> SUFFICES ASSUME n = NumWord PROVE tmp = key[p][i]
    OBVIOUS
  <2>1. \A j \in Word : tmp[j] = key[p][i][j]
    BY <1>3 DEF Word
  <2>2. tmp \in [Word -> Nat] /\ key[p][i] \in [Word -> Nat]
    BY <1>1, <1>2 DEF Keys
  <2>3. QED
    BY <2>1, <2>2
<1>5. CASE n < NumWord
  <2>1. r' = [r EXCEPT !.word = n + 1, !.tmp = tmp]
    BY <1>5, <1>p DEF ReadKey
  <2>2. /\ u.pc = "key" /\ u.page = p /\ u.i = i /\ u.ctr = v.ctr
        /\ u.buf = v.buf /\ u.word = n + 1 /\ u.tmp = tmp
        /\ u.min = v.min /\ u.max = v.max
    BY <1>1, <1>p, <2>1 DEF FastFairInv, ScanTypes
  <2>3. (n + 1) - 1 = n
    BY <1>1 DEF Word
  <2>4. EntryAt(u)
    BY <1>1, <1>3, <2>2, <2>3 DEF QuietAt, EntryAt
  <2>5. \A y \in Rec : Ahead(u, y) => Ahead(v, y)
    BY <1>1, <2>2 DEF Ahead
  <2>6. QED
    BY <1>p, <1>1, <2>2, <2>4, <2>5, QuietStay DEF Running
<1>6. CASE ~(n < NumWord) /\ ~Less(r.min, tmp)
  <2>1. n = NumWord
    BY <1>1, <1>6 DEF Word
  <2>2. r' = NextEntry
    BY <1>6, <1>p, <2>1, ~(NumWord < NumWord) DEF ReadKey
  <2>3. /\ u.pc = "test" /\ u.page = v.page /\ u.i = v.i + 1 /\ u.ctr = v.ctr
        /\ u.buf = v.buf /\ u.min = v.min /\ u.max = v.max
    BY <1>p, <2>2 DEF NextEntry, FastFairInv, ScanTypes
  <2>4. QED
    BY <1>p, <1>1, <2>3, QuietNext
<1>7. CASE ~(n < NumWord) /\ Less(r.min, tmp) /\ ~Less(tmp, r.max)
  <2>1. n = NumWord
    BY <1>1, <1>7 DEF Word
  <2>2. r' = [r EXCEPT !.pc = "stopped"]
    BY <1>7, <1>p, <2>1 DEF ReadKey
  <2>3. u.pc = "stopped" /\ u.buf = v.buf /\ u.min = v.min /\ u.max = v.max
    BY <1>p, <2>2 DEF FastFairInv, ScanTypes
  <2>4. B \subseteq Rec /\ \A x \in B : InR(v, x) => Now(v, x)
    BY <1>p, <1>1 DEF ScanInv, MissesNot
  <2>5. ~Less(key[v.page][v.i], v.max)
    BY <1>p, <1>1, <1>4, <1>7, <2>1
  <2>6. v.page \in Linked /\ v.i \in Slot
    BY <1>1
  <2>7. QED
    BY <1>p, <1>1, <2>3, <2>4, <2>5, <2>6, StopQuiet
<1>8. CASE ~(n < NumWord) /\ Less(r.min, tmp) /\ Less(tmp, r.max)
  <2>1. n = NumWord
    BY <1>1, <1>8 DEF Word
  <2>2. r' = [r EXCEPT !.pc = "ptr", !.word = 1, !.tmp = tmp]
    BY <1>8, <1>p, <2>1 DEF ReadKey
  <2>3. /\ u.pc = "ptr" /\ u.page = p /\ u.i = i /\ u.ctr = v.ctr
        /\ u.buf = v.buf /\ u.tmp = tmp /\ u.min = v.min /\ u.max = v.max
    BY <1>1, <1>p, <2>2 DEF FastFairInv, ScanTypes
  <2>4. EntryAt(u)
    <3>1. u.tmp = key[p][i] /\ Less(u.min, u.tmp) /\ Less(u.tmp, u.max)
      BY <1>4, <1>8, <1>p, <2>1, <2>3
    <3>2. u.ctr = counter[p] /\ (i = 0 \/ i <= last[p])
      BY <1>1, <2>3 DEF QuietAt, EntryAt
    <3>3. QED
      BY <2>3, <3>1, <3>2 DEF EntryAt
  <2>5. \A y \in Rec : Ahead(u, y) => Ahead(v, y)
    BY <1>1, <2>3 DEF Ahead
  <2>6. QED
    BY <1>p, <1>1, <2>3, <2>4, <2>5, QuietStay DEF Running
<1>9. QED
  BY <1>5, <1>6, <1>7, <1>8

(* The record of the entry is put out: it is of the range, was indexed,    *)
(* and comes after all that was put out before.                            *)
LEMMA PutQuiet ==
  ASSUME LeafInv, JoinInv, FirstInv, Still, NEW v, NEW u, NEW B, QuietAt(v, B),
         v.page \in Linked, v.i \in Nat, v.pc = "again", v.buf \in Seq(Rec),
         v.p # Null, u.buf = Append(v.buf, v.p),
         u.pc = "test", u.page = v.page, u.i = v.i + 1, u.ctr = v.ctr,
         u.min = v.min, u.max = v.max
  PROVE  QuietAt(u, B)
<1> USE Constants
<1>p. PICK p, i, x : p = v.page /\ i = v.i /\ x = v.p
  OBVIOUS
<1>1. /\ i \in Nat /\ x # Null /\ x = ptr[p][i] /\ v.tmp = key[p][i]
      /\ Less(v.min, key[p][i]) /\ Less(key[p][i], v.max)
      /\ p \in Linked /\ (i = 0 \/ i <= last[p])
  BY <1>p DEF QuietAt, EntryAt
<1>2. last[p] \in -1 .. Card - 2
  BY <1>1, StillPage
<1>3. i \in 0 .. last[p]
  <2>1. last[p] # -1
    BY <1>1, <1>2, EmptyQuiet
  <2>2. QED
    BY <1>1, <1>2, <2>1
<1>4. /\ x \in Holds(p) /\ x \in Rec /\ key[p][i] = KeyOf[x]
      /\ \A j \in 0 .. i - 1 : ptr[p][j] # x
      /\ \A y : Beyond(y, p) \/ Lead(y, p, i + 1) =>
           y # x /\ ~Less(KeyOf[y], KeyOf[x])
  <2>1. /\ ptr[p][i] \in Holds(p) /\ ptr[p][i] \in Rec /\ key[p][i] = KeyOf[ptr[p][i]]
        /\ \A j \in 0 .. i - 1 : ptr[p][j] # ptr[p][i]
        /\ \A y : Beyond(y, p) \/ (Lead(y, p, i) /\ y # ptr[p][i]) \/ Lead(y, p, i + 1) =>
              y \in Rec /\ y # ptr[p][i] /\ ~Less(KeyOf[y], key[p][i])
    BY <1>1, <1>3, EntryQuiet
  <2>2. QED
    BY <1>1, <2>1
<1>5. x \in B /\ InR(v, x) /\ Ahead(v, x)
  <2>1. x \in B
    BY <1>1, <1>4 DEF QuietAt
  <2>2. InR(v, x)
    BY <1>1, <1>4 DEF InR
  <2>3. Lead(x, p, i)
    BY <1>4 DEF Lead
  <2>4. QED
    BY <1>p, <2>1, <2>2, <2>3 DEF Ahead
<1>n. PICK m : m = Len(v.buf)
  OBVIOUS
<1>6. /\ m \in Nat /\ Len(u.buf) = m + 1 /\ u.buf[m + 1] = x
      /\ \A k \in 1 .. m : u.buf[k] = v.buf[k]
  BY <1>n, <1>p, <1>4
<1>7. \A k \in 1 .. m : x # v.buf[k] /\ ~Less(KeyOf[x], KeyOf[v.buf[k]])
  BY <1>n, <1>4, <1>5 DEF QuietAt, Later
<1>8. \A k \in 1 .. m + 1 : k = m + 1 \/ k \in 1 .. m
  BY <1>6
<1>9. SortedOnce(u, B)
  <2>1. /\ \A k \in 1 .. m : v.buf[k] \in B /\ InR(v, v.buf[k])
        /\ \A k, l \in 1 .. m :
             k < l => v.buf[k] # v.buf[l] /\ ~Less(KeyOf[v.buf[l]], KeyOf[v.buf[k]])
    BY <1>n DEF QuietAt, SortedOnce
  <2>2. ASSUME NEW k \in 1 .. Len(u.buf) PROVE u.buf[k] \in B /\ InR(u, u.buf[k])
    <3>1. InR(v, u.buf[k]) /\ u.buf[k] \in B
      BY <1>5, <1>6, <1>8, <2>1
    <3>2. QED
      BY <3>1 DEF InR
  <2>3. ASSUME NEW k \in 1 .. Len(u.buf), NEW l \in 1 .. Len(u.buf), k < l
        PROVE  u.buf[k] # u.buf[l] /\ ~Less(KeyOf[u.buf[l]], KeyOf[u.buf[k]])
    <3>1. k \in 1 .. m
      BY <1>6, <2>3
    <3>2. CASE l = m + 1
      BY <1>6, <1>7, <3>1, <3>2
    <3>3. CASE l # m + 1
      <4>1. l \in 1 .. m
        BY <1>6, <3>3
      <4>2. QED
        BY <1>6, <2>1, <2>3, <3>1, <4>1
    <3>4. QED
      BY <3>2, <3>3
  <2>4. QED
    BY <2>2, <2>3 DEF SortedOnce
<1>10. Later(u)
  <2> SUFFICES ASSUME NEW k \in 1 .. Len(u.buf), NEW y \in Rec, Ahead(u, y)
               PROVE  y # u.buf[k] /\ ~Less(KeyOf[y], KeyOf[u.buf[k]])
    BY DEF Later
  <2>1. Ahead(v, y)
    BY AheadNext
  <2>2. CASE k = m + 1
    BY <1>p, <1>4, <1>6, <2>2 DEF Ahead
  <2>3. CASE k # m + 1
    <3>1. k \in 1 .. m
      BY <1>6, <1>8, <2>3
    <3>2. y # v.buf[k] /\ ~Less(KeyOf[y], KeyOf[v.buf[k]])
      BY <1>n, <2>1, <3>1 DEF QuietAt, Later
    <3>3. QED
      BY <1>6, <3>1, <3>2
  <2>4. QED
    BY <2>2, <2>3
<1>11. EntryAt(u)
  BY <1>2, <1>p, EntryNext DEF QuietAt
<1>12. AllGot(u, B)
  BY DEF AllGot
<1>13. QED
  BY <1>9, <1>10, <1>11, <1>12 DEF QuietAt

LEMMA ReReadQuiet ==
  ASSUME FastFairInv, LeafInv, JoinInv, FirstInv, ScanInv, Still, ReReadKey,
         NEW B, QuietAt(r, B)
  PROVE  QuietAt(r', B)
<1> USE Constants
<1>p. PICK v, u, p, i, n : v = r /\ u = r' /\ p = r.page /\ i = r.i /\ n = r.word
  OBVIOUS
<1>1. /\ v.pc = "again" /\ v.page \in Linked /\ v.page \in Page /\ v.i \in Nat
      /\ v.buf \in Seq(Rec) /\ n \in Word /\ QuietAt(v, B) /\ PageInv
  BY <1>p DEF ReReadKey, ScanInv, ScanAt, FastFairInv, ScanTypes
<1>2. r.tmp[n] = key[p][i][n]
  BY <1>p, <1>1 DEF QuietAt, EntryAt
<1>3. CASE n < NumWord
  <2>1. r' = [r EXCEPT !.word = n + 1]
    BY <1>2, <1>3, <1>p DEF ReReadKey
  <2>2. /\ u.pc = "again" /\ u.page = v.page /\ u.i = v.i /\ u.ctr = v.ctr
        /\ u.buf = v.buf /\ u.p = v.p /\ u.tmp = v.tmp
        /\ u.min = v.min /\ u.max = v.max
    BY <1>1, <1>p, <2>1 DEF FastFairInv, ScanTypes
  <2>3. EntryAt(u)
    BY <1>1, <2>2 DEF QuietAt, EntryAt
  <2>4. \A y \in Rec : Ahead(u, y) => Ahead(v, y)
    BY <1>1, <2>2 DEF Ahead
  <2>5. QED
    BY <1>p, <1>1, <2>2, <2>3, <2>4, QuietStay DEF Running
<1>4. CASE ~(n < NumWord)
  <2>b. PICK buf : buf = IF r.p = Null THEN r.buf ELSE Append(r.buf, r.p)
    OBVIOUS
  <2>1. r' = [NextEntry EXCEPT !.buf = buf]
    BY <1>2, <1>4, <1>p, <2>b DEF ReReadKey, NextEntry, FastFairInv, ScanTypes
  <2>2. /\ u.pc = "test" /\ u.page = v.page /\ u.i = v.i + 1 /\ u.ctr = v.ctr
        /\ u.buf = buf /\ u.min = v.min /\ u.max = v.max
    BY <1>p, <2>1 DEF NextEntry, FastFairInv, ScanTypes
  <2>3. CASE v.p = Null
    BY <1>p, <1>1, <2>2, <2>3, <2>b, QuietNext
  <2>4. CASE v.p # Null
    <3>1. u.buf = Append(v.buf, v.p)
      BY <1>p, <2>2, <2>4, <2>b
    <3>2. QED
      BY <1>p, <1>1, <2>2, <2>4, <3>1, PutQuiet
  <2>5. QED
    BY <2>3, <2>4
<1>5. QED
  BY <1>3, <1>4

LEMMA StartQuiet ==
  ASSUME FastFairInv, LeafInv, QuietInv, ScanStart, w.pc = "idle"
  PROVE  Still /\ QuietAt(r', Indexed)
<1> USE Constants
<1>p. PICK v, u : v = r /\ u = r'
  OBVIOUS
<1>1. u.pc = "page" /\ u.buf = << >> /\ u.old = 0
  BY <1>p DEF ScanStart, QuietInv, FastFairInv, ScanTypes
<1>2. ASSUME NEW p \in Linked PROVE Holds(p) \subseteq Indexed
  <2>1. Alive(p) = Live(p)
    BY DEF Alive
  <2>2. Holds(p) = Content(p)
    BY <2>1 DEF Holds, Content
  <2>3. QED
    BY <2>2, IdleIndexed DEF LeafInv
<1>3. Len(u.buf) = 0 /\ \A k \in 1 .. Len(u.buf) : FALSE
  BY <1>1
<1>4. SortedOnce(u, Indexed) /\ Later(u) /\ AllGot(u, Indexed) /\ EntryAt(u)
  BY <1>1, <1>3 DEF SortedOnce, Later, AllGot, EntryAt
<1>5. QED
  BY <1>p, <1>2, <1>4 DEF QuietAt, Still

LEMMA ScanQuiet ==
  ASSUME FastFairInv, LeafInv, JoinInv, FirstInv, ScanInv, QuietInv, Scan
  PROVE  QuietInv'
<1>1. UNCHANGED <<pageVars, w>>
  BY DEF Scan, Scans, ScanStart, EnterPage, ReadKey, ReadPtr, ReadLeft,
         ReReadKey, TestEntry, CheckCounter, HopSibling
<1>2. r'.pc # "idle"
  BY DEF Scan, ScanStart, EnterPage, ReadKey, ReadPtr, ReadLeft, NextEntry,
         ReReadKey, TestEntry, CheckCounter, HopSibling, FastFairInv, ScanTypes
<1>3. seen'.quiet => Still /\ QuietAt(r', seen'.before)
  <2>1. CASE ScanStart
    BY <2>1, StartQuiet DEF ScanStart
  <2>2. CASE ~ScanStart
    <3>1. seen' = seen /\ r.pc # "idle"
      BY <2>2 DEF Scan, Scans, EnterPage, ReadKey, ReadPtr, ReadLeft,
                  ReReadKey, TestEntry, CheckCounter, HopSibling
    <3>2. seen.quiet => Still /\ QuietAt(r, seen.before)
      BY <3>1 DEF QuietInv
    <3>3. ASSUME Still, QuietAt(r, seen.before) PROVE QuietAt(r', seen.before)
      BY <2>2, <3>3, EnterQuiet, ReadKeyQuiet, ReadPtrQuiet, ReadLeftQuiet, ReReadQuiet,
         TestQuiet, CheckQuiet, HopQuiet DEF Scan
    <3>4. QED
      BY <3>1, <3>2, <3>3
  <2>3. QED
    BY <2>1, <2>2
<1>4. Same
  <2>1. Linked' = Linked /\ \A p : Holds(p)' = Holds(p)
    BY <1>1, LinkSame DEF pageVars, Holds, Alive, Live
  <2>2. QED
    BY <1>1, <2>1 DEF Same, pageVars
<1>5. ASSUME NEW v, NEW B, v = r', B = seen'.before, seen'.quiet
      PROVE  Still' /\ QuietAt(v, B)'
  <2>1. Still' /\ QuietAt(v, B)
    BY <1>1, <1>3, <1>5 DEF Still
  <2>2. v.page \in Linked
    BY <1>5, ScanMoves DEF ScanInv, ScanAt
  <2>3. QED
    BY <1>4, <2>1, <2>2, QuietKept DEF LeafInv
<1>6. QED
  BY <1>2, <1>5 DEF QuietInv

LEMMA QuietInit == Init => JoinInv /\ QuietInv
<1> SUFFICES ASSUME Init PROVE JoinInv /\ QuietInv
  OBVIOUS
<1>1. r.pc = "idle" /\ r.buf = << >> /\ r.old = 0
  BY DEF Init, IdleScan
<1>2. \A p \in Page : sibling[p] = Null
  BY DEF Init
<1>3. Linked \subseteq Page
  BY Constants DEF Linked
<1>4. QED
  BY <1>1, <1>2, <1>3 DEF JoinInv, QuietInv

LEMMA QuietStep ==
  FastFairInv /\ LeafInv /\ ScanInv /\ FirstInv /\ JoinInv /\ QuietInv /\ [Next]_vars
    => JoinInv' /\ QuietInv'
<1> SUFFICES ASSUME FastFairInv, LeafInv, ScanInv, FirstInv, JoinInv, QuietInv, [Next]_vars
             PROVE  JoinInv' /\ QuietInv'
  OBVIOUS
<1>1. CASE Write
  BY <1>1, JoinKept, WriteQuiet
<1>2. UNCHANGED <<pageVars, w>> => JoinInv'
  <2> SUFFICES ASSUME UNCHANGED <<pageVars, w>> PROVE JoinInv'
    OBVIOUS
  <2>1. sibling' = sibling /\ Linked' = Linked
    BY LinkSame DEF pageVars
  <2>2. QED
    BY <2>1 DEF JoinInv
<1>3. CASE Scan
  <2>1. UNCHANGED <<pageVars, w>>
    BY <1>3 DEF Scan, Scans, ScanStart, EnterPage, ReadKey, ReadPtr, ReadLeft,
                ReReadKey, TestEntry, CheckCounter, HopSibling
  <2>2. QED
    BY <1>2, <1>3, <2>1, ScanQuiet
<1>4. CASE UNCHANGED vars
  <2>1. UNCHANGED <<pageVars, w>> /\ r' = r /\ seen' = seen
    BY <1>4 DEF vars
  <2>2. Same
    <3>1. Linked' = Linked /\ \A p : Holds(p)' = Holds(p)
      BY <2>1, LinkSame DEF pageVars, Holds, Alive, Live
    <3>2. QED
      BY <2>1, <3>1 DEF Same, pageVars
  <2>3. ASSUME NEW v, NEW B, v = r, B = seen.before, v.pc # "idle", seen.quiet
        PROVE  Still' /\ QuietAt(v, B)'
    <3>1. Still /\ QuietAt(v, B)
      BY <2>3 DEF QuietInv
    <3>2. v.page \in Linked /\ PageInv
      BY <2>3 DEF ScanInv, ScanAt, FastFairInv
    <3>3. QED
      BY <2>1, <2>2, <3>1, <3>2, QuietKept DEF Still
  <2>4. QED
    BY <1>2, <2>1, <2>3 DEF QuietInv
<1>5. QED
  BY <1>1, <1>3, <1>4 DEF Next

(* A scan during which nothing is written returns every record of its      *)
(* range once and in key order, whether it stops at a key from max on or   *)
(* walks to the end of the leaves, for every page size, key length and     *)
(* number of pages (linear_search_range after any sequence of store).      *)
THEOREM QuietScansAreExact == Spec => []QuietScanIsExact
<1>1. Init => FirstInv
  BY Constants DEF Init, IdleWriter, FirstInv, Splitting
<1>2. Spec => [](LeafInv /\ ScanInv /\ FirstInv)
  <2>1. LeafInv => SortedInv
    BY DEF LeafInv
  <2>2. QED
    BY <1>1, <2>1, ScanInit, ScanStep, SortedStep, Invariant, PTL DEF Spec
<1>3. Spec => [](JoinInv /\ QuietInv)
  BY <1>2, QuietInit, QuietStep, Invariant, PTL DEF Spec
<1>4. ScanInv /\ QuietInv => QuietScanIsExact
  <2> SUFFICES ASSUME ScanInv, QuietInv, Done, seen.quiet
               PROVE  /\ {r.buf[i] : i \in 1 .. Len(r.buf)} = {x \in seen.before : InRange(x)}
                      /\ \A i, j \in 1 .. Len(r.buf) : i < j =>
                           r.buf[i] # r.buf[j] /\ ~Less(KeyOf[r.buf[j]], KeyOf[r.buf[i]])
    BY DEF QuietScanIsExact
  <2>1. r.pc \in {"stopped", "ended"} /\ QuietAt(r, seen.before)
    BY DEF Done, QuietInv
  <2>2. \A x : InRange(x) <=> InR(r, x)
    BY DEF InRange, InR
  <2>3. \A x \in seen.before : InRange(x) => Got(r, x)
    <3>1. CASE r.pc = "stopped"
      BY <2>1, <2>2, <3>1 DEF QuietAt, AllGot
    <3>2. CASE r.pc = "ended"
      BY <2>2, <3>2 DEF ScanInv, MissesNot, Now, Coming
    <3>3. QED
      BY <2>1, <3>1, <3>2
  <2>4. SortedOnce(r, seen.before)
    BY <2>1 DEF QuietAt
  <2>5. \A k \in 1 .. Len(r.buf) : r.buf[k] \in seen.before /\ InRange(r.buf[k])
    BY <2>2, <2>4 DEF SortedOnce
  <2>6. \A x : (\E k \in 1 .. Len(r.buf) : x = r.buf[k])
                 <=> x \in seen.before /\ InRange(x)
    BY <2>3, <2>5 DEF Got
  <2>7. {r.buf[i] : i \in 1 .. Len(r.buf)} = {x \in seen.before : InRange(x)}
    BY <2>6
  <2>8. QED
    BY <2>4, <2>7 DEF SortedOnce
<1>5. QED
  BY <1>2, <1>3, <1>4, PTL

-----------------------------------------------------------------------------
(* The indexed records are those in the pages, also while one is put in.   *)
IndexedIs == \A x : x \in Indexed <=> \E q \in Linked : x \in Holds(q)

LEMMA HeldIndexed == LeafInv => IndexedIs
<1> USE Constants
<1> SUFFICES ASSUME LeafInv, NEW q \in Linked, NEW x \in Holds(q) PROVE x \in Indexed
  BY IndexedHeld DEF IndexedIs
<1>0. PageInv /\ SortedInv /\ HalfInv
  BY DEF LeafInv
<1>1. PICK k \in Alive(q) : x = ptr[q][k]
  BY DEF Holds
<1>2. /\ q \in Page /\ k \in Slot /\ last[q] \in -1 .. Card - 2 /\ x \in Rec
  BY <1>0, <1>1, AliveIs DEF InOrder
<1>n. PICK c : c = Count(q)
  OBVIOUS
<1>3. c \in Slot /\ c > last[q] /\ ptr[q][c] = Null
  BY <1>0, <1>n, <1>2, CountInPage
<1>4. k <= last[q] + 1
  <2>1. CASE w.pc \in Splitting /\ q = w.page
    <3>p. PICK s, n : s = w.new /\ n = w.n
      OBVIOUS
    <3>1. /\ n \in 1 .. Card - 2 /\ last[s] \in 0 .. Card - 3
          /\ Live(q) = 0 .. n - 1 /\ last[q] = n + last[s]
      BY <1>0, <2>1, <3>p, SplitIs DEF HalfInv
    <3>2. k \in 0 .. last[q] \/ k \in 0 .. n - 1
      BY <1>1, <2>1, <3>1 DEF Alive
    <3>3. QED
      BY <1>2, <3>1, <3>2
  <2>2. CASE w.pc \in Entry /\ q = w.page
    <3>1. Live(q) = (0 .. w.n) \ {w.hole} /\ w.n = last[q] + 1
      BY <1>0, <2>2, EntryIs
    <3>2. k \in 0 .. w.n
      BY <1>1, <2>2, <3>1 DEF Alive, Entry
    <3>3. QED
      BY <1>2, <3>1, <3>2
  <2>3. CASE ~(w.pc \in Splitting /\ q = w.page) /\ ~(w.pc \in Entry /\ q = w.page)
    <3>1. k \in 0 .. last[q]
      BY <1>1, <2>3 DEF Alive, Live, Splitting
    <3>2. QED
      BY <1>2, <3>1
  <2>4. QED
    BY <2>1, <2>2, <2>3
<1>5. k \in 0 .. c - 1
  <2>1. k # c
    BY <1>1, <1>2, <1>3
  <2>2. QED
    BY <1>2, <1>3, <1>4, <2>1
<1>6. x \in Held(q) /\ x # Null
  BY <1>1, <1>2, <1>n, <1>5 DEF Held
<1>7. QED
  BY <1>6 DEF Indexed

LEMMA HeldIndexedNext == LeafInv' => IndexedIs'
  BY HeldIndexed, PTL

(* The writer at rest has no record, and every scan begins with what is    *)
(* indexed.                                                                *)
RestInv ==
  /\ w.pc = "idle" => w.rec = Null
  /\ seen.before \subseteq Indexed

LEMMA IndexedGrows ==
  ASSUME LeafInv, Write
  PROVE  Indexed \subseteq Indexed'
<1> SUFFICES ASSUME NEW x \in Indexed PROVE x \in Indexed'
  OBVIOUS
<1>1. LeafInv' /\ IndexedIs'
  BY LeafStep, HeldIndexedNext
<1>2. PICK q \in Linked : x \in Holds(q)
  BY IndexedHeld
<1>3. \A g \in Linked : g \in Linked'
  BY RightKept
<1>4. \E g \in Linked' : x \in Holds(g)'
  <2>1. CASE HoldsKept
    BY <1>2, <1>3, <2>1 DEF HoldsKept
  <2>2. ASSUME NEW p \in Linked, NEW s \in Page, sibling' = [sibling EXCEPT ![p] = s],
               \A h \in Linked : \A y \in Holds(h) : y \in Holds(h)' \/ (h = p /\ y \in Holds(s)')
        PROVE  \E g \in Linked' : x \in Holds(g)'
    <3>1. p \in Page /\ PageInv
      BY Constants DEF Linked, LeafInv
    <3>2. sibling'[p] = s
      BY <2>2, <3>1 DEF PageInv, PageTypes
    <3>3. s \in Linked'
      BY <3>1, <3>2 DEF Linked
    <3>4. QED
      BY <1>2, <1>3, <2>2, <3>3
  <2>3. QED
    BY <2>1, <2>2, WriteMoves
<1>5. QED
  BY <1>1, <1>4 DEF IndexedIs

(* The record that is being put in is not indexed, and is once it is in.   *)
LEMMA PutIndexed ==
  ASSUME LeafInv, SetPtr
  PROVE  w.rec \in Indexed'
<1> USE Constants
<1>0. PageInv /\ SortedInv /\ w.pc = "ptr" /\ w.pc \in Entry /\ w.pc # "idle"
  BY DEF LeafInv, SetPtr, Entry
<1>p. PICK p, n, h, x : p = w.page /\ n = w.n /\ h = w.hole /\ x = w.rec
  OBVIOUS
<1>1. /\ p \in Page /\ n \in 0 .. Card - 2 /\ h \in 0 .. n /\ h \in Slot /\ p \in Linked
  BY <1>0, <1>p, EntryIs DEF SortedInv, ChainInv
<1>2. /\ ptr' = [ptr EXCEPT ![p][h] = x] /\ last' = [last EXCEPT ![p] = n]
      /\ w'.pc = "idle" /\ sibling' = sibling
  BY <1>p DEF SetPtr, IdleWriter
<1>3. ptr'[p][h] = x /\ last'[p] = n
  BY <1>0, <1>1, <1>2 DEF PageInv, PageTypes
<1>4. h \in Alive(p)'
  BY <1>1, <1>2, <1>3 DEF Alive, Live, Splitting, Entry
<1>5. x \in Holds(p)'
  BY <1>3, <1>4 DEF Holds
<1>6. p \in Linked'
  BY <1>1, <1>2, LinkSame
<1>7. LeafInv'
  BY LeafStep DEF Write
<1>8. QED
  BY <1>5, <1>6, <1>7, <1>p, HeldIndexedNext DEF IndexedIs

LEMMA SinceIs ==
  ASSUME LeafInv, RestInv
  PROVE  \A x : x \in InsertsSince <=>
           /\ x # Null /\ x \notin seen.before
           /\ x \in Indexed \/ x = w.rec
  BY DEF InsertsSince

LEMMA SinceGrows ==
  ASSUME LeafInv, ScanInv, RestInv, Write
  PROVE  /\ seen'.before = seen.before /\ RestInv'
         /\ InsertsSince \subseteq InsertsSince'
<1>1. seen'.before = seen.before
  BY DEF Write, Writes, StoreFast, StoreSplit, Publish, Bump, Cut, MoveEnd, Shift,
         MoveKey, SetKey, SetPtr, ScanInv
<1>2. Indexed \subseteq Indexed'
  BY IndexedGrows
<1>3. DOMAIN w = {"pc", "rec", "page", "new", "n", "hole", "word"}
  BY DEF LeafInv, PageInv, WriterTypes
<1>4. ~SetPtr /\ w.pc # "idle" => w'.rec = w.rec /\ w'.pc # "idle"
  <2> SUFFICES ASSUME w.pc # "idle", ~SetPtr PROVE w'.rec = w.rec /\ w'.pc # "idle"
    OBVIOUS
  <2>1. CASE Cut
    BY <2>1 DEF Cut, Entering, IdleWriter
  <2>2. CASE Publish \/ Bump \/ MoveEnd \/ Shift \/ MoveKey \/ SetKey
    BY <1>3, <2>2 DEF Publish, Bump, MoveEnd, Shift, MoveKey, SetKey
  <2>3. QED
    BY <2>1, <2>2 DEF Write, StoreFast, StoreSplit
<1>5. CASE SetPtr
  <2>1. w'.pc = "idle" /\ w'.rec = Null
    BY <1>5 DEF SetPtr, IdleWriter
  <2>2. w.rec \in Indexed'
    BY <1>5, PutIndexed
  <2>3. QED
    BY <1>1, <1>2, <2>1, <2>2 DEF InsertsSince, RestInv
<1>6. CASE w.pc = "idle"
  <2>1. w.rec = Null
    BY <1>6 DEF RestInv
  <2>2. w'.pc # "idle"
    <3>1. \E x \in Rec, p \in Page : StoreFast(x, p) \/ StoreSplit(x, p)
      BY <1>6 DEF Write, Publish, Bump, Cut, MoveEnd, Shift, MoveKey, SetKey, SetPtr
    <3>2. QED
      BY <3>1 DEF StoreFast, StoreSplit, Entering, IdleWriter
  <2>3. QED
    BY <1>1, <1>2, <2>1, <2>2 DEF InsertsSince, RestInv
<1>7. CASE ~SetPtr /\ w.pc # "idle"
  <2>1. w'.rec = w.rec /\ w'.pc # "idle"
    BY <1>4, <1>7
  <2>2. QED
    BY <1>1, <1>2, <2>1 DEF InsertsSince, RestInv
<1>8. QED
  BY <1>5, <1>6, <1>7

(* The second insert has a record of its own.                              *)
LEMMA StartsFirst ==
  ASSUME LeafInv, ScanInv, RestInv, NEW z, InsertsSince' \subseteq {z},
         NEW x \in Rec, NEW p \in Page, StoreFast(x, p) \/ StoreSplit(x, p)
  PROVE  InsertsSince = {}
<1>1. w.pc = "idle" /\ x \notin Indexed /\ w'.rec = x
  BY DEF StoreFast, StoreSplit, Entering, IdleWriter
<1>2. InsertsSince \subseteq InsertsSince' /\ seen'.before = seen.before
  BY SinceGrows DEF Write
<1>3. x \in InsertsSince'
  BY <1>1, <1>2, Constants DEF InsertsSince, RestInv
<1>4. x = z
  BY <1>3
<1>5. ASSUME NEW y \in InsertsSince PROVE FALSE
  <2>1. y = x
    BY <1>2, <1>4
  <2>2. y \in Indexed
    BY <1>1 DEF InsertsSince, RestInv
  <2>3. QED
    BY <1>1, <2>1, <2>2
<1>6. QED
  BY <1>5

(* ... and the first one has been seen when it is done.                    *)
LEMMA SetSince ==
  ASSUME LeafInv, ScanInv, RestInv, SetPtr
  PROVE  InsertsSince' # {}
<1> USE Constants
<1>0. PageInv /\ SortedInv /\ HalfInv /\ w.pc = "ptr" /\ w.pc \in Entry /\ w.pc # "idle"
  BY DEF LeafInv, SetPtr, Entry
<1>1. w.rec \in Rec /\ w.rec \in Indexed' /\ w.rec # Null
  BY <1>0, PutIndexed, EntryIs
<1>2. w.rec \notin Indexed
  <2> SUFFICES ASSUME w.rec \in Indexed PROVE FALSE
    OBVIOUS
  <2>1. PICK q \in Linked : w.rec \in Holds(q)
    BY IndexedHeld
  <2>2. w.rec \in Content(q) /\ q \in Chain
    BY <1>0, <2>1 DEF Holds, Alive, Content, Chain
  <2>3. QED
    BY <1>0, <2>2 DEF SortedInv, Apart
<1>3. seen'.before = seen.before /\ seen.before \subseteq Indexed
  BY SinceGrows DEF Write, RestInv
<1>4. QED
  BY <1>1, <1>2, <1>3 DEF InsertsSince

-----------------------------------------------------------------------------
(* Word j of the key in slot i of page p may still be written by the one   *)
(* insert that runs since the scan began.                                  *)
Pending(p, i, j) ==
  \/ w.pc = "idle" /\ InsertsSince = {}
  \/ w.pc \in Splitting
  \/ w.pc \in Entry /\ p = w.page /\ i < w.hole
  \/ w.pc \in {"end", "shift"} /\ p = w.page /\ i = w.hole
  \/ w.pc \in {"move", "key"} /\ p = w.page /\ i = w.hole /\ j >= w.word

(* Every word is written at most once.                                     *)
WordStep(p, i, j) ==
  /\ ~Pending(p, i, j) => ~Pending(p, i, j)' /\ key'[p][i][j] = key[p][i][j]
  /\ key'[p][i][j] # key[p][i][j] => ~Pending(p, i, j)'

LEMMA WordWrites ==
  ASSUME FastFairInv, LeafInv, ScanInv, RestInv, Write, NEW z, InsertsSince' \subseteq {z},
         NEW p \in Linked, NEW i \in Slot, NEW j \in Word
  PROVE  WordStep(p, i, j)
<1> USE Constants
<1>0. /\ PageInv /\ SortedInv /\ PageInv' /\ p \in Page /\ j \in Nat
      /\ DOMAIN w = {"pc", "rec", "page", "new", "n", "hole", "word"}
  BY WriteKeeps DEF LeafInv, Linked, PageInv, WriterTypes, Word
<1>1. ASSUME NEW x \in Rec, NEW q \in Page, StoreFast(x, q) \/ StoreSplit(x, q)
      PROVE  WordStep(p, i, j)
  <2>1. InsertsSince = {} /\ w.pc = "idle"
    BY <1>1, StartsFirst DEF StoreFast, StoreSplit
  <2>2. key'[p] = key[p]
    BY <1>1, StoreSame DEF Same
  <2>3. QED
    BY <2>1, <2>2 DEF WordStep, Pending
<1>2. CASE Publish \/ Bump \/ Cut
  BY <1>2 DEF Publish, Bump, Cut, WordStep, Pending, Splitting
<1>e. w.pc \in Entry => w.word \in Nat /\ w.word >= 1 /\ w.word <= NumWord
                        /\ w.hole \in Nat /\ w.page \in Page /\ w.hole \in Slot
                        /\ (w.pc = "shift" => w.word = 1)
  <2>1. w.pc \in Entry => w.word \in Word /\ w.hole \in 0 .. Card - 2 /\ w.page \in Page
    BY <1>0, EntryIs
  <2>2. w.pc \in Entry => (w.pc = "shift" => w.word = 1)
    BY <1>0 DEF SortedInv, HoleInv, HoleAt
  <2>3. QED
    BY <2>1, <2>2 DEF Word
<1>3. CASE MoveEnd
  <2>1. w.pc = "end" /\ w' = [w EXCEPT !.pc = "shift"] /\ key' = key
    BY <1>3 DEF MoveEnd
  <2>2. w'.pc = "shift" /\ w'.page = w.page /\ w'.hole = w.hole
    BY <1>0, <2>1
  <2>3. QED
    BY <2>1, <2>2 DEF WordStep, Pending, Entry, Splitting
<1>4. CASE Shift
  <2>1. w.pc = "shift" /\ key' = key /\ w'.pc \in {"move", "key"}
        /\ w'.page = w.page /\ w'.hole = w.hole /\ w'.word = w.word
    BY <1>0, <1>4 DEF Shift
  <2>2. w.pc \in Entry /\ w.word = 1
    BY <1>e, <2>1 DEF Entry
  <2>3. QED
    BY <1>0, <2>1, <2>2 DEF WordStep, Pending, Entry, Splitting
<1>5. ASSUME NEW v \in Nat, w.pc \in {"move", "key"},
             key' = [key EXCEPT ![w.page][w.hole][w.word] = v],
             \/ /\ w.word < NumWord
                /\ w'.pc = w.pc /\ w'.page = w.page /\ w'.hole = w.hole
                /\ w'.word = w.word + 1
             \/ /\ w.word = NumWord /\ w.pc = "move"
                /\ w'.pc = "shift" /\ w'.page = w.page /\ w'.hole = w.hole - 1
             \/ /\ w.word = NumWord /\ w.pc = "key"
                /\ w'.pc = "ptr" /\ w'.page = w.page /\ w'.hole = w.hole
      PROVE  WordStep(p, i, j)
  <2>0. w.pc \in Entry
    BY <1>5 DEF Entry
  <2>1. /\ \A q \in Page \ {w.page} : key'[q] = key[q]
        /\ \A k \in Slot : k # w.hole => key'[w.page][k] = key[w.page][k]
        /\ \A k \in Word : key'[w.page][w.hole][k] =
                           IF k = w.word THEN v ELSE key[w.page][w.hole][k]
    BY <1>0, <1>5, <2>0, WordWritten
  <2>2. ~(p = w.page /\ i = w.hole /\ j = w.word) => key'[p][i][j] = key[p][i][j]
    BY <1>0, <2>1
  <2>3. Pending(p, i, j) <=> p = w.page /\ (i < w.hole \/ (i = w.hole /\ j >= w.word))
    BY <1>5, <2>0 DEF Pending, Entry, Splitting
  <2>4. Pending(p, i, j)' => p = w.page /\ (i < w.hole \/ (i = w.hole /\ j > w.word))
    <3>1. /\ w.word \in Nat /\ w.word <= NumWord /\ w.hole \in Nat /\ i \in Nat
          /\ j \in Nat /\ j <= NumWord
      BY <1>0, <1>e, <2>0 DEF Word
    <3>2. CASE w.word < NumWord
      BY <1>5, <3>1, <3>2 DEF Pending, Entry, Splitting
    <3>3. CASE w.word = NumWord
      BY <1>5, <3>1, <3>3 DEF Pending, Entry, Splitting
    <3>4. QED
      BY <3>1, <3>2, <3>3
  <2>5. i \in Nat /\ w.hole \in Nat /\ w.word \in Nat
    BY <1>e, <2>0
  <2>6. QED
    BY <1>0, <2>2, <2>3, <2>4, <2>5 DEF WordStep
<1>6. CASE MoveKey
  <2>1. w.pc = "move" /\ w.pc \in Entry
    BY <1>6 DEF MoveKey, Entry
  <2>2. key[w.page][w.hole - 1][w.word] \in Nat
    <3>1. w.hole - 1 \in Slot /\ w.page \in Page /\ w.word \in Word
      <4>1. w.hole >= 1
        BY <1>0, <2>1 DEF PageInv, HoleInPage
      <4>2. QED
        BY <1>0, <1>e, <2>1, <4>1, EntryIs
    <3>2. key[w.page][w.hole - 1] \in Keys
      BY <1>0, <3>1 DEF PageInv, PageTypes
    <3>3. QED
      BY <3>1, <3>2 DEF Keys
  <2>3. /\ key' = [key EXCEPT ![w.page][w.hole][w.word] = key[w.page][w.hole - 1][w.word]]
        /\ w' = IF w.word < NumWord THEN [w EXCEPT !.word = @ + 1]
                ELSE [w EXCEPT !.pc = "shift", !.hole = w.hole - 1, !.word = 1]
    BY <1>6 DEF MoveKey
  <2>4. CASE w.word < NumWord
    <3>1. w'.pc = w.pc /\ w'.page = w.page /\ w'.hole = w.hole /\ w'.word = w.word + 1
      BY <1>0, <2>3, <2>4
    <3>2. QED
      BY <1>5, <2>1, <2>2, <2>3, <2>4, <3>1
  <2>5. CASE ~(w.word < NumWord)
    <3>1. w.word = NumWord
      BY <1>e, <2>1, <2>5
    <3>2. w'.pc = "shift" /\ w'.page = w.page /\ w'.hole = w.hole - 1
      BY <1>0, <2>3, <2>5
    <3>3. QED
      BY <1>5, <2>1, <2>2, <2>3, <3>1, <3>2
  <2>6. QED
    BY <2>4, <2>5
<1>7. CASE SetKey
  <2>1. w.pc = "key" /\ w.pc \in Entry
    BY <1>7 DEF SetKey, Entry
  <2>2. KeyOf[w.rec][w.word] \in Nat
    BY <1>0, <2>1, EntryIs DEF Keys
  <2>3. /\ key' = [key EXCEPT ![w.page][w.hole][w.word] = KeyOf[w.rec][w.word]]
        /\ w' = IF w.word < NumWord THEN [w EXCEPT !.word = @ + 1]
                ELSE [w EXCEPT !.pc = "ptr"]
    BY <1>7 DEF SetKey
  <2>4. CASE w.word < NumWord
    <3>1. w'.pc = w.pc /\ w'.page = w.page /\ w'.hole = w.hole /\ w'.word = w.word + 1
      BY <1>0, <2>3, <2>4
    <3>2. QED
      BY <1>5, <2>1, <2>2, <2>3, <2>4, <3>1
  <2>5. CASE ~(w.word < NumWord)
    <3>1. w.word = NumWord
      BY <1>e, <2>1, <2>5
    <3>2. w'.pc = "ptr" /\ w'.page = w.page /\ w'.hole = w.hole
      BY <1>0, <2>3, <2>5
    <3>3. QED
      BY <1>5, <2>1, <2>2, <2>3, <3>1, <3>2
  <2>6. QED
    BY <2>4, <2>5
<1>8. CASE SetPtr
  <2>1. w'.pc = "idle" /\ key' = key
    BY <1>8 DEF SetPtr, IdleWriter
  <2>2. InsertsSince' # {}
    BY <1>8, SetSince
  <2>3. QED
    BY <2>1, <2>2 DEF WordStep, Pending, Splitting, Entry
<1>9. QED
  BY <1>1, <1>2, <1>3, <1>4, <1>6, <1>7, <1>8 DEF Write

-----------------------------------------------------------------------------
(* A pointer that is not null has its key next to it, also behind the end  *)
(* of a page, but in the hole from its pointer's change to that of its key.*)
InHole(p, i) == w.pc \in {"move", "key", "ptr"} /\ w.page = p /\ w.hole = i
Matched(p, i) == ptr[p][i] = Null \/ key[p][i] = KeyOf[ptr[p][i]]
Matches == \A p \in Page, i \in Slot : Matched(p, i) \/ InHole(p, i)

LEMMA SplitMatches ==
  ASSUME LeafInv, Matches, NEW x \in Rec, NEW p \in Page, StoreSplit(x, p)
  PROVE  Matches'
<1> USE Constants
<1>0. PageInv /\ SortedInv
  BY DEF LeafInv
<1>c. PICK c, m, s : c = Count(p) /\ m = c \div 2 /\ s = NewPage
  OBVIOUS
<1>1. SplitOf(x, p, c, m, s)
  BY <1>0, <1>c, SplitCopies
<1>2. /\ w.pc = "idle" /\ w'.pc = "publish" /\ s \in Page /\ m \in Nat /\ c = Card - 1
      /\ \A q \in Page \ {s} : key'[q] = key[q] /\ ptr'[q] = ptr[q]
  BY <1>1 DEF SplitOf
<1>3. ASSUME NEW i \in Slot PROVE Matched(s, i)'
  <2>1. ptr'[s][i] = IF i + m < c THEN ptr[p][i + m] ELSE Null
    BY <1>0, <1>2, <1>c DEF StoreSplit, PageInv, PageTypes
  <2>2. key'[s][i] = IF i + m < c THEN key[p][i + m] ELSE ZeroKey
    BY <1>0, <1>2, <1>c DEF StoreSplit, PageInv, PageTypes
  <2>3. CASE i + m < c
    <3>1. i + m \in Slot
      BY <1>2, <2>3
    <3>2. Matched(p, i + m)
      BY <1>2, <3>1 DEF Matches, InHole
    <3>3. QED
      BY <2>1, <2>2, <2>3, <3>2 DEF Matched
  <2>4. CASE ~(i + m < c)
    BY <2>1, <2>4 DEF Matched
  <2>5. QED
    BY <2>3, <2>4
<1>4. ASSUME NEW q \in Page, NEW i \in Slot, q # s PROVE Matched(q, i)'
  BY <1>2, <1>4 DEF Matches, Matched, InHole
<1>5. QED
  BY <1>3, <1>4 DEF Matches

LEMMA MatchesKept ==
  ASSUME LeafInv, Matches, Write
  PROVE  Matches'
<1> USE Constants
<1>0. /\ PageInv /\ SortedInv /\ PageInv'
      /\ DOMAIN w = {"pc", "rec", "page", "new", "n", "hole", "word"}
  BY WriteKeeps DEF LeafInv, PageInv, WriterTypes
<1>1. ASSUME NEW x \in Rec, NEW p \in Page, StoreFast(x, p) PROVE Matches'
  BY <1>1 DEF StoreFast, Matches, Matched, InHole, pageVars
<1>2. ASSUME NEW x \in Rec, NEW p \in Page, StoreSplit(x, p) PROVE Matches'
  BY <1>2, SplitMatches
<1>3. CASE Publish \/ Bump
  BY <1>3 DEF Publish, Bump, Matches, Matched, InHole
<1>4. CASE Cut
  <2>1. w.pc = "cut" /\ w.pc \in Splitting
    BY <1>4 DEF Cut, Splitting
  <2>2. w.page \in Page /\ w.n \in Slot
    BY <1>0, <2>1, SplitIs
  <2>3. \A q \in Page, i \in Slot : /\ key'[q][i] = key[q][i]
                                    /\ ptr'[q][i] = ptr[q][i] \/ ptr'[q][i] = Null
    BY <1>0, <1>4, <2>2 DEF Cut, PageInv, PageTypes
  <2>4. QED
    BY <2>1, <2>3 DEF Matches, Matched, InHole
<1>5. CASE MoveEnd
  <2>1. w.pc = "end" /\ w.pc \in Entry
    BY <1>5 DEF MoveEnd, Entry
  <2>2. ptr[w.page][w.n] = Null /\ w.page \in Page /\ w.n + 1 \in Slot
    <3>1. ptr[w.page][w.n] = Null
      BY <1>0, <2>1 DEF PageInv, HoleInPage
    <3>2. QED
      BY <1>0, <2>1, <3>1, EntryIs
  <2>3. \A q \in Page, i \in Slot : /\ key'[q][i] = key[q][i]
                                    /\ ptr'[q][i] = ptr[q][i] \/ ptr'[q][i] = Null
    BY <1>0, <1>5, <2>2 DEF MoveEnd, PageInv, PageTypes
  <2>4. QED
    BY <2>1, <2>3 DEF Matches, Matched, InHole
<1>6. CASE Shift
  <2>1. w.pc = "shift" /\ w.pc \in Entry
    BY <1>6 DEF Shift, Entry
  <2>2. w.page \in Page /\ w.hole \in Slot
    BY <1>0, <2>1, EntryIs
  <2>3. \A q \in Page, i \in Slot :
          key'[q][i] = key[q][i] /\ (~(q = w.page /\ i = w.hole) => ptr'[q][i] = ptr[q][i])
    BY <1>0, <1>6, <2>2 DEF Shift, PageInv, PageTypes
  <2>4. w'.pc \in {"move", "key"} /\ w'.page = w.page /\ w'.hole = w.hole
    BY <1>0, <1>6 DEF Shift
  <2>5. QED
    BY <2>1, <2>3, <2>4 DEF Matches, Matched, InHole
<1>7. CASE MoveKey
  <2>1. w.pc = "move" /\ w.pc \in Entry
    BY <1>7 DEF MoveKey, Entry
  <2>p. PICK p, h, word : p = w.page /\ h = w.hole /\ word = w.word
    OBVIOUS
  <2>2. /\ p \in Page /\ h \in Slot /\ h - 1 \in Slot /\ h # h - 1 /\ word \in Word
        /\ key[p] \in [Slot -> Keys]
    <3>1. h >= 1
      BY <1>0, <2>1, <2>p DEF PageInv, HoleInPage
    <3>2. QED
      BY <1>0, <2>1, <2>p, <3>1, EntryIs
  <2>3. /\ key' = [key EXCEPT ![p][h][word] = key[p][h - 1][word]] /\ ptr' = ptr
        /\ w' = IF word < NumWord THEN [w EXCEPT !.word = @ + 1]
                ELSE [w EXCEPT !.pc = "shift", !.hole = h - 1, !.word = 1]
    BY <1>7, <2>p DEF MoveKey
  <2>4. key[p][h - 1] \in [Word -> Nat] /\ key[p][h - 1][word] \in Nat
    BY <2>2 DEF Keys
  <2>5. /\ key'[p] \in [Slot -> Keys]
        /\ \A q \in Page \ {p} : key'[q] = key[q]
        /\ \A k \in Slot : k # h => key'[p][k] = key[p][k]
        /\ \A j \in Word : key'[p][h][j] =
                           IF j = word THEN key[p][h - 1][word] ELSE key[p][h][j]
    <3>1. PICK val \in Nat : val = key[p][h - 1][word]
      BY <2>4
    <3>2. key' = [key EXCEPT ![w.page][w.hole][w.word] = val]
      BY <2>3, <2>p, <3>1
    <3>3. /\ key'[w.page] \in [Slot -> Keys]
          /\ \A q \in Page \ {w.page} : key'[q] = key[q]
          /\ \A k \in Slot : k # w.hole => key'[w.page][k] = key[w.page][k]
          /\ \A j \in Word : key'[w.page][w.hole][j] =
                             IF j = w.word THEN val ELSE key[w.page][w.hole][j]
      BY <1>0, <2>1, <3>1, <3>2, WordWritten
    <3>4. QED
      BY <2>p, <3>1, <3>3
  <2>6. ASSUME NEW q \in Page, NEW i \in Slot, ~(q = p /\ i = h) PROVE Matched(q, i)'
    BY <2>3, <2>5, <2>6, <2>p DEF Matches, Matched, InHole
  <2>7. CASE word < NumWord
    <3>1. w'.pc = w.pc /\ w'.page = p /\ w'.hole = h
      BY <1>0, <2>3, <2>7, <2>p
    <3>2. QED
      BY <2>1, <2>6, <3>1 DEF Matches, InHole
  <2>8. CASE ~(word < NumWord)
    <3>1. ptr[p][h] = ptr[p][h - 1] /\ \A j \in 1 .. word - 1 : key[p][h][j] = key[p][h - 1][j]
      BY <1>0, <2>1, <2>p DEF SortedInv, HoleInv, HoleAt
    <3>2. \A j \in Word : key'[p][h][j] = key[p][h - 1][j]
      <4>1. \A j \in Word : j = word \/ j \in 1 .. word - 1
        BY <2>2, <2>8 DEF Word
      <4>2. QED
        BY <2>5, <3>1, <4>1
    <3>3. key'[p][h] \in [Word -> Nat]
      BY <2>2, <2>5 DEF Keys
    <3>4. key'[p][h] = key[p][h - 1]
      BY <2>4, <3>2, <3>3
    <3>5. Matched(p, h - 1)
      BY <2>2, <2>p DEF Matches, InHole
    <3>6. Matched(p, h)'
      BY <2>3, <3>1, <3>4, <3>5 DEF Matched
    <3>7. QED
      BY <2>6, <3>6 DEF Matches
  <2>9. QED
    BY <2>7, <2>8
<1>8. CASE SetKey
  <2>1. w.pc = "key" /\ w.pc \in Entry
    BY <1>8 DEF SetKey, Entry
  <2>2. KeyOf[w.rec][w.word] \in Nat
    BY <1>0, <2>1, EntryIs DEF Keys
  <2>3. /\ \A q \in Page \ {w.page} : key'[q] = key[q]
        /\ \A k \in Slot : k # w.hole => key'[w.page][k] = key[w.page][k]
    BY <1>0, <1>8, <2>1, <2>2, WordWritten DEF SetKey
  <2>4. w'.pc \in {"key", "ptr"} /\ w'.page = w.page /\ w'.hole = w.hole /\ ptr' = ptr
    BY <1>0, <1>8 DEF SetKey
  <2>5. QED
    BY <2>3, <2>4 DEF Matches, Matched, InHole
<1>9. CASE SetPtr
  <2>1. w.pc = "ptr" /\ w.pc \in Entry
    BY <1>9 DEF SetPtr, Entry
  <2>2. w.page \in Page /\ w.hole \in Slot
    BY <1>0, <2>1, EntryIs
  <2>3. \A q \in Page, i \in Slot :
          /\ key'[q][i] = key[q][i]
          /\ ptr'[q][i] = IF q = w.page /\ i = w.hole THEN w.rec ELSE ptr[q][i]
    BY <1>0, <1>9, <2>2 DEF SetPtr, PageInv, PageTypes
  <2>4. key[w.page][w.hole] = KeyOf[w.rec]
    BY <1>0, <2>1 DEF SortedInv, HoleInv, HoleAt
  <2>5. QED
    BY <2>3, <2>4 DEF Matches, Matched, InHole
<1>10. QED
  BY <1>1, <1>2, <1>3, <1>4, <1>5, <1>6, <1>7, <1>8, <1>9 DEF Write

-----------------------------------------------------------------------------
(* What a scan v has read of the entry it is at, if no more than one       *)
(* insert has run since it began: every word it has is there still, or     *)
(* will not be written again, so that a word it finds unlike its copy      *)
(* stays so.                                                               *)
ReadAt(v, n) ==
  \A j \in 1 .. n : v.tmp[j] = key[v.page][v.i][j] \/ ~Pending(v.page, v.i, j)
Differs(v, n) ==
  \E j \in Word : j >= n /\ v.tmp[j] # key[v.page][v.i][j] /\ ~Pending(v.page, v.i, j)
Fits(v) == v.p = Null \/ v.tmp = KeyOf[v.p]

(* The pointer it has is that of the left neighbour and will stay there.   *)
IsLeft(v) ==
  /\ v.i >= 1 /\ v.p = ptr[v.page][v.i - 1]
  /\ InHole(v.page, v.i) \/ (w.pc = "idle" /\ InsertsSince # {})

OneAt(v) ==
  /\ \A k \in 1 .. Len(v.buf) : InR(v, v.buf[k])
  /\ v.pc = "key" => ReadAt(v, v.word - 1)
  /\ v.pc \in {"ptr", "left", "again"} => Less(v.min, v.tmp) /\ Less(v.tmp, v.max)
  /\ v.pc \in {"ptr", "left"} => v.word = 1
  /\ v.pc = "ptr" => ReadAt(v, NumWord)
  /\ v.pc = "left" => Fits(v) \/ Differs(v, 1) \/ IsLeft(v)
  /\ v.pc = "again" => Fits(v) \/ Differs(v, v.word)

OneInv ==
  /\ RestInv /\ Matches
  /\ \A v, z : v = r /\ InsertsSince \subseteq {z} => OneAt(v)

LEMMA LeftKept ==
  ASSUME FastFairInv, LeafInv, ScanInv, RestInv, Matches, Write,
         NEW z, InsertsSince' \subseteq {z},
         NEW v, v.page \in Linked, v.i \in Slot, v.tmp \in Keys, v.p \in Rec \cup {Null},
         IsLeft(v)
  PROVE  Fits(v) \/ Differs(v, 1)' \/ IsLeft(v)'
<1> USE Constants
<1>0. /\ PageInv /\ SortedInv /\ PageInv'
      /\ DOMAIN w = {"pc", "rec", "page", "new", "n", "hole", "word"}
  BY WriteKeeps DEF LeafInv, PageInv, WriterTypes
<1>p. PICK p, i, x : p = v.page /\ i = v.i /\ x = v.p
  OBVIOUS
<1>1. p \in Page /\ p \in Linked /\ i \in Slot /\ i >= 1 /\ x = ptr[p][i - 1] /\ i - 1 \in Slot
  BY <1>p DEF IsLeft, Linked
<1>2. InHole(p, i)
  <2> SUFFICES ASSUME w.pc = "idle", InsertsSince # {} PROVE FALSE
    BY <1>p DEF IsLeft
  <2>1. \E y \in Rec, q \in Page : StoreFast(y, q) \/ StoreSplit(y, q)
    BY DEF Write, Publish, Bump, Cut, MoveEnd, Shift, MoveKey, SetKey, SetPtr
  <2>2. QED
    BY <2>1, StartsFirst
<1>3. w.pc \in {"move", "key", "ptr"} /\ w.page = p /\ w.hole = i /\ w.pc \in Entry
  BY <1>2 DEF InHole, Entry
<1>4. CASE MoveKey
  <2>p. PICK word : word = w.word
    OBVIOUS
  <2>1. /\ ptr' = ptr /\ w.pc = "move"
        /\ w' = IF word < NumWord THEN [w EXCEPT !.word = @ + 1]
                ELSE [w EXCEPT !.pc = "shift", !.hole = i - 1, !.word = 1]
    BY <1>3, <1>4, <2>p DEF MoveKey
  <2>2. CASE word < NumWord
    <3>1. InHole(p, i)'
      BY <1>0, <1>3, <2>1, <2>2 DEF InHole
    <3>2. QED
      BY <1>1, <1>p, <2>1, <3>1 DEF IsLeft
  <2>3. CASE ~(word < NumWord)
    <3>1. w'.pc = "shift" /\ w'.hole = i - 1 /\ w'.page = p
      BY <1>0, <1>3, <2>1, <2>3
    <3>2. \A j \in Word : ~Pending(p, i, j)'
      BY <1>1, <3>1 DEF Pending, Entry, Splitting
    <3>3. Matched(p, i) \/ ptr[p][i] = ptr[p][i - 1]
      BY <1>0, <1>3, <2>1 DEF SortedInv, HoleInv, HoleAt
    <3>4. ~InHole(p, i)' /\ Matches'
      BY <3>1, MatchesKept DEF InHole
    <3>5. Matched(p, i)'
      BY <1>1, <3>4 DEF Matches
    <3>6. ptr'[p][i] = x
      BY <1>0, <1>1, <1>3, <2>1 DEF SortedInv, HoleInv, HoleAt
    <3>7. x = Null \/ key'[p][i] = KeyOf[x]
      BY <3>5, <3>6 DEF Matched
    <3>8. CASE x # Null /\ v.tmp # KeyOf[x]
      <4>1. v.tmp \in [Word -> Nat] /\ KeyOf[x] \in [Word -> Nat]
        BY <1>p, <3>8 DEF Keys
      <4>2. PICK j \in Word : v.tmp[j] # KeyOf[x][j]
        BY <3>8, <4>1
      <4>3. j >= 1
        BY DEF Word
      <4>4. QED
        BY <1>p, <3>2, <3>7, <3>8, <4>2, <4>3 DEF Differs
    <3>9. QED
      BY <1>p, <3>8 DEF Fits
  <2>4. QED
    BY <2>2, <2>3
<1>5. CASE SetKey
  <2>1. ptr' = ptr /\ w'.pc \in {"key", "ptr"} /\ w'.page = p /\ w'.hole = i
    BY <1>0, <1>3, <1>5 DEF SetKey
  <2>2. QED
    BY <1>1, <1>p, <2>1 DEF IsLeft, InHole
<1>6. CASE SetPtr
  <2>1. ptr' = [ptr EXCEPT ![p][i] = w.rec] /\ w'.pc = "idle" /\ i # i - 1
    BY <1>1, <1>3, <1>6 DEF SetPtr, IdleWriter
  <2>2. ptr'[p][i - 1] = x
    BY <1>0, <1>1, <2>1 DEF PageInv, PageTypes
  <2>3. InsertsSince' # {}
    BY <1>6, SetSince
  <2>4. QED
    BY <1>1, <1>p, <2>1, <2>2, <2>3 DEF IsLeft
<1>7. MoveKey \/ SetKey \/ SetPtr
  BY <1>3 DEF Write, StoreFast, StoreSplit, Publish, Bump, Cut, MoveEnd, Shift
<1>8. QED
  BY <1>4, <1>5, <1>6, <1>7

LEMMA OneKept ==
  ASSUME FastFairInv, LeafInv, ScanInv, RestInv, Matches, Write,
         NEW z, InsertsSince' \subseteq {z}, NEW v, v = r, OneAt(v)
  PROVE  OneAt(v)'
<1> USE Constants
<1>1. /\ v.page \in Linked /\ v.i \in Slot /\ v.tmp \in Keys /\ v.p \in Rec \cup {Null}
      /\ v.word \in Word
  BY DEF ScanInv, ScanAt, FastFairInv, ScanTypes
<1>2. \A j \in Word : WordStep(v.page, v.i, j)
  BY <1>1, WordWrites
<1>3. ASSUME NEW n \in 0 .. NumWord, ReadAt(v, n) PROVE ReadAt(v, n)'
  <2>1. \A j \in 1 .. n : j \in Word
    BY DEF Word
  <2>2. QED
    BY <1>2, <1>3, <2>1 DEF ReadAt, WordStep
<1>4. ASSUME NEW n, Differs(v, n) PROVE Differs(v, n)'
  BY <1>2, <1>4 DEF Differs, WordStep
<1>5. v.word - 1 \in 0 .. NumWord /\ NumWord \in 0 .. NumWord
  BY <1>1 DEF Word
<1>6. IsLeft(v) => Fits(v) \/ Differs(v, 1)' \/ IsLeft(v)'
  BY <1>1, LeftKept
<1>7. Fits(v)' <=> Fits(v)
  BY DEF Fits
<1>8. /\ v.pc = "key" => ReadAt(v, v.word - 1)'
      /\ v.pc = "ptr" => ReadAt(v, NumWord)'
  BY <1>3, <1>5 DEF OneAt
<1>9. /\ v.pc = "left" => Fits(v)' \/ Differs(v, 1)' \/ IsLeft(v)'
      /\ v.pc = "again" => Fits(v)' \/ Differs(v, v.word)'
  BY <1>4, <1>6, <1>7 DEF OneAt
<1>10. /\ \A k \in 1 .. Len(v.buf) : InR(v, v.buf[k])'
       /\ v.pc \in {"ptr", "left", "again"} => Less(v.min, v.tmp)' /\ Less(v.tmp, v.max)'
  BY DEF OneAt, InR, Less
<1>11. QED
  BY <1>8, <1>9, <1>10 DEF OneAt

LEMMA WriteOne ==
  ASSUME FastFairInv, LeafInv, ScanInv, OneInv, Write
  PROVE  OneInv'
<1>1. RestInv' /\ Matches' /\ InsertsSince \subseteq InsertsSince'
  BY SinceGrows, MatchesKept DEF OneInv
<1>2. r' = r
  BY DEF Write, Writes, StoreFast, StoreSplit, Publish, Bump, Cut, MoveEnd, Shift,
         MoveKey, SetKey, SetPtr
<1>3. ASSUME NEW v, NEW z, v = r, InsertsSince' \subseteq {z}
      PROVE  OneAt(v)'
  <2>1. OneAt(v)
    BY <1>1, <1>3 DEF OneInv
  <2>2. QED
    BY <1>3, <2>1, OneKept DEF OneInv
<1>4. QED
  BY <1>1, <1>2, <1>3 DEF OneInv

-----------------------------------------------------------------------------
(* The steps of such a scan, from v to u.                                  *)
LEMMA StayOne ==
  ASSUME NEW v, NEW u, OneAt(v), u.buf = v.buf, u.min = v.min, u.max = v.max,
         u.pc \in {"page", "test", "check", "hop", "stopped", "ended"}
           \/ (u.pc = "key" /\ u.word = 1)
  PROVE  OneAt(u)
<1>1. \A k \in 1 .. Len(u.buf) : InR(u, u.buf[k])
  BY DEF OneAt, InR
<1>2. u.pc = "key" => ReadAt(u, u.word - 1)
  BY DEF ReadAt
<1>3. QED
  BY <1>1, <1>2 DEF OneAt

LEMMA EnterOne ==
  ASSUME ScanTypes, ScanInPage, NEW v, NEW u, v = r, u = r', OneAt(v), EnterPage
  PROVE  OneAt(u)
<1>1. /\ v.buf \in Seq(Rec) /\ v.old \in Nat /\ v.old <= Len(v.buf)
      /\ u = [v EXCEPT !.pc = "key", !.i = 0, !.word = 1, !.ctr = counter[v.page],
                       !.buf = SubSeq(@, 1, v.old)]
      /\ DOMAIN v = {"pc", "page", "i", "word", "tmp", "p", "ctr", "old", "min", "max", "buf"}
  BY DEF ScanTypes, ScanInPage, EnterPage
<1>2. /\ u.pc = "key" /\ u.word = 1 /\ u.min = v.min /\ u.max = v.max
      /\ u.buf = SubSeq(v.buf, 1, v.old)
  BY <1>1
<1>3. Len(u.buf) = v.old /\ \A k \in 1 .. v.old : u.buf[k] = v.buf[k]
  BY <1>1, <1>2
<1>4. \A k \in 1 .. Len(u.buf) : InR(u, u.buf[k])
  BY <1>1, <1>2, <1>3 DEF OneAt, InR
<1>5. ReadAt(u, u.word - 1)
  BY <1>2 DEF ReadAt
<1>6. QED
  BY <1>2, <1>4, <1>5 DEF OneAt

LEMMA ReadKeyOne ==
  ASSUME ScanTypes, PageTypes, NEW v, NEW u, v = r, u = r', OneAt(v), ReadKey
  PROVE  OneAt(u)
<1> USE Constants
<1>p. PICK tmp : tmp = [v.tmp EXCEPT ![v.word] = key[v.page][v.i][v.word]]
  OBVIOUS
<1>1. /\ v.pc = "key" /\ v.page \in Page /\ v.i \in Slot /\ v.word \in Word
      /\ v.tmp \in Keys /\ key[v.page][v.i] \in Keys
      /\ DOMAIN v = {"pc", "page", "i", "word", "tmp", "p", "ctr", "old", "min", "max", "buf"}
  BY DEF ScanTypes, PageTypes, ReadKey
<1>2. ReadAt(v, v.word - 1)
  BY <1>1 DEF OneAt
<1>3. \A j \in 1 .. v.word : tmp[j] = key[v.page][v.i][j] \/ ~Pending(v.page, v.i, j)
  <2>1. ASSUME NEW j \in 1 .. v.word
        PROVE  tmp[j] = key[v.page][v.i][j] \/ ~Pending(v.page, v.i, j)
    <3>1. tmp[v.word] = key[v.page][v.i][v.word] /\ (j # v.word => tmp[j] = v.tmp[j])
      BY <1>1, <1>p DEF Keys
    <3>2. j = v.word \/ j \in 1 .. v.word - 1
      BY <1>1 DEF Word
    <3>3. QED
      BY <1>2, <3>1, <3>2 DEF ReadAt
  <2>2. QED
    BY <2>1
<1>4. CASE v.word < NumWord
  <2>1. u = [v EXCEPT !.word = @ + 1, !.tmp = tmp]
    BY <1>4, <1>p DEF ReadKey
  <2>2. /\ u.pc = "key" /\ u.word - 1 = v.word /\ u.min = v.min /\ u.max = v.max
        /\ u.buf = v.buf /\ u.tmp = tmp /\ u.page = v.page /\ u.i = v.i
    BY <1>1, <2>1 DEF Word
  <2>3. ReadAt(u, u.word - 1)
    BY <1>3, <2>2 DEF ReadAt
  <2>4. \A k \in 1 .. Len(u.buf) : InR(u, u.buf[k])
    BY <2>2 DEF OneAt, InR
  <2>5. QED
    BY <2>2, <2>3, <2>4 DEF OneAt
<1>5. CASE ~(v.word < NumWord)
  <2>0. v.word = NumWord
    BY <1>1, <1>5 DEF Word
  <2>1. CASE ~(Less(v.min, tmp) /\ Less(tmp, v.max))
    <3>1. u = NextEntry \/ u = [v EXCEPT !.pc = "stopped"]
      BY <1>p, <2>0, <2>1 DEF ReadKey
    <3>2. /\ u.pc \in {"test", "stopped"} /\ u.min = v.min /\ u.max = v.max
          /\ u.buf = v.buf
      BY <1>1, <3>1 DEF NextEntry
    <3>3. QED
      BY <3>2, StayOne
  <2>2. CASE Less(v.min, tmp) /\ Less(tmp, v.max)
    <3>1. u = [v EXCEPT !.pc = "ptr", !.word = 1, !.tmp = tmp]
      BY <1>p, <2>0, <2>2 DEF ReadKey
    <3>2. /\ u.pc = "ptr" /\ u.word = 1 /\ u.min = v.min /\ u.max = v.max
          /\ u.buf = v.buf /\ u.tmp = tmp /\ u.page = v.page /\ u.i = v.i
      BY <1>1, <3>1
    <3>3. ReadAt(u, NumWord)
      BY <1>3, <2>0, <3>2 DEF ReadAt
    <3>4. \A k \in 1 .. Len(u.buf) : InR(u, u.buf[k])
      BY <3>2 DEF OneAt, InR
    <3>5. QED
      BY <2>2, <3>2, <3>3, <3>4 DEF OneAt
  <2>3. QED
    BY <2>1, <2>2
<1>6. QED
  BY <1>4, <1>5

(* A pointer next to its key goes with the copy, or the copy will be found *)
(* to be another key.                                                      *)
LEMMA FitsOrDiffers ==
  ASSUME NEW v, NEW u, v.tmp \in Keys, ReadAt(v, NumWord), Matched(v.page, v.i),
         u.tmp = v.tmp, u.page = v.page, u.i = v.i, u.p = ptr[v.page][v.i],
         u.p \in Rec \cup {Null}
  PROVE  Fits(u) \/ Differs(u, 1)
<1> USE Constants
<1> SUFFICES ASSUME u.p # Null, u.tmp # KeyOf[u.p] PROVE Differs(u, 1)
  BY DEF Fits
<1>1. key[v.page][v.i] = KeyOf[u.p]
  BY DEF Matched
<1>2. PICK f, g : f = v.tmp /\ g = KeyOf[u.p]
  OBVIOUS
<1>3. PICK j \in Word : f[j] # g[j]
  <2>1. f \in [Word -> Nat] /\ g \in [Word -> Nat] /\ f # g
    BY <1>2 DEF Keys
  <2>2. QED
    BY <2>1
<1>4. j \in 1 .. NumWord /\ j >= 1
  BY DEF Word
<1>5. QED
  BY <1>1, <1>2, <1>3, <1>4 DEF ReadAt, Differs

LEMMA ReadPtrOne ==
  ASSUME ScanTypes, ScanAt(r), LeafInv, Matches, NEW v, NEW u, v = r, u = r', OneAt(v), ReadPtr
  PROVE  OneAt(u)
<1> USE Constants
<1>p. PICK p, i, x : p = v.page /\ i = v.i /\ x = ptr[p][i]
  OBVIOUS
<1>1. /\ v.pc = "ptr" /\ p \in Page /\ i \in Slot /\ i \in Nat
      /\ v.tmp \in Keys /\ x \in Rec \cup {Null}
      /\ DOMAIN v = {"pc", "page", "i", "word", "tmp", "p", "ctr", "old", "min", "max", "buf"}
  BY <1>p DEF ScanTypes, LeafInv, PageInv, PageTypes, ReadPtr, Slot
<1>2. /\ ReadAt(v, NumWord) /\ v.word = 1 /\ Less(v.min, v.tmp) /\ Less(v.tmp, v.max)
      /\ \A k \in 1 .. Len(v.buf) : InR(v, v.buf[k])
  BY <1>1 DEF OneAt
<1>3. InHole(p, i) => x = IF i = 0 THEN Null ELSE ptr[p][i - 1]
  BY <1>p DEF InHole, LeafInv, TwinInv, TwinAt, Entry
<1>4. Matched(p, i) \/ InHole(p, i)
  BY <1>1 DEF Matches
<1>5. CASE i = 0 /\ x = Null
  <2>1. u = NextEntry
    BY <1>5, <1>p DEF ReadPtr
  <2>2. u.pc = "test" /\ u.buf = v.buf /\ u.min = v.min /\ u.max = v.max
    BY <1>1, <2>1 DEF NextEntry
  <2>3. QED
    BY <2>2, StayOne
<1>6. CASE ~(i = 0 /\ x = Null)
  <2>1. u = [v EXCEPT !.p = x, !.pc = IF i = 0 THEN "again" ELSE "left"]
    BY <1>6, <1>p DEF ReadPtr
  <2>2. /\ u.p = x /\ u.pc = (IF i = 0 THEN "again" ELSE "left") /\ u.page = p /\ u.i = i
        /\ u.buf = v.buf /\ u.min = v.min /\ u.max = v.max /\ u.tmp = v.tmp
        /\ u.word = 1
    BY <1>1, <1>2, <1>p, <2>1
  <2>3. Matched(p, i) => Fits(u) \/ Differs(u, 1)
    BY <1>1, <1>2, <1>p, <2>2, FitsOrDiffers
  <2>4. i = 0 => Fits(u) \/ Differs(u, u.word)
    BY <1>3, <1>4, <1>6, <2>2, <2>3
  <2>5. i # 0 => Fits(u) \/ Differs(u, 1) \/ IsLeft(u)
    <3>1. InHole(p, i) /\ i # 0 => IsLeft(u)
      BY <1>1, <1>3, <2>2 DEF IsLeft
    <3>2. QED
      BY <1>4, <2>3, <3>1
  <2>6. \A k \in 1 .. Len(u.buf) : InR(u, u.buf[k])
    BY <1>2, <2>2 DEF InR
  <2>7. QED
    BY <1>2, <2>2, <2>4, <2>5, <2>6 DEF OneAt
<1>7. QED
  BY <1>5, <1>6

LEMMA ReadLeftOne ==
  ASSUME ScanTypes, NEW v, NEW u, v = r, u = r', OneAt(v), ReadLeft
  PROVE  OneAt(u)
<1>1. /\ v.pc = "left"
      /\ DOMAIN v = {"pc", "page", "i", "word", "tmp", "p", "ctr", "old", "min", "max", "buf"}
  BY DEF ScanTypes, ReadLeft
<1>2. /\ v.word = 1 /\ Less(v.min, v.tmp) /\ Less(v.tmp, v.max)
      /\ Fits(v) \/ Differs(v, 1) \/ IsLeft(v)
      /\ \A k \in 1 .. Len(v.buf) : InR(v, v.buf[k])
  BY <1>1 DEF OneAt
<1>3. CASE v.p = ptr[v.page][v.i - 1]
  <2>1. u = NextEntry
    BY <1>3 DEF ReadLeft
  <2>2. u.pc = "test" /\ u.buf = v.buf /\ u.min = v.min /\ u.max = v.max
    BY <1>1, <2>1 DEF NextEntry
  <2>3. QED
    BY <2>2, StayOne
<1>4. CASE v.p # ptr[v.page][v.i - 1]
  <2>1. u = [v EXCEPT !.pc = "again"]
    BY <1>4 DEF ReadLeft
  <2>2. /\ u.pc = "again" /\ u.buf = v.buf /\ u.min = v.min /\ u.max = v.max
        /\ u.tmp = v.tmp /\ u.word = 1 /\ u.page = v.page /\ u.i = v.i /\ u.p = v.p
    BY <1>1, <1>2, <2>1
  <2>3. Fits(u) \/ Differs(u, u.word)
    BY <1>2, <1>4, <2>2 DEF IsLeft, Fits, Differs
  <2>4. \A k \in 1 .. Len(u.buf) : InR(u, u.buf[k])
    BY <1>2, <2>2 DEF InR
  <2>5. QED
    BY <1>2, <2>2, <2>3, <2>4 DEF OneAt
<1>5. QED
  BY <1>3, <1>4

LEMMA ReReadOne ==
  ASSUME ScanTypes, NEW v, NEW u, v = r, u = r', OneAt(v), ReReadKey
  PROVE  OneAt(u)
<1> USE Constants
<1>1. /\ v.pc = "again" /\ v.word \in Word /\ v.buf \in Seq(Rec) /\ v.p \in Rec \cup {Null}
      /\ DOMAIN v = {"pc", "page", "i", "word", "tmp", "p", "ctr", "old", "min", "max", "buf"}
  BY DEF ScanTypes, ReReadKey
<1>2. /\ Less(v.min, v.tmp) /\ Less(v.tmp, v.max)
      /\ Fits(v) \/ Differs(v, v.word)
      /\ \A k \in 1 .. Len(v.buf) : InR(v, v.buf[k])
  BY <1>1 DEF OneAt
<1>3. CASE v.tmp[v.word] # key[v.page][v.i][v.word]
  <2>1. u = NextEntry
    BY <1>3 DEF ReReadKey
  <2>2. u.pc = "test" /\ u.buf = v.buf /\ u.min = v.min /\ u.max = v.max
    BY <1>1, <2>1 DEF NextEntry
  <2>3. QED
    BY <2>2, StayOne
<1>4. CASE v.tmp[v.word] = key[v.page][v.i][v.word] /\ v.word < NumWord
  <2>1. u = [v EXCEPT !.word = @ + 1]
    BY <1>4 DEF ReReadKey
  <2>2. /\ u.pc = "again" /\ u.buf = v.buf /\ u.min = v.min /\ u.max = v.max
        /\ u.tmp = v.tmp /\ u.word = v.word + 1 /\ u.page = v.page /\ u.i = v.i /\ u.p = v.p
    BY <1>1, <2>1
  <2>3. Differs(v, v.word) => Differs(u, u.word)
    <3> SUFFICES ASSUME NEW j \in Word, j >= v.word, v.tmp[j] # key[v.page][v.i][j],
                        ~Pending(v.page, v.i, j)
                 PROVE  Differs(u, u.word)
      BY DEF Differs
    <3>1. j >= u.word
      BY <1>1, <1>4, <2>2 DEF Word
    <3>2. QED
      BY <2>2, <3>1 DEF Differs
  <2>4. Fits(v) => Fits(u)
    BY <2>2 DEF Fits
  <2>5. \A k \in 1 .. Len(u.buf) : InR(u, u.buf[k])
    BY <1>2, <2>2 DEF InR
  <2>6. QED
    BY <1>2, <2>2, <2>3, <2>4, <2>5 DEF OneAt
<1>5. CASE v.tmp[v.word] = key[v.page][v.i][v.word] /\ ~(v.word < NumWord)
  <2>1. u = [NextEntry EXCEPT !.buf = IF v.p = Null THEN @ ELSE Append(@, v.p)]
    BY <1>5 DEF ReReadKey
  <2>2. /\ u.pc = "test" /\ u.min = v.min /\ u.max = v.max
        /\ u.buf = IF v.p = Null THEN v.buf ELSE Append(v.buf, v.p)
    BY <1>1, <2>1 DEF NextEntry
  <2>3. CASE v.p = Null
    BY <2>2, <2>3, StayOne
  <2>4. CASE v.p # Null
    <3>1. ~Differs(v, v.word)
      <4>1. \A j \in Word : j >= v.word => j = v.word
        BY <1>1, <1>5 DEF Word
      <4>2. QED
        BY <1>5, <4>1 DEF Differs
    <3>2. v.tmp = KeyOf[v.p]
      BY <1>2, <2>4, <3>1 DEF Fits
    <3>3. InR(u, v.p)
      BY <1>2, <2>2, <3>2 DEF InR
    <3>4. /\ Len(u.buf) = Len(v.buf) + 1 /\ u.buf[Len(v.buf) + 1] = v.p
          /\ \A k \in 1 .. Len(v.buf) : u.buf[k] = v.buf[k]
      BY <1>1, <2>2, <2>4
    <3>5. Len(v.buf) \in Nat
      BY <1>1
    <3>6. ASSUME NEW k \in 1 .. Len(u.buf) PROVE InR(u, u.buf[k])
      <4>1. CASE k = Len(v.buf) + 1
        BY <3>3, <3>4, <4>1
      <4>2. CASE k # Len(v.buf) + 1
        <5>1. k \in 1 .. Len(v.buf)
          BY <3>4, <3>5, <4>2
        <5>2. u.buf[k] = v.buf[k] /\ InR(v, v.buf[k])
          BY <1>2, <3>4, <5>1
        <5>3. QED
          BY <2>2, <5>2 DEF InR
      <4>3. QED
        BY <4>1, <4>2
    <3>7. QED
      BY <2>2, <3>6 DEF OneAt
  <2>5. QED
    BY <2>3, <2>4
<1>6. QED
  BY <1>3, <1>4, <1>5

LEMMA OneSame ==
  ASSUME LeafInv, UNCHANGED <<pageVars, w, seen>>
  PROVE  /\ Indexed' = Indexed /\ InsertsSince' = InsertsSince
         /\ \A v : OneAt(v) => OneAt(v)'
<1>1. UNCHANGED <<key, ptr, sibling, last, w, seen>>
  BY DEF pageVars
<1>2. LeafInv'
  BY LeafFrame
<1>3. Linked' = Linked /\ \A p : Holds(p)' = Holds(p)
  BY <1>1, LinkSame DEF Holds, Alive, Live
<1>4. Indexed' = Indexed
  BY <1>2, <1>3, HeldIndexed, HeldIndexedNext DEF IndexedIs
<1>5. InsertsSince' = InsertsSince
  BY <1>1, <1>4 DEF InsertsSince
<1>6. \A p, i, j : Pending(p, i, j)' <=> Pending(p, i, j)
  BY <1>1, <1>5 DEF Pending
<1>7. ASSUME NEW v, OneAt(v) PROVE OneAt(v)'
  <2>1. /\ \A n : ReadAt(v, n)' <=> ReadAt(v, n)
        /\ \A n : Differs(v, n)' <=> Differs(v, n)
    BY <1>1, <1>6 DEF ReadAt, Differs
  <2>2. (IsLeft(v)' <=> IsLeft(v)) /\ (Fits(v)' <=> Fits(v))
    BY <1>1, <1>5 DEF IsLeft, InHole, Fits
  <2>3. /\ \A x : InR(v, x)' <=> InR(v, x)
        /\ Less(v.min, v.tmp)' <=> Less(v.min, v.tmp)
        /\ Less(v.tmp, v.max)' <=> Less(v.tmp, v.max)
    BY DEF InR, Less
  <2>4. QED
    BY <1>7, <2>1, <2>2, <2>3 DEF OneAt
<1>8. QED
  BY <1>4, <1>5, <1>7

LEMMA ScanOne ==
  ASSUME FastFairInv, LeafInv, ScanInv, QuietInv, OneInv, Scan
  PROVE  OneInv'
<1>1. UNCHANGED <<pageVars, w>>
  BY DEF Scan, Scans, ScanStart, EnterPage, ReadKey, ReadPtr, ReadLeft,
         ReReadKey, TestEntry, CheckCounter, HopSibling
<1>2. Matches'
  BY <1>1 DEF OneInv, Matches, Matched, InHole, pageVars
<1>3. CASE ScanStart
  <2>1. seen'.before = Indexed
    BY <1>3 DEF ScanStart
  <2>2. Indexed' = Indexed
    <3>1. UNCHANGED <<ptr, sibling, last, w>> /\ LeafInv'
      BY <1>1, LeafFrame DEF pageVars
    <3>2. Linked' = Linked /\ \A p : Holds(p)' = Holds(p)
      BY <3>1, LinkSame DEF Holds, Alive, Live
    <3>3. QED
      BY <3>1, <3>2, HeldIndexed, HeldIndexedNext DEF IndexedIs
  <2>3. RestInv'
    BY <1>1, <2>1, <2>2 DEF OneInv, RestInv
  <2>4. PICK u : u = r'
    OBVIOUS
  <2>5. u.pc = "page" /\ u.buf = << >>
    BY <1>3, <2>4 DEF ScanStart, QuietInv, FastFairInv, ScanTypes
  <2>6. \A k \in 1 .. Len(u.buf) : FALSE
    BY <2>5
  <2>7. OneAt(u)'
    BY <2>5, <2>6 DEF OneAt
  <2>8. QED
    BY <1>2, <2>3, <2>4, <2>7 DEF OneInv
<1>4. CASE ~ScanStart
  <2>1. seen' = seen
    BY <1>4 DEF Scan, Scans, EnterPage, ReadKey, ReadPtr, ReadLeft,
                ReReadKey, TestEntry, CheckCounter, HopSibling
  <2>2. /\ Indexed' = Indexed /\ InsertsSince' = InsertsSince
        /\ \A v : OneAt(v) => OneAt(v)'
    BY <1>1, <2>1, OneSame
  <2>3. RestInv'
    BY <1>1, <2>1, <2>2 DEF OneInv, RestInv
  <2>4. ASSUME NEW z, InsertsSince \subseteq {z}, NEW u, u = r' PROVE OneAt(u)
    <3>1. PICK v : v = r
      OBVIOUS
    <3>2. OneAt(v) /\ Matches
      BY <2>4, <3>1 DEF OneInv
    <3>3. ScanTypes /\ ScanInPage /\ PageTypes /\ ScanAt(r)
      BY DEF FastFairInv, PageInv, ScanInv
    <3>4. CASE EnterPage
      BY <2>4, <3>1, <3>2, <3>3, <3>4, EnterOne
    <3>5. CASE ReadKey
      BY <2>4, <3>1, <3>2, <3>3, <3>5, ReadKeyOne
    <3>6. CASE ReadPtr
      BY <2>4, <3>1, <3>2, <3>3, <3>6, ReadPtrOne
    <3>7. CASE ReadLeft
      BY <2>4, <3>1, <3>2, <3>3, <3>7, ReadLeftOne
    <3>8. CASE ReReadKey
      BY <2>4, <3>1, <3>2, <3>3, <3>8, ReReadOne
    <3>9. CASE TestEntry
      <4>1. v.word = 1
        BY <3>1, <3>3, <3>9 DEF TestEntry, ScanAt
      <4>2. /\ u.pc \in {"key", "check"} /\ u.word = v.word
            /\ u.buf = v.buf /\ u.min = v.min /\ u.max = v.max
        BY <2>4, <3>1, <3>3, <3>9 DEF TestEntry, ScanTypes
      <4>3. QED
        BY <3>2, <4>1, <4>2, StayOne
    <3>10. CASE CheckCounter \/ HopSibling
      <4>1. /\ u.pc \in {"page", "hop", "ended"}
            /\ u.buf = v.buf /\ u.min = v.min /\ u.max = v.max
        BY <2>4, <3>1, <3>3, <3>10 DEF CheckCounter, HopSibling, ScanTypes
      <4>2. QED
        BY <3>2, <4>1, StayOne
    <3>11. QED
      BY <1>4, <3>4, <3>5, <3>6, <3>7, <3>8, <3>9, <3>10 DEF Scan
  <2>5. QED
    BY <1>2, <2>2, <2>3, <2>4 DEF OneInv
<1>5. QED
  BY <1>3, <1>4

LEMMA OneInit == Init => OneInv
<1> SUFFICES ASSUME Init PROVE OneInv
  OBVIOUS
<1> USE Constants
<1>1. RestInv
  BY DEF Init, IdleWriter, RestInv
<1>2. Matches
  <2>1. PICK f \in Arrangements :
          /\ key = [p \in Page |-> [i \in Slot |->
                     IF p = First /\ i \in DOMAIN f THEN KeyOf[f[i]] ELSE ZeroKey]]
          /\ ptr = [p \in Page |-> [i \in Slot |->
                     IF p = First /\ i \in DOMAIN f THEN f[i] ELSE Null]]
    BY DEF Init
  <2>2. ASSUME NEW p \in Page, NEW i \in Slot PROVE Matched(p, i)
    BY <2>1 DEF Matched
  <2>3. QED
    BY <2>2 DEF Matches
<1>3. ASSUME NEW v, v = r PROVE OneAt(v)
  <2>1. v.pc = "idle" /\ v.buf = << >>
    BY <1>3 DEF Init, IdleScan
  <2>2. \A k \in 1 .. Len(v.buf) : FALSE
    BY <2>1
  <2>3. QED
    BY <2>1, <2>2 DEF OneAt
<1>4. QED
  BY <1>1, <1>2, <1>3 DEF OneInv

LEMMA OneStep ==
  FastFairInv /\ LeafInv /\ ScanInv /\ QuietInv /\ OneInv /\ [Next]_vars => OneInv'
<1> SUFFICES ASSUME FastFairInv, LeafInv, ScanInv, QuietInv, OneInv, [Next]_vars
             PROVE  OneInv'
  OBVIOUS
<1>1. CASE UNCHANGED vars
  <2>1. UNCHANGED <<pageVars, w, seen>> /\ r' = r
    BY <1>1 DEF vars
  <2>2. /\ Indexed' = Indexed /\ InsertsSince' = InsertsSince
        /\ \A v : OneAt(v) => OneAt(v)'
    BY <2>1, OneSame
  <2>3. RestInv' /\ Matches'
    BY <2>1, <2>2 DEF OneInv, RestInv, Matches, Matched, InHole, pageVars
  <2>4. QED
    BY <2>1, <2>2, <2>3 DEF OneInv
<1>2. QED
  BY <1>1, WriteOne, ScanOne DEF Next

(* A set of records is finite, and has one element at most if its          *)
(* cardinality says so.                                                    *)
LEMMA IndexedIsFinite ==
  ASSUME LeafInv
  PROVE  IsFiniteSet(Indexed)
<1> USE Constants
<1>1. PageInv /\ IndexedIs
  BY HeldIndexed DEF LeafInv
<1> DEFINE f == [t \in Page \X Slot |-> ptr[t[1]][t[2]]]
           S == {f[t] : t \in Page \X Slot}
<1>2. IsFiniteSet(Page \X Slot)
  <2>1. IsFiniteSet(Page) /\ IsFiniteSet(Slot)
    BY FS_Interval, FastFairAssumption DEF Page, Slot
  <2>2. QED
    BY <2>1, FS_Product
<1>3. IsFiniteSet(S)
  <2>1. f \in Surjection(Page \X Slot, S)
    BY Fun_IsSurj
  <2>2. QED
    BY <1>2, <2>1, FS_Surjection
<1>4. Indexed \subseteq S
  <2> SUFFICES ASSUME NEW x \in Indexed PROVE x \in S
    OBVIOUS
  <2>1. PICK q \in Linked : x \in Holds(q)
    BY <1>1 DEF IndexedIs
  <2>2. PICK i \in Alive(q) : x = ptr[q][i]
    BY <2>1 DEF Holds
  <2>3. q \in Page /\ i \in Slot
    BY <2>2, AliveIs DEF LeafInv
  <2>4. <<q, i>> \in Page \X Slot /\ f[<<q, i>>] = x
    BY <2>2, <2>3
  <2>5. QED
    BY <2>4
<1>5. QED
  BY <1>3, <1>4, FS_Subset

LEMMA AtMostOne ==
  ASSUME NEW S, IsFiniteSet(S), Cardinality(S) <= 1
  PROVE  \E z : S \subseteq {z}
<1>1. Cardinality(S) \in Nat
  BY FS_CardinalityType
<1>2. CASE Cardinality(S) = 0
  BY <1>2, FS_EmptySet
<1>3. CASE Cardinality(S) = 1
  BY <1>3, FS_Singleton
<1>4. QED
  BY <1>1, <1>2, <1>3

(* While no more than one insert runs beside a scan, what it returns is    *)
(* between min and max, although it reads keys and pointers while they are *)
(* shifted word by word and takes no lock, for every page size, key length *)
(* and number of pages (linear_search_range against store and insert_key). *)
THEOREM OneInsertStaysInRange == Spec => []ScanStaysInRange
<1>1. Init => FirstInv
  BY Constants DEF Init, IdleWriter, FirstInv, Splitting
<1>2. Spec => [](LeafInv /\ ScanInv /\ FirstInv)
  <2>1. LeafInv => SortedInv
    BY DEF LeafInv
  <2>2. QED
    BY <1>1, <2>1, ScanInit, ScanStep, SortedStep, Invariant, PTL DEF Spec
<1>3. Spec => [](JoinInv /\ QuietInv)
  BY <1>2, QuietInit, QuietStep, Invariant, PTL DEF Spec
<1>4. Spec => []OneInv
  BY <1>2, <1>3, OneInit, OneStep, Invariant, PTL DEF Spec
<1>5. LeafInv /\ OneInv => ScanStaysInRange
  <2> SUFFICES ASSUME LeafInv, OneInv, Cardinality(InsertsSince) <= 1
               PROVE  ScanReturnsRange
    BY DEF ScanStaysInRange
  <2>1. IsFiniteSet(InsertsSince)
    <3>1. IsFiniteSet(Indexed \cup {w.rec})
      BY IndexedIsFinite, FS_Singleton, FS_Union
    <3>2. InsertsSince \in SUBSET (Indexed \cup {w.rec})
      BY DEF InsertsSince
    <3>3. QED
      BY <3>1, <3>2, FS_Subset
  <2>2. PICK z : InsertsSince \subseteq {z}
    BY <2>1, AtMostOne
  <2>3. OneAt(r)
    BY <2>2 DEF OneInv
  <2>4. QED
    BY <2>3 DEF OneAt, InR, InRange, ScanReturnsRange
<1>6. QED
  BY <1>2, <1>4, <1>5, PTL

-----------------------------------------------------------------------------
Rng(b) == {b[k] : k \in 1 .. Len(b)}
Img(f, C) == {f[c[1]][c[2]] : c \in C}

(* What was read, b, and what is still to be read, the copies in C, are no *)
(* more than the records among them and M.                                 *)
Few(b, C, f, M) == Len(b) + Cardinality(C) <= Cardinality(Rng(b) \cup Img(f, C)) + M

LEMMA RngFinite ==
  ASSUME NEW b, Len(b) \in Nat
  PROVE  IsFiniteSet(Rng(b))
<1> DEFINE g == [k \in 1 .. Len(b) |-> b[k]]
<1>1. IsFiniteSet(1 .. Len(b))
  BY FS_Interval
<1>2. g \in Surjection(1 .. Len(b), Rng(b))
  BY Fun_IsSurj DEF Rng
<1>3. QED
  BY <1>1, <1>2, FS_Surjection

LEMMA ImgFinite ==
  ASSUME NEW C, IsFiniteSet(C), NEW f
  PROVE  IsFiniteSet(Img(f, C)) /\ Cardinality(Img(f, C)) <= Cardinality(C)
<1> DEFINE g == [c \in C |-> f[c[1]][c[2]]]
<1>1. g \in Surjection(C, Img(f, C))
  BY Fun_IsSurj DEF Img
<1>2. QED
  BY <1>1, FS_Surjection

LEMMA FewTypes ==
  ASSUME NEW b, Len(b) \in Nat, NEW C, IsFiniteSet(C), NEW f
  PROVE  /\ IsFiniteSet(Rng(b) \cup Img(f, C))
         /\ Cardinality(C) \in Nat /\ Cardinality(Rng(b) \cup Img(f, C)) \in Nat
<1>1. IsFiniteSet(Rng(b)) /\ IsFiniteSet(Img(f, C))
  BY RngFinite, ImgFinite
<1>2. IsFiniteSet(Rng(b) \cup Img(f, C))
  BY <1>1, FS_Union
<1>3. QED
  BY <1>2, FS_CardinalityType

(* Adding finitely many elements.                                          *)
LEMMA AtMostMore ==
  ASSUME NEW S, IsFiniteSet(S), NEW A, IsFiniteSet(A), NEW T, T \subseteq S \cup A
  PROVE  /\ IsFiniteSet(T) /\ Cardinality(T) <= Cardinality(S) + Cardinality(A)
         /\ Cardinality(T) \in Nat /\ Cardinality(S) \in Nat /\ Cardinality(A) \in Nat
<1>1. /\ IsFiniteSet(S \cup A)
      /\ Cardinality(S \cup A) = Cardinality(S) + Cardinality(A) - Cardinality(S \cap A)
  BY FS_Union
<1>2. T \in SUBSET (S \cup A) /\ S \cap A \in SUBSET S
  OBVIOUS
<1>3. IsFiniteSet(T) /\ IsFiniteSet(S \cap A) /\ Cardinality(T) <= Cardinality(S \cup A)
  BY <1>1, <1>2, FS_Subset
<1>4. /\ Cardinality(T) \in Nat /\ Cardinality(S) \in Nat /\ Cardinality(A) \in Nat
      /\ Cardinality(S \cap A) \in Nat
  BY <1>3, FS_CardinalityType
<1>5. QED
  BY <1>1, <1>3, <1>4

(* Copies that are passed over take no more records with them than they    *)
(* are.                                                                    *)
LEMMA FewerCopies ==
  ASSUME NEW b, Len(b) \in Nat, NEW C, IsFiniteSet(C), NEW D, D \subseteq C,
         NEW f, NEW g, \A c \in D : g[c[1]][c[2]] = f[c[1]][c[2]],
         NEW M \in Int, NEW N \in Int, M <= N, Few(b, C, f, M)
  PROVE  Few(b, D, g, N)
<1> DEFINE E == C \ D
           X == Rng(b) \cup Img(f, C)
           Y == Rng(b) \cup Img(g, D)
<1>1. D \in SUBSET C /\ C \cap D = D
  OBVIOUS
<1>2. IsFiniteSet(D) /\ IsFiniteSet(E) /\ Cardinality(E) = Cardinality(C) - Cardinality(D)
  BY <1>1, FS_Subset, FS_Difference
<1>3. IsFiniteSet(Img(f, E)) /\ Cardinality(Img(f, E)) <= Cardinality(E)
  BY <1>2, ImgFinite
<1>4. IsFiniteSet(Y) /\ IsFiniteSet(X)
  BY <1>2, FewTypes
<1>5. X \subseteq Y \cup Img(f, E)
  <2> SUFFICES ASSUME NEW x \in Img(f, C), x \notin Img(f, E) PROVE x \in Img(g, D)
    OBVIOUS
  <2>1. PICK c \in C : x = f[c[1]][c[2]]
    BY DEF Img
  <2>2. c \in D
    BY <2>1 DEF Img
  <2>3. QED
    BY <2>1, <2>2 DEF Img
<1> HIDE DEF E, X, Y
<1>6. /\ Cardinality(X) <= Cardinality(Y) + Cardinality(Img(f, E))
      /\ Cardinality(X) \in Nat /\ Cardinality(Y) \in Nat /\ Cardinality(Img(f, E)) \in Nat
  BY <1>3, <1>4, <1>5, AtMostMore
<1>7. Cardinality(C) \in Nat /\ Cardinality(D) \in Nat /\ Cardinality(E) \in Nat
  BY <1>2, FS_CardinalityType
<1>8. Len(b) + Cardinality(C) <= Cardinality(X) + M
  BY DEF Few, X
<1>9. Len(b) + Cardinality(D) <= Cardinality(Y) + N
  BY <1>2, <1>3, <1>6, <1>7, <1>8
<1>10. QED
  BY <1>9 DEF Few, Y

(* Copies that are added, while no record is lost.                         *)
LEMMA MoreCopies ==
  ASSUME NEW b, Len(b) \in Nat, NEW C, IsFiniteSet(C), NEW A, IsFiniteSet(A),
         NEW D, D \subseteq C \cup A, NEW f, NEW g,
         Img(f, C) \subseteq Rng(b) \cup Img(g, D),
         NEW M \in Int, NEW N \in Int, M + Cardinality(A) <= N, Few(b, C, f, M)
  PROVE  Few(b, D, g, N)
<1> DEFINE X == Rng(b) \cup Img(f, C)
           Y == Rng(b) \cup Img(g, D)
<1>1. /\ IsFiniteSet(D) /\ Cardinality(D) <= Cardinality(C) + Cardinality(A)
      /\ Cardinality(D) \in Nat /\ Cardinality(C) \in Nat /\ Cardinality(A) \in Nat
  BY AtMostMore
<1>2. IsFiniteSet(Y) /\ Cardinality(X) \in Nat /\ Cardinality(Y) \in Nat
  BY <1>1, FewTypes
<1>3. X \in SUBSET Y
  OBVIOUS
<1> HIDE DEF X, Y
<1>4. Cardinality(X) <= Cardinality(Y)
  BY <1>2, <1>3, FS_Subset
<1>5. Len(b) + Cardinality(C) <= Cardinality(X) + M
  BY DEF Few, X
<1>6. Len(b) + Cardinality(D) <= Cardinality(Y) + N
  BY <1>1, <1>2, <1>4, <1>5
<1>7. QED
  BY <1>6 DEF Few, Y

(* A new record in the place of a copy, or in one more place.              *)
LEMMA NewRecord ==
  ASSUME NEW b, Len(b) \in Nat, NEW C, IsFiniteSet(C), NEW h,
         NEW D, D \subseteq C \cup {h}, C \ {h} \subseteq D,
         NEW f, NEW g, \A c \in D \ {h} : g[c[1]][c[2]] = f[c[1]][c[2]],
         g[h[1]][h[2]] \notin Rng(b) \cup Img(f, C),
         NEW M \in Int, Few(b, C, f, M)
  PROVE  Few(b, D, g, M)
<1> DEFINE E == C \ {h}
<1>x. PICK x : x = g[h[1]][h[2]]
  OBVIOUS
<1>1. CASE h \notin D
  <2>1. D \subseteq C /\ \A c \in D : g[c[1]][c[2]] = f[c[1]][c[2]]
    BY <1>1
  <2>2. QED
    BY <2>1, FewerCopies
<1>2. CASE h \in D
  <2> DEFINE X == Rng(b) \cup Img(f, E)
             Y == Rng(b) \cup Img(g, D)
  <2>1. E \subseteq C /\ IsFiniteSet(E) /\ IsFiniteSet({h}) /\ Cardinality({h}) = 1
    BY FS_RemoveElement, FS_Singleton
  <2>2. Few(b, E, f, M)
    BY <2>1, FewerCopies
  <2>3. D \subseteq E \cup {h}
    OBVIOUS
  <2>4. IsFiniteSet(D) /\ Cardinality(D) <= Cardinality(E) + 1
        /\ Cardinality(D) \in Nat /\ Cardinality(E) \in Nat
    BY <2>1, <2>3, AtMostMore
  <2>5. IsFiniteSet(X) /\ IsFiniteSet(Y) /\ Cardinality(X) \in Nat /\ Cardinality(Y) \in Nat
    BY <2>1, <2>4, FewTypes
  <2>6. x \notin X
    BY <1>x DEF Img
  <2>7. X \cup {x} \in SUBSET Y
    <3>1. ASSUME NEW y \in Img(f, E) PROVE y \in Img(g, D)
      <4>1. PICK c \in E : y = f[c[1]][c[2]]
        BY <3>1 DEF Img
      <4>2. c \in D \ {h}
        OBVIOUS
      <4>3. QED
        BY <4>1, <4>2 DEF Img
    <3>2. x \in Img(g, D)
      BY <1>2, <1>x DEF Img
    <3>3. QED
      BY <3>1, <3>2
  <2>8. Len(b) + Cardinality(E) <= Cardinality(X) + M
    BY <2>2 DEF Few
  <2> HIDE DEF E, X, Y
  <2>9. Cardinality(X) + 1 <= Cardinality(Y)
    <3>1. Cardinality(X \cup {x}) = Cardinality(X) + 1
      BY <2>5, <2>6, FS_AddElement
    <3>2. QED
      BY <2>5, <2>7, <3>1, FS_Subset
  <2>10. Len(b) + Cardinality(D) <= Cardinality(Y) + M
    BY <2>4, <2>5, <2>8, <2>9
  <2>11. QED
    BY <2>10 DEF Few, Y
<1>3. QED
  BY <1>1, <1>2

(* A copy is read.                                                         *)
LEMMA CopyRead ==
  ASSUME NEW S, NEW b \in Seq(S), NEW C, IsFiniteSet(C), NEW c \in C, NEW f,
         NEW x \in S, x = f[c[1]][c[2]], NEW M \in Int, Few(b, C, f, M)
  PROVE  Few(Append(b, x), C \ {c}, f, M)
<1> DEFINE D == C \ {c}
           X == Rng(b) \cup Img(f, C)
           Y == Rng(Append(b, x)) \cup Img(f, D)
<1>1. Rng(Append(b, x)) = Rng(b) \cup {x}
  <2>1. /\ Len(b) \in Nat /\ Len(Append(b, x)) = Len(b) + 1
        /\ \A i \in 1 .. Len(b) : Append(b, x)[i] = b[i]
        /\ Append(b, x)[Len(b) + 1] = x
    BY AppendProperties, LenProperties
  <2>2. QED
    BY <2>1 DEF Rng
<1>2. Len(b) \in Nat /\ Len(Append(b, x)) = Len(b) + 1
  BY AppendProperties, LenProperties
<1>3. /\ Cardinality(D) = Cardinality(C) - 1 /\ IsFiniteSet(D)
      /\ Cardinality(C) \in Nat /\ Cardinality(D) \in Nat
  BY FS_RemoveElement, FS_CardinalityType
<1>4. Img(f, C) = Img(f, D) \cup {x}
  BY DEF Img
<1>5. X = Y /\ Cardinality(X) \in Nat
  BY <1>1, <1>2, <1>4, FewTypes
<1>6. Len(b) + Cardinality(C) <= Cardinality(X) + M
  BY DEF Few
<1> HIDE DEF D, X, Y
<1>7. Len(Append(b, x)) + Cardinality(D) <= Cardinality(Y) + M
  BY <1>2, <1>3, <1>5, <1>6
<1>8. QED
  BY <1>7 DEF Few, D, Y

(* What was read is not put out.                                           *)
LEMMA ReadLost ==
  ASSUME NEW S, NEW b \in Seq(S), NEW x \in S, NEW C, IsFiniteSet(C), NEW f,
         NEW M \in Int, Few(Append(b, x), C, f, M)
  PROVE  Few(b, C, f, M)
<1> DEFINE X == Rng(Append(b, x)) \cup Img(f, C)
           Y == Rng(b) \cup Img(f, C)
<1>1. Rng(Append(b, x)) \subseteq Rng(b) \cup {x}
  <2>1. /\ Len(b) \in Nat /\ Len(Append(b, x)) = Len(b) + 1
        /\ \A i \in 1 .. Len(b) : Append(b, x)[i] = b[i]
        /\ Append(b, x)[Len(b) + 1] = x
    BY AppendProperties, LenProperties
  <2>2. QED
    BY <2>1 DEF Rng
<1>2. Len(b) \in Nat /\ Len(Append(b, x)) = Len(b) + 1
  BY AppendProperties, LenProperties
<1>3. X \subseteq Y \cup {x} /\ IsFiniteSet(Y) /\ Cardinality(C) \in Nat
  BY <1>1, <1>2, FewTypes
<1>4. Len(Append(b, x)) + Cardinality(C) <= Cardinality(X) + M
  BY DEF Few
<1> HIDE DEF X, Y
<1>5. /\ Cardinality(X) <= Cardinality(Y) + 1
      /\ Cardinality(X) \in Nat /\ Cardinality(Y) \in Nat
  BY <1>3, AtMostMore, FS_Singleton
<1>6. Len(b) + Cardinality(C) <= Cardinality(Y) + M
  BY <1>2, <1>3, <1>4, <1>5
<1>7. QED
  BY <1>6 DEF Few, Y

-----------------------------------------------------------------------------
(* The slots a scan still comes to in a page with pointers f: from slot i  *)
(* up to the first null pointer; a null in slot i itself is no end if the  *)
(* scan is past the test, or if i is 0.                                    *)
Stretch(f, i) == {j \in Slot : j >= i /\ \A k \in i .. j : f[k] # Null}
Near(f, i, how) ==
  IF how = "past" THEN {j \in {i} : f[j] # Null} \cup Stretch(f, i + 1) ELSE Stretch(f, i)

After(p) == {q \in Page : sibling[p] # Null /\ q \in Right(sibling[p])}

(* ... and what it comes to from there on in the other pages.              *)
Copies(p, i, how) ==
  {c \in Page \X Slot :
     \/ c[1] = p /\ c[2] \in Near(ptr[p], i, how)
     \/ c[1] \in After(p) /\ c[2] \in Near(ptr[c[1]], 0, "past")}

(* The places a scan can be at.                                            *)
Place(i, how) == (how = "past" /\ i \in Slot) \/ (how = "at" /\ i \in 1 .. Card)

LEMMA NearIs ==
  ASSUME NEW f, NEW i, NEW how, Place(i, how)
  PROVE  /\ Near(f, i, how) \subseteq Slot
         /\ \A j \in Near(f, i, how) : j >= i /\ f[j] # Null
  BY Constants DEF Place, Near, Stretch

(* The pointer in slot h is replaced by a null pointer,                    *)
LEMMA NearCut ==
  ASSUME NEW f, NEW g, NEW h \in Slot, \A k \in Slot \ {h} : g[k] = f[k], g[h] = Null,
         NEW i, NEW how, Place(i, how)
  PROVE  Near(g, i, how) \subseteq Near(f, i, how) \ {h}
<1> USE Constants
<1>1. ASSUME NEW j \in Near(g, i, how) PROVE j \in Near(f, i, how) /\ j # h
  <2>1. CASE how = "past"
    BY <1>1, <2>1 DEF Place, Near, Stretch
  <2>2. CASE how = "at"
    BY <1>1, <2>2 DEF Place, Near, Stretch
  <2>3. QED
    BY <2>1, <2>2 DEF Place
<1>2. QED
  BY <1>1

(* by another pointer,                                                     *)
LEMMA NearChange ==
  ASSUME NEW f, NEW g, NEW h \in Slot, \A k \in Slot \ {h} : g[k] = f[k],
         g[h] # Null, f[h] # Null, NEW i, NEW how, Place(i, how)
  PROVE  Near(g, i, how) = Near(f, i, how)
<1> USE Constants
<1>1. \A k \in Slot : (g[k] # Null) <=> (f[k] # Null)
  OBVIOUS
<1>2. CASE how = "past"
  BY <1>1, <1>2 DEF Place, Near, Stretch
<1>3. CASE how = "at"
  BY <1>1, <1>3 DEF Place, Near, Stretch
<1>4. QED
  BY <1>2, <1>3 DEF Place

(* or a null pointer by it, before another one or in slot 0.               *)
LEMMA NearFill ==
  ASSUME NEW f, NEW g, NEW h \in Slot, \A k \in Slot \ {h} : g[k] = f[k],
         f[h] = Null, g[h] # Null, h = 0 \/ (h + 1 \in Slot /\ f[h + 1] = Null),
         NEW i, NEW how, Place(i, how)
  PROVE  /\ Near(f, i, how) \subseteq Near(g, i, how)
         /\ Near(g, i, how) \subseteq Near(f, i, how) \cup {h}
<1> USE Constants
<1>1. \A k \in Slot : f[k] # Null => g[k] # Null
  OBVIOUS
<1>2. ASSUME NEW j \in Near(f, i, how) PROVE j \in Near(g, i, how)
  <2>1. CASE how = "past"
    BY <1>1, <1>2, <2>1 DEF Place, Near, Stretch
  <2>2. CASE how = "at"
    BY <1>1, <1>2, <2>2 DEF Place, Near, Stretch
  <2>3. QED
    BY <2>1, <2>2 DEF Place
<1>3. ASSUME NEW j \in Near(g, i, how), j # h PROVE j \in Near(f, i, how)
  <2>1. CASE how = "past"
    BY <1>3, <2>1 DEF Place, Near, Stretch
  <2>2. CASE how = "at"
    BY <1>3, <2>2 DEF Place, Near, Stretch
  <2>3. QED
    BY <2>1, <2>2 DEF Place
<1>4. QED
  BY <1>2, <1>3

LEMMA NearTwin ==
  ASSUME NEW f, NEW i, NEW how, Place(i, how), NEW h \in Near(f, i, how),
         h + 1 \in Slot, f[h + 1] # Null
  PROVE  h + 1 \in Near(f, i, how)
<1> USE Constants
<1>1. CASE how = "past"
  BY <1>1 DEF Place, Near, Stretch
<1>2. CASE how = "at"
  BY <1>2 DEF Place, Near, Stretch
<1>3. QED
  BY <1>1, <1>2 DEF Place

(* What is before the first null pointer behind slot 0.                    *)
LEMMA NearBelow ==
  ASSUME NEW f, NEW n \in Slot, n >= 1, f[n] = Null
  PROVE  Near(f, 0, "past") \subseteq 0 .. n - 1
  BY Constants DEF Near, Stretch

-----------------------------------------------------------------------------
(* Places of all pages.                                                    *)
LEMMA CopiesFinite ==
  ASSUME NEW p, NEW i, NEW how
  PROVE  IsFiniteSet(Copies(p, i, how)) /\ Copies(p, i, how) \subseteq Page \X Slot
<1>1. IsFiniteSet(Page) /\ IsFiniteSet(Slot)
  BY FS_Interval, FastFairAssumption DEF Page, Slot
<1>2. IsFiniteSet(Page \X Slot)
  BY <1>1, FS_Product
<1>3. Copies(p, i, how) \in SUBSET (Page \X Slot)
  BY DEF Copies
<1>4. QED
  BY <1>2, <1>3, FS_Subset

LEMMA CopiesLinked ==
  ASSUME PageInv, NEW p \in Linked, NEW i, NEW how, NEW c \in Copies(p, i, how)
  PROVE  c[1] \in Linked /\ c[2] \in Slot /\ c[1] \in Page
<1>1. c[1] \in Page /\ c[2] \in Slot /\ (c[1] = p \/ c[1] \in After(p))
  BY DEF Copies
<1>2. CASE c[1] \in After(p)
  <2>1. sibling[p] \in Linked
    BY <1>2, Constants DEF After, Linked, PageInv, PageTypes
  <2>2. QED
    BY <1>1, <1>2, <2>1, RightLinked DEF After
<1>3. QED
  BY <1>1, <1>2

(* A pointer is written while the pages stay linked as they are.           *)
Written(q, h, y) ==
  /\ \A p \in Page : After(p)' = After(p)
  /\ \A p \in Page \ {q} : ptr'[p] = ptr[p]
  /\ \A k \in Slot \ {h} : ptr'[q][k] = ptr[q][k]
  /\ ptr'[q][h] = y

LEMMA OnePtr ==
  ASSUME PageInv, sibling' = sibling, NEW q \in Page, NEW h \in Slot,
         NEW y, ptr' = [ptr EXCEPT ![q][h] = y]
  PROVE  Written(q, h, y)
<1>1. ptr \in [Page -> [Slot -> Rec \cup {Null}]]
  BY DEF PageInv, PageTypes
<1>2. \A p \in Page : After(p)' = After(p)
  BY DEF After, Right, Closed
<1>3. QED
  BY <1>1, <1>2 DEF Written

LEMMA CopiesCut ==
  ASSUME NEW q \in Page, NEW h \in Slot, Written(q, h, Null),
         NEW p \in Page, NEW i, NEW how, Place(i, how)
  PROVE  /\ Copies(p, i, how)' \subseteq Copies(p, i, how)
         /\ \A c \in Copies(p, i, how)' : ptr'[c[1]][c[2]] = ptr[c[1]][c[2]]
<1>1. ASSUME NEW j, NEW b, Place(j, b), NEW k \in Page
      PROVE  /\ Near(ptr'[k], j, b) \subseteq Near(ptr[k], j, b)
             /\ k = q => h \notin Near(ptr'[k], j, b)
  <2>1. CASE k # q
    BY <2>1 DEF Written
  <2>2. CASE k = q
    <3>1. PICK f, g : f = ptr[k] /\ g = ptr'[k]
      OBVIOUS
    <3>2. (\A l \in Slot \ {h} : g[l] = f[l]) /\ g[h] = Null
      BY <2>2, <3>1 DEF Written
    <3>3. Near(g, j, b) \subseteq Near(f, j, b) \ {h}
      BY <1>1, <3>2, NearCut
    <3>4. QED
      BY <3>1, <3>3
  <2>3. QED
    BY <2>1, <2>2
<1>2. Place(0, "past")
  BY Constants DEF Place
<1>3. ASSUME NEW c \in Copies(p, i, how)'
      PROVE  c \in Copies(p, i, how) /\ ptr'[c[1]][c[2]] = ptr[c[1]][c[2]]
  <2>1. /\ c \in Page \X Slot /\ c[1] \in Page /\ c[2] \in Slot
        /\ \/ c[1] = p /\ c[2] \in Near(ptr'[p], i, how)
           \/ c[1] \in After(p) /\ c[2] \in Near(ptr'[c[1]], 0, "past")
    BY <1>3 DEF Copies, Written
  <2>a. PICK a, d : a = c[1] /\ d = c[2]
    OBVIOUS
  <2>b. /\ d \in Near(ptr'[p], i, how) => d \in Near(ptr[p], i, how) /\ ~(p = q /\ d = h)
        /\ d \in Near(ptr'[a], 0, "past") => d \in Near(ptr[a], 0, "past") /\ ~(a = q /\ d = h)
    BY <1>1, <1>2, <2>1, <2>a
  <2>2. c \in Copies(p, i, how) /\ ~(c[1] = q /\ c[2] = h)
    BY <2>1, <2>a, <2>b DEF Copies
  <2>3. QED
    BY <2>1, <2>2 DEF Written
<1>4. QED
  BY <1>3

LEMMA CopiesChange ==
  ASSUME NEW q \in Page, NEW h \in Slot, NEW y, Written(q, h, y), y # Null,
         ptr[q][h] # Null, NEW p \in Page, NEW i, NEW how, Place(i, how)
  PROVE  Copies(p, i, how)' = Copies(p, i, how)
<1>1. ASSUME NEW j, NEW b, Place(j, b), NEW k \in Page
      PROVE  Near(ptr'[k], j, b) = Near(ptr[k], j, b)
  <2>1. CASE k # q
    BY <2>1 DEF Written
  <2>2. CASE k = q
    BY <1>1, <2>2, NearChange DEF Written
  <2>3. QED
    BY <2>1, <2>2
<1>2. Place(0, "past")
  BY Constants DEF Place
<1>3. ASSUME NEW c \in Page \X Slot
      PROVE  c \in Copies(p, i, how)' <=> c \in Copies(p, i, how)
  <2>1. PICK a, d : a = c[1] /\ d = c[2] /\ a \in Page /\ d \in Slot
    OBVIOUS
  <2>2. /\ Near(ptr'[p], i, how) = Near(ptr[p], i, how)
        /\ Near(ptr'[a], 0, "past") = Near(ptr[a], 0, "past")
    BY <1>1, <1>2, <2>1
  <2>3. After(p)' = After(p)
    BY DEF Written
  <2>4. QED
    BY <2>1, <2>2, <2>3 DEF Copies
<1>4. QED
  BY <1>3 DEF Copies

LEMMA CopiesFill ==
  ASSUME NEW q \in Page, NEW h \in Slot, NEW y, Written(q, h, y), y # Null,
         ptr[q][h] = Null, h = 0 \/ (h + 1 \in Slot /\ ptr[q][h + 1] = Null),
         NEW p \in Page, NEW i, NEW how, Place(i, how)
  PROVE  /\ Copies(p, i, how) \subseteq Copies(p, i, how)'
         /\ Copies(p, i, how)' \subseteq Copies(p, i, how) \cup {<<q, h>>}
         /\ \A c \in Copies(p, i, how) : ptr'[c[1]][c[2]] = ptr[c[1]][c[2]]
<1>1. ASSUME NEW j, NEW b, Place(j, b), NEW k \in Page
      PROVE  /\ \A l \in Near(ptr[k], j, b) :
                  l \in Near(ptr'[k], j, b) /\ ~(k = q /\ l = h)
             /\ \A l \in Near(ptr'[k], j, b) :
                  l \in Near(ptr[k], j, b) \/ (k = q /\ l = h)
  <2>1. CASE k # q
    BY <2>1 DEF Written
  <2>2. CASE k = q
    <3>1. h \notin Near(ptr[k], j, b)
      BY <1>1, <2>2, NearIs
    <3>2. QED
      BY <1>1, <2>2, <3>1, NearFill DEF Written
  <2>3. QED
    BY <2>1, <2>2
<1>2. Place(0, "past")
  BY Constants DEF Place
<1>3. ASSUME NEW c \in Page \X Slot
      PROVE  /\ c \in Copies(p, i, how) =>
                  c \in Copies(p, i, how)' /\ ptr'[c[1]][c[2]] = ptr[c[1]][c[2]]
             /\ c \in Copies(p, i, how)' => c \in Copies(p, i, how) \/ c = <<q, h>>
  <2>1. c[1] \in Page /\ c[2] \in Slot /\ c = <<c[1], c[2]>>
    OBVIOUS
  <2>a. PICK a, d : a = c[1] /\ d = c[2] /\ a \in Page /\ d \in Slot
    BY <2>1
  <2>d. /\ d \in Near(ptr[p], i, how) => d \in Near(ptr'[p], i, how) /\ ~(p = q /\ d = h)
        /\ d \in Near(ptr'[p], i, how) => d \in Near(ptr[p], i, how) \/ (p = q /\ d = h)
    BY <1>1
  <2>e. /\ d \in Near(ptr[a], 0, "past") => d \in Near(ptr'[a], 0, "past") /\ ~(a = q /\ d = h)
        /\ d \in Near(ptr'[a], 0, "past") => d \in Near(ptr[a], 0, "past") \/ (a = q /\ d = h)
    BY <1>1, <1>2, <2>a
  <2>c. After(p)' = After(p)
    BY DEF Written
  <2>2. c \in Copies(p, i, how) => c \in Copies(p, i, how)' /\ ~(c[1] = q /\ c[2] = h)
    BY <2>a, <2>d, <2>e, <2>c DEF Copies
  <2>3. c \in Copies(p, i, how)' => c \in Copies(p, i, how) \/ (c[1] = q /\ c[2] = h)
    BY <2>a, <2>d, <2>e, <2>c DEF Copies
  <2>4. QED
    BY <2>1, <2>2, <2>3 DEF Written
<1>4. QED
  BY <1>3 DEF Copies

-----------------------------------------------------------------------------
(* What the insert that runs may still add to the copies.                  *)
Reserve ==
  IF w.pc = "publish" THEN UpperHalf + 1
  ELSE IF w.pc \in {"bump", "cut", "end"} \/ (w.pc = "shift" /\ w.hole = w.n) THEN 1
  ELSE 0

Budget == (UpperHalf + 1) * Cardinality(InsertsSince) - Reserve

LEMMA UpperIs == UpperHalf \in Nat /\ UpperHalf >= 1
  BY Constants DEF UpperHalf

LEMMA SinceFinite == LeafInv => IsFiniteSet(InsertsSince)
<1> SUFFICES ASSUME LeafInv PROVE IsFiniteSet(InsertsSince)
  OBVIOUS
<1>1. IsFiniteSet(Indexed \cup {w.rec})
  BY IndexedIsFinite, FS_Singleton, FS_Union
<1>2. InsertsSince \in SUBSET (Indexed \cup {w.rec})
  BY DEF InsertsSince
<1>3. QED
  BY <1>1, <1>2, FS_Subset

LEMMA SinceFiniteNext == LeafInv' => IsFiniteSet(InsertsSince)'
  BY SinceFinite, PTL

LEMMA Times ==
  ASSUME NEW k \in Nat, NEW a \in Nat, NEW b \in Nat
  PROVE  /\ k * a \in Nat
         /\ a <= b => k * a <= k * b
         /\ a + 1 <= b => k * a + k <= k * b
  OBVIOUS

LEMMA BudgetStep ==
  ASSUME LeafInv, ScanInv, RestInv, Write
  PROVE  /\ Budget \in Int /\ Budget' \in Int /\ Budget <= Budget'
         /\ w.pc = "publish" => Budget + UpperHalf <= Budget'
         /\ w.pc = "shift" /\ w.hole = w.n => Budget + 1 <= Budget'
<1> USE Constants, UpperIs
<1>p. PICK k, a, b, s, t : /\ k = UpperHalf + 1 /\ a = Cardinality(InsertsSince)
                           /\ b = Cardinality(InsertsSince') /\ s = Reserve /\ t = Reserve'
  OBVIOUS
<1>0. /\ LeafInv' /\ InsertsSince \in SUBSET InsertsSince' /\ PageInv /\ SortedInv
      /\ DOMAIN w = {"pc", "rec", "page", "new", "n", "hole", "word"}
  BY LeafStep, SinceGrows DEF LeafInv, PageInv, WriterTypes
<1>1. a \in Nat /\ b \in Nat /\ a <= b
  BY <1>0, <1>p, SinceFinite, SinceFiniteNext, FS_Subset, FS_CardinalityType
<1>2. k \in Nat /\ s \in Int /\ t \in Int /\ UpperHalf' = UpperHalf
  BY <1>p DEF Reserve, UpperHalf
<1>3. Budget = k * a - s /\ Budget' = k * b - t
  BY <1>p, <1>2 DEF Budget
<1>4. k * a \in Nat /\ k * b \in Nat /\ k * a <= k * b
  BY <1>1, <1>2, Times
<1>5. ASSUME NEW x \in Rec, NEW p \in Page, StoreFast(x, p) \/ StoreSplit(x, p)
      PROVE  k * a + k <= k * b /\ s = 0 /\ t <= k
  <2>1. /\ w.pc = "idle" /\ x \notin Indexed /\ w'.rec = x /\ w'.pc \in {"key", "end", "publish"}
    BY <1>5 DEF StoreFast, StoreSplit, Entering, IdleWriter
  <2>2. x \in InsertsSince'
    BY <1>5, <2>1, SinceGrows DEF InsertsSince, RestInv
  <2>3. x \notin InsertsSince
    BY <2>1, Constants DEF InsertsSince, RestInv
  <2>4. a # b
    <3>1. CASE a = b
      BY <1>0, <1>p, <2>2, <2>3, <3>1, SinceFiniteNext, FS_Subset
    <3>2. QED
      BY <3>1
  <2>5. k * a + k <= k * b
    BY <1>1, <1>2, <2>4, Times
  <2>6. s = 0 /\ t <= k
    BY <1>p, <1>2, <2>1 DEF Reserve
  <2>7. QED
    BY <2>5, <2>6
<1>6. CASE \E x \in Rec, p \in Page : StoreFast(x, p) \/ StoreSplit(x, p)
  <2>1. w.pc = "idle"
    BY <1>6 DEF StoreFast, StoreSplit
  <2>2. k * a + k <= k * b /\ s = 0 /\ t <= k
    BY <1>5, <1>6
  <2>3. QED
    BY <1>2, <1>3, <1>4, <2>1, <2>2
<1>7. CASE Publish
  <2>1. w.pc = "publish" /\ w'.pc = "bump"
    BY <1>0, <1>7 DEF Publish
  <2>2. s = k /\ t = 1
    BY <1>p, <1>2, <2>1 DEF Reserve
  <2>3. QED
    BY <1>2, <1>3, <1>4, <1>p, <2>1, <2>2
<1>8. CASE Bump \/ Cut \/ MoveEnd
  <2>1. w.pc \in {"bump", "cut", "end"}
    BY <1>8 DEF Bump, Cut, MoveEnd
  <2>2. w'.pc \in {"cut", "end", "key", "shift"}
    BY <1>0, <1>8 DEF Bump, Cut, MoveEnd, Entering, IdleWriter
  <2>3. s = 1 /\ t <= 1
    BY <1>p, <1>2, <2>1, <2>2 DEF Reserve
  <2>4. QED
    BY <1>2, <1>3, <1>4, <2>1, <2>3
<1>9. CASE Shift
  <2>1. w.pc = "shift" /\ w'.pc \in {"move", "key"}
    BY <1>0, <1>9 DEF Shift
  <2>2. t = 0 /\ s \in {0, 1} /\ (w.hole = w.n => s = 1)
    BY <1>p, <1>2, <2>1 DEF Reserve
  <2>3. QED
    BY <1>2, <1>3, <1>4, <2>1, <2>2
<1>10. CASE MoveKey \/ SetKey \/ SetPtr
  <2>1. w.pc \in {"move", "key", "ptr"} /\ w.pc \in Entry
    BY <1>10 DEF MoveKey, SetKey, SetPtr, Entry
  <2>2. t = 0
    <3>1. CASE w'.pc = "shift"
      <4>1. MoveKey /\ w'.hole = w.hole - 1 /\ w'.n = w.n
        <5>1. ~SetKey /\ ~SetPtr
          BY <1>0, <3>1 DEF SetKey, SetPtr, IdleWriter
        <5>2. MoveKey
          BY <1>10, <5>1
        <5>3. QED
          BY <1>0, <3>1, <5>2 DEF MoveKey
      <4>2. w.hole \in 0 .. w.n /\ w.n \in Nat
        BY <1>0, <2>1, EntryIs
      <4>3. QED
        BY <1>p, <1>2, <3>1, <4>1, <4>2 DEF Reserve
    <3>2. CASE w'.pc # "shift"
      <4>1. w'.pc \in {"move", "key", "ptr", "idle"}
        <5>1. MoveKey => w'.pc \in {"move", "shift"}
          BY <1>0 DEF MoveKey
        <5>2. SetKey => w'.pc \in {"key", "ptr"}
          BY <1>0 DEF SetKey
        <5>3. SetPtr => w'.pc = "idle"
          BY DEF SetPtr, IdleWriter
        <5>4. QED
          BY <1>10, <3>2, <5>1, <5>2, <5>3
      <4>2. QED
        BY <1>p, <1>2, <4>1 DEF Reserve
    <3>3. QED
      BY <3>1, <3>2
  <2>3. s = 0
    BY <1>p, <1>2, <2>1 DEF Reserve
  <2>4. QED
    BY <1>2, <1>3, <1>4, <2>1, <2>2, <2>3
<1>11. QED
  BY <1>6, <1>7, <1>8, <1>9, <1>10 DEF Write

-----------------------------------------------------------------------------
Taken(v) == IF v.pc \in {"left", "again"} /\ v.p # Null THEN Append(v.buf, v.p) ELSE v.buf
NextSlot(v) == IF v.pc \in {"key", "ptr", "test"} THEN v.i
               ELSE IF v.pc \in {"left", "again"} THEN v.i + 1 ELSE Card
How(v) == IF v.pc \in {"key", "ptr"} THEN "past" ELSE "at"

(* The scan as it is, and as it would be if it began its page again.       *)
FewNow(v) == Few(Taken(v), Copies(v.page, NextSlot(v), How(v)), ptr, Budget)
FewAgain(v) == Few(SubSeq(v.buf, 1, v.old), Copies(v.page, 0, "past"), ptr, Budget)

(* Every pointer in a leaf, old ones behind its end included, and all that *)
(* the scan has is that of an indexed record.                              *)
Known ==
  /\ \A p \in Chain, i \in Slot : ptr[p][i] \in Indexed \cup {Null}
  /\ \A b : b = Taken(r) => Rng(b) \subseteq Indexed

SplitHalf == w.pc \in Splitting => last[w.new] < UpperHalf

RepeatInv ==
  /\ SplitHalf /\ Known
  /\ \A v : v = r /\ v.pc # "idle" => FewNow(v) /\ FewAgain(v)

LEMMA RecIsNew ==
  ASSUME LeafInv, w.pc # "idle"
  PROVE  w.rec \notin Indexed
<1> SUFFICES ASSUME w.rec \in Indexed PROVE FALSE
  OBVIOUS
<1>0. PageInv /\ SortedInv /\ HalfInv
  BY DEF LeafInv
<1>1. PICK q \in Linked : w.rec \in Holds(q)
  BY IndexedHeld
<1>2. w.pc # "publish" \/ q # w.page => w.rec \in Content(q)
  BY <1>1 DEF Holds, Alive, Content
<1>3. CASE w.pc # "publish" \/ q # w.page
  BY <1>0, <1>1, <1>2, <1>3 DEF SortedInv, Apart, Chain
<1>4. CASE w.pc = "publish" /\ q = w.page
  <2>p. PICK p, s, n : p = w.page /\ s = w.new /\ n = w.n
    OBVIOUS
  <2>1. /\ n \in 1 .. Card - 2 /\ last[s] \in 0 .. Card - 3
        /\ Live(p) = 0 .. n - 1 /\ Live(s) = 0 .. last[s] /\ p \in Chain /\ s \in Chain
    BY <1>0, <1>4, <2>p, SplitIs DEF Splitting, Chain
  <2>2. /\ last[p] = n + last[s]
        /\ \A i \in 0 .. last[s] : ptr[s][i] = ptr[p][n + i]
    BY <1>0, <1>4, <2>p DEF HalfInv, Splitting
  <2>3. PICK k \in 0 .. last[p] : w.rec = ptr[p][k]
    BY <1>1, <1>4, <2>p DEF Holds, Alive
  <2>4. CASE k <= n - 1
    <3>1. k \in Live(p)
      BY <2>1, <2>4
    <3>2. QED
      BY <1>0, <1>4, <2>1, <2>3, <3>1 DEF SortedInv, Apart, Content
  <2>5. CASE k >= n
    <3>1. k - n \in Live(s) /\ ptr[s][k - n] = w.rec
      BY <2>1, <2>2, <2>3, <2>5
    <3>2. QED
      BY <1>0, <1>4, <2>1, <3>1 DEF SortedInv, Apart, Content
  <2>6. QED
    BY <2>1, <2>2, <2>4, <2>5
<1>5. QED
  BY <1>3, <1>4

-----------------------------------------------------------------------------
LEMMA KnownKept ==
  ASSUME LeafInv, ScanInv, RestInv, Known, Write
  PROVE  Known'
<1> USE Constants
<1>0. /\ PageInv /\ SortedInv /\ r' = r /\ Indexed \subseteq Indexed'
      /\ DOMAIN w = {"pc", "rec", "page", "new", "n", "hole", "word"}
      /\ ptr \in [Page -> [Slot -> Rec \cup {Null}]]
      /\ Linked \subseteq Page
  BY IndexedGrows DEF LeafInv, PageInv, PageTypes, WriterTypes, Linked,
         Write, Writes, StoreFast, StoreSplit, Publish, Bump, Cut, MoveEnd, Shift,
         MoveKey, SetKey, SetPtr
<1>a. /\ \A p \in Chain, i \in Slot : ptr[p][i] \in Indexed \cup {Null}
      /\ \A b : b = Taken(r) => Rng(b) \subseteq Indexed
  BY DEF Known
<1>b. \A b : b = Taken(r)' => Rng(b) \subseteq Indexed'
  <2>1. Taken(r)' = Taken(r)
    BY <1>0 DEF Taken
  <2>2. QED
    BY <1>0, <1>a, <2>1
<1>1. ASSUME NEW x \in Rec, NEW p \in Page, StoreFast(x, p) PROVE Known'
  <2>1. ptr' = ptr /\ sibling' = sibling /\ w.pc = "idle" /\ w'.pc # "publish"
    BY <1>1 DEF StoreFast, Entering, IdleWriter, pageVars
  <2>2. Chain' = Chain
    BY <2>1 DEF Chain, Linked
  <2>3. QED
    BY <1>0, <1>a, <1>b, <2>1, <2>2 DEF Known
<1>2. ASSUME NEW x \in Rec, NEW p \in Page, StoreSplit(x, p) PROVE Known'
  <2>p. PICK s, c, m : s = NewPage /\ c = Count(p) /\ m = c \div 2
    OBVIOUS
  <2>1. /\ SplitOf(x, p, c, m, s)
        /\ ptr' = [ptr EXCEPT ![s] =
                    [i \in Slot |-> IF i + m < c THEN ptr[p][i + m] ELSE Null]]
    BY <1>0, <1>2, <2>p, SplitCopies DEF StoreSplit
  <2>2. /\ Chain = Linked /\ Linked' = Linked /\ w'.pc = "publish" /\ w'.new = s
        /\ s \in Page /\ p \in Linked /\ c = Card - 1 /\ m \in Nat /\ s \notin Linked
        /\ Chain' = Linked \cup {s}
    BY <2>1 DEF SplitOf, Chain
  <2>3. ASSUME NEW q \in Chain', NEW i \in Slot PROVE ptr'[q][i] \in Indexed' \cup {Null}
    <3>1. CASE q = s
      <4>1. ptr'[q][i] = IF i + m < c THEN ptr[p][i + m] ELSE Null
        BY <1>0, <2>1, <2>2, <3>1
      <4>2. i + m < c => i + m \in Slot
        BY <2>2
      <4>3. QED
        BY <1>0, <1>a, <2>2, <4>1, <4>2
    <3>2. CASE q # s
      BY <1>0, <1>a, <2>1, <2>2, <2>3, <3>2
    <3>3. QED
      BY <3>1, <3>2
  <2>4. QED
    BY <1>b, <2>3 DEF Known
<1>3. CASE Publish
  <2>1. ptr' = ptr /\ w.pc = "publish" /\ w'.pc = "bump"
    BY <1>0, <1>3 DEF Publish
  <2>2. Linked' = Linked \cup {w.new}
    BY <1>0, <1>3, PublishSorted
  <2>3. Chain' = Chain
    BY <2>1, <2>2 DEF Chain
  <2>4. QED
    BY <1>0, <1>a, <1>b, <2>1, <2>3 DEF Known
<1>4. CASE Bump \/ MoveKey \/ SetKey
  <2>1. ptr' = ptr /\ sibling' = sibling /\ w.pc # "publish" /\ w'.pc # "publish"
    BY <1>0, <1>4 DEF Bump, MoveKey, SetKey
  <2>2. Chain' = Chain
    BY <2>1 DEF Chain, Linked
  <2>3. QED
    BY <1>0, <1>a, <1>b, <2>1, <2>2 DEF Known
<1>5. ASSUME NEW q \in Page, NEW h \in Slot, NEW y \in Indexed' \cup {Null},
             ptr' = [ptr EXCEPT ![q][h] = y], sibling' = sibling,
             w.pc # "publish", w'.pc # "publish"
      PROVE  Known'
  <2>1. Chain' = Chain /\ Chain \subseteq Page
    BY <1>0, <1>5 DEF Chain, Linked
  <2>2. ASSUME NEW p \in Chain, NEW i \in Slot PROVE ptr'[p][i] \in Indexed' \cup {Null}
    BY <1>0, <1>a, <1>5, <2>1
  <2>3. QED
    BY <1>b, <2>1, <2>2 DEF Known
<1>6. CASE Cut
  <2>1. /\ w.pc = "cut" /\ w.pc \in Splitting /\ sibling' = sibling /\ w'.pc # "publish"
        /\ ptr' = [ptr EXCEPT ![w.page][w.n] = Null]
    BY <1>6 DEF Cut, Entering, IdleWriter, Splitting
  <2>2. w.page \in Page /\ w.n \in Slot
    BY <1>0, <2>1, SplitIs
  <2>3. QED
    BY <1>5, <2>1, <2>2
<1>7. CASE MoveEnd \/ Shift \/ SetPtr
  <2>p. PICK p, n, h : p = w.page /\ n = w.n /\ h = w.hole
    OBVIOUS
  <2>1. w.pc \in {"end", "shift", "ptr"} /\ w.pc \in Entry /\ sibling' = sibling
    BY <1>7 DEF MoveEnd, Shift, SetPtr, Entry
  <2>2. /\ p \in Page /\ n \in 0 .. Card - 2 /\ h \in 0 .. Card - 2 /\ p \in Linked /\ p \in Chain
    BY <1>0, <2>1, <2>p, EntryIs DEF SortedInv, ChainInv, Chain
  <2>3. CASE MoveEnd
    <3>1. ptr' = [ptr EXCEPT ![p][n + 1] = ptr[p][n]] /\ w'.pc = "shift"
      BY <1>0, <2>p, <2>3 DEF MoveEnd
    <3>2. n \in Slot /\ n + 1 \in Slot
      BY <2>2
    <3>3. ptr[p][n] \in Indexed' \cup {Null}
      BY <1>0, <1>a, <2>2, <3>2
    <3>4. QED
      BY <1>5, <2>1, <2>2, <3>1, <3>2, <3>3
  <2>4. CASE Shift
    <3>p. PICK y : y = IF h = 0 THEN Null ELSE ptr[p][h - 1]
      OBVIOUS
    <3>1. ptr' = [ptr EXCEPT ![p][h] = y] /\ w'.pc \in {"move", "key"}
      BY <1>0, <2>p, <2>4, <3>p DEF Shift
    <3>2. h \in Slot /\ (h # 0 => h - 1 \in Slot)
      BY <2>2
    <3>3. y \in Indexed' \cup {Null}
      BY <1>0, <1>a, <2>2, <3>p, <3>2
    <3>4. QED
      BY <1>5, <2>1, <2>2, <3>1, <3>2, <3>3
  <2>5. CASE SetPtr
    <3>1. ptr' = [ptr EXCEPT ![p][h] = w.rec] /\ w'.pc = "idle" /\ h \in Slot
      BY <2>2, <2>p, <2>5 DEF SetPtr, IdleWriter
    <3>2. w.rec \in Indexed'
      BY <2>5, PutIndexed
    <3>3. QED
      BY <1>5, <2>1, <2>2, <3>1, <3>2
  <2>6. QED
    BY <1>7, <2>3, <2>4, <2>5
<1>8. QED
  BY <1>1, <1>2, <1>3, <1>4, <1>6, <1>7 DEF Write

LEMMA SplitHalfKept ==
  ASSUME LeafInv, SplitHalf, Write
  PROVE  SplitHalf'
<1> USE Constants, UpperIs
<1>0. /\ PageInv /\ SortedInv /\ UpperHalf' = UpperHalf
      /\ DOMAIN w = {"pc", "rec", "page", "new", "n", "hole", "word"}
  BY DEF LeafInv, PageInv, WriterTypes, UpperHalf
<1>1. ASSUME NEW x \in Rec, NEW p \in Page, StoreSplit(x, p) PROVE SplitHalf'
  <2>p. PICK s, c, m : s = NewPage /\ c = Count(p) /\ m = c \div 2
    OBVIOUS
  <2>1. SplitOf(x, p, c, m, s)
    BY <1>0, <1>1, <2>p, SplitCopies
  <2>2. w'.new = s /\ last'[s] = c - m - 1 /\ c = Card - 1 /\ m \in Nat
    BY <2>1 DEF SplitOf
  <2>3. last'[s] < UpperHalf
    BY <2>p, <2>2 DEF UpperHalf
  <2>4. QED
    BY <1>0, <2>2, <2>3 DEF SplitHalf
<1>2. CASE Publish \/ Bump
  <2>1. last' = last /\ w'.new = w.new /\ w.pc \in Splitting
    BY <1>0, <1>2 DEF Publish, Bump, Splitting
  <2>2. QED
    BY <1>0, <2>1 DEF SplitHalf
<1>3. CASE ~Publish /\ ~Bump /\ ~\E x \in Rec, p \in Page : StoreSplit(x, p)
  <2>1. CASE Cut \/ SetPtr \/ \E x \in Rec, p \in Page : StoreFast(x, p)
    <3>1. w'.pc \in {"idle", "key", "end"}
      <4>1. Cut => w'.pc \in {"key", "end"}
        BY DEF Cut, Entering, IdleWriter
      <4>2. SetPtr => w'.pc = "idle"
        BY DEF SetPtr, IdleWriter
      <4>3. ASSUME NEW x \in Rec, NEW p \in Page, StoreFast(x, p)
            PROVE  w'.pc \in {"key", "end"}
        BY <4>3 DEF StoreFast, Entering, IdleWriter
      <4>4. QED
        BY <2>1, <4>1, <4>2, <4>3
    <3>2. QED
      BY <3>1 DEF SplitHalf, Splitting
  <2>2. CASE MoveEnd \/ Shift
    BY <1>0, <2>2 DEF MoveEnd, Shift, SplitHalf, Splitting
  <2>3. CASE MoveKey
    BY <1>0, <2>3 DEF MoveKey, SplitHalf, Splitting
  <2>4. CASE SetKey
    BY <1>0, <2>4 DEF SetKey, SplitHalf, Splitting
  <2>5. QED
    BY <1>3, <2>1, <2>2, <2>3, <2>4 DEF Write
<1>4. QED
  BY <1>1, <1>2, <1>3

-----------------------------------------------------------------------------
(* What the writer's steps do to what was read and what is still to be     *)
(* read.                                                                   *)
LEMMA SameCopies ==
  ASSUME ptr' = ptr, sibling' = sibling, NEW p, NEW i, NEW how
  PROVE  Copies(p, i, how)' = Copies(p, i, how)
<1>1. After(p)' = After(p)
  BY DEF After, Right, Closed
<1>2. QED
  BY <1>1 DEF Copies

LEMMA StaySame ==
  ASSUME LeafInv, ScanInv, RestInv, Write,
         NEW p \in Linked, NEW i, NEW how, NEW b, Len(b) \in Nat,
         Few(b, Copies(p, i, how), ptr, Budget),
         Copies(p, i, how)' \subseteq Copies(p, i, how),
         \A c \in Copies(p, i, how)' : ptr'[c[1]][c[2]] = ptr[c[1]][c[2]]
  PROVE  Few(b, Copies(p, i, how)', ptr', Budget')
<1>1. Budget \in Int /\ Budget' \in Int /\ Budget <= Budget'
  BY BudgetStep
<1>2. IsFiniteSet(Copies(p, i, how))
  BY CopiesFinite
<1>3. PICK C, D, f, g, M, N : /\ C = Copies(p, i, how) /\ D = Copies(p, i, how)'
                              /\ f = ptr /\ g = ptr' /\ M = Budget /\ N = Budget'
  OBVIOUS
<1>4. /\ D \subseteq C /\ IsFiniteSet(C) /\ \A c \in D : g[c[1]][c[2]] = f[c[1]][c[2]]
      /\ M \in Int /\ N \in Int /\ M <= N /\ Few(b, C, f, M)
  BY <1>1, <1>2, <1>3
<1>5. Few(b, D, g, N)
  BY <1>4, FewerCopies
<1>6. QED
  BY <1>3, <1>5

LEMMA StoreCopies ==
  ASSUME LeafInv, NEW x \in Rec, NEW q \in Page, StoreSplit(x, q),
         NEW p \in Linked, NEW i, NEW how
  PROVE  /\ Copies(p, i, how)' = Copies(p, i, how)
         /\ \A c \in Copies(p, i, how) : ptr'[c[1]][c[2]] = ptr[c[1]][c[2]]
<1> USE Constants
<1>0. PageInv /\ p \in Page /\ Linked \subseteq Page
  BY DEF LeafInv, Linked
<1>1. Same
  BY StoreSame
<1>2. sibling'[p] = sibling[p] /\ \A a \in Linked : ptr'[a] = ptr[a]
  BY <1>1 DEF Same
<1>3. After(p)' = After(p)
  <2>1. CASE sibling[p] = Null
    BY <1>2, <2>1 DEF After
  <2>2. CASE sibling[p] # Null
    <3>1. PICK s : s = sibling[p]
      OBVIOUS
    <3>2. s \in Linked
      BY <1>0, <2>2, <3>1 DEF PageInv, PageTypes, Linked
    <3>3. Right(s)' = Right(s)
      BY <1>0, <1>1, <3>2, RightSame
    <3>4. QED
      BY <1>2, <2>2, <3>1, <3>3 DEF After
  <2>3. QED
    BY <2>1, <2>2
<1>4. After(p) \subseteq Linked
  <2>1. sibling[p] # Null => sibling[p] \in Linked
    BY <1>0 DEF PageInv, PageTypes, Linked
  <2>2. QED
    BY <1>0, <2>1, RightLinked DEF After
<1>5. \A c \in Page \X Slot : c[1] = p \/ c[1] \in After(p) => ptr'[c[1]] = ptr[c[1]]
  BY <1>2, <1>4
<1>6. Copies(p, i, how)' = Copies(p, i, how)
  BY <1>2, <1>3, <1>5 DEF Copies
<1>7. QED
  BY <1>5, <1>6 DEF Copies

LEMMA PublishCopies ==
  ASSUME LeafInv, SplitHalf, Publish, NEW p \in Linked, NEW i, NEW how
  PROVE  /\ Copies(p, i, how) \subseteq Copies(p, i, how)'
         /\ \E A : /\ IsFiniteSet(A) /\ Cardinality(A) <= UpperHalf /\ Cardinality(A) \in Nat
                   /\ Copies(p, i, how)' \subseteq Copies(p, i, how) \cup A
         /\ ptr' = ptr
<1> USE Constants, UpperIs
<1>p. PICK q, s, n : q = w.page /\ s = w.new /\ n = last[s] + 1
  OBVIOUS
<1>0. /\ PageInv /\ SortedInv /\ w.pc = "publish" /\ w.pc \in Splitting /\ p \in Page
      /\ Linked \subseteq Page
  BY DEF LeafInv, Publish, Splitting, Linked
<1>1. /\ q \in Page /\ q \in Linked /\ s \in Page /\ s # q /\ n \in 1 .. Card - 2 /\ n \in Slot
      /\ ptr[s][n] = Null /\ n <= UpperHalf /\ s \notin Linked
      /\ sibling[s] = sibling[q] /\ sibling \in [Page -> Page \cup {Null}]
  BY <1>0, <1>p, SplitIs DEF SplitHalf, SortedInv, SplitInv
<1>2. sibling' = [sibling EXCEPT ![q] = s] /\ ptr' = ptr
  BY <1>p DEF Publish
<1>3. \A h \in Page : sibling'[h] = IF h = q THEN s ELSE sibling[h]
  BY <1>1, <1>2
<1>4. After(p) \subseteq After(p)'
  <2> SUFFICES ASSUME NEW a \in After(p), NEW S \in SUBSET Page, sibling'[p] \in S, Closed(S)'
               PROVE  sibling'[p] # Null /\ a \in S
    BY <1>0, <1>1, <1>3 DEF After, Right
  <2>1. Closed(S)
    BY ClosedKept DEF Write
  <2>2. sibling[p] # Null /\ a \in Right(sibling[p])
    BY DEF After
  <2>3. sibling[p] \in S
    <3>1. CASE p = q
      <4>1. s \in S /\ sibling'[s] = sibling[p] /\ sibling'[s] # Null
        BY <1>1, <1>3, <2>2, <3>1
      <4>2. QED
        BY <4>1 DEF Closed
    <3>2. CASE p # q
      BY <1>0, <1>3, <3>2
    <3>3. QED
      BY <3>1, <3>2
  <2>4. QED
    BY <1>0, <1>1, <1>3, <2>1, <2>2, <2>3 DEF Right
<1>5. After(p)' \subseteq After(p) \cup {s}
  <2> SUFFICES ASSUME NEW a \in After(p)', a # s PROVE a \in After(p)
    OBVIOUS
  <2>1. /\ sibling'[p] # Null /\ a \in Page
        /\ \A S \in SUBSET Page : sibling'[p] \in S /\ Closed(S)' => a \in S
    BY DEF After, Right
  <2>2. \A h \in After(p) : sibling[h] # Null => sibling[h] \in After(p)
    <3> SUFFICES ASSUME NEW h \in After(p), sibling[h] # Null PROVE sibling[h] \in After(p)
      OBVIOUS
    <3>1. h \in Page /\ sibling[p] # Null /\ h \in Right(sibling[p])
      BY DEF After
    <3>2. sibling[h] \in Page /\ sibling[h] \in Right(h)
      BY <1>0, <3>1, RightNext
    <3>3. sibling[h] \in Right(sibling[p])
      BY <3>1, <3>2, RightTrans
    <3>4. QED
      BY <3>1, <3>2, <3>3 DEF After
  <2>3. sibling[p] # Null => sibling[p] \in After(p)
    BY <1>0, <1>1, RightSelf DEF After
  <2>4. CASE p = q \/ q \in After(p)
    <3>s. PICK S : S = After(p) \cup {s}
      OBVIOUS
    <3>1. sibling[q] # Null => sibling[q] \in After(p)
      BY <2>2, <2>3, <2>4
    <3>2. Closed(S)'
      <4> SUFFICES ASSUME NEW h \in S, sibling'[h] # Null PROVE sibling'[h] \in S
        BY DEF Closed
      <4>1. h \in Page
        BY <1>1, <3>s DEF After
      <4>2. QED
        BY <1>1, <1>3, <2>2, <3>1, <3>s, <4>1
    <3>3. S \in SUBSET Page /\ sibling'[p] \in S
      <4>1. S \in SUBSET Page
        BY <1>1, <3>s DEF After
      <4>2. QED
        BY <1>0, <1>1, <1>3, <2>1, <2>3, <3>s, <4>1
    <3>4. a \in S
      BY <2>1, <3>2, <3>3
    <3>5. QED
      BY <3>s, <3>4
  <2>5. CASE p # q /\ q \notin After(p)
    <3>s. PICK S : S = After(p)
      OBVIOUS
    <3>1. Closed(S)'
      <4> SUFFICES ASSUME NEW h \in S, sibling'[h] # Null PROVE sibling'[h] \in S
        BY DEF Closed
      <4>1. h \in Page /\ h # q
        BY <2>5, <3>s DEF After
      <4>2. QED
        BY <1>3, <2>2, <3>s, <4>1
    <3>2. S \in SUBSET Page /\ sibling'[p] \in S
      <4>1. S \in SUBSET Page
        BY <3>s DEF After
      <4>2. QED
        BY <1>0, <1>3, <2>1, <2>3, <2>5, <3>s, <4>1
    <3>3. a \in S
      BY <2>1, <3>1, <3>2
    <3>4. QED
      BY <3>s, <3>3
  <2>6. QED
    BY <2>4, <2>5
<1> DEFINE A == {s} \X (0 .. n - 1)
<1>6. IsFiniteSet(A) /\ Cardinality(A) = n
  <2>a. 0 \in Int /\ n - 1 \in Int /\ n >= 1 /\ n \in Int
    BY <1>1
  <2>b. /\ IsFiniteSet(0 .. n - 1)
        /\ Cardinality(0 .. n - 1) = IF 0 > n - 1 THEN 0 ELSE (n - 1) - 0 + 1
    BY <2>a, FS_Interval
  <2>1. IsFiniteSet(0 .. n - 1) /\ Cardinality(0 .. n - 1) = n
    BY <2>a, <2>b
  <2>2. IsFiniteSet({s}) /\ Cardinality({s}) = 1
    BY FS_Singleton
  <2>3. QED
    BY <1>1, <2>1, <2>2, FS_Product
<1>7. Near(ptr[s], 0, "past") \subseteq 0 .. n - 1
  BY <1>1, NearBelow
<1>8. Copies(p, i, how) \subseteq Copies(p, i, how)'
  BY <1>2, <1>4 DEF Copies
<1>9. Copies(p, i, how)' \subseteq Copies(p, i, how) \cup A
  <2> SUFFICES ASSUME NEW c \in Copies(p, i, how)', c \notin Copies(p, i, how) PROVE c \in A
    OBVIOUS
  <2>1. c \in Page \X Slot /\ c[1] \in After(p)' /\ c[1] \notin After(p)
        /\ c[2] \in Near(ptr[c[1]], 0, "past")
    BY <1>2 DEF Copies
  <2>2. c[1] = s /\ c = <<c[1], c[2]>>
    BY <1>5, <2>1
  <2>3. QED
    BY <1>7, <2>1, <2>2
<1>10. QED
  BY <1>1, <1>2, <1>6, <1>8, <1>9

LEMMA PublishFew ==
  ASSUME LeafInv, ScanInv, RestInv, SplitHalf, Publish,
         NEW p \in Linked, NEW i, NEW how, NEW b, Len(b) \in Nat,
         Few(b, Copies(p, i, how), ptr, Budget)
  PROVE  Few(b, Copies(p, i, how)', ptr', Budget')
<1> USE UpperIs
<1>1. Budget \in Int /\ Budget' \in Int /\ Budget + UpperHalf <= Budget'
  <2>1. w.pc = "publish" /\ Write
    BY DEF Publish, Write
  <2>2. QED
    BY <2>1, BudgetStep
<1>2. PICK C, D, f, M, N : /\ C = Copies(p, i, how) /\ D = Copies(p, i, how)'
                           /\ f = ptr /\ M = Budget /\ N = Budget'
  OBVIOUS
<1>3. ptr' = f /\ C \subseteq D
  BY <1>2, PublishCopies
<1>4. PICK A : /\ IsFiniteSet(A) /\ Cardinality(A) <= UpperHalf /\ Cardinality(A) \in Nat
               /\ D \subseteq C \cup A
  BY <1>2, PublishCopies
<1>5. IsFiniteSet(C) /\ Few(b, C, f, M)
  BY <1>2, CopiesFinite
<1>6. Img(f, C) \subseteq Rng(b) \cup Img(f, D)
  BY <1>3 DEF Img
<1>7. M \in Int /\ N \in Int /\ M + Cardinality(A) <= N
  BY <1>1, <1>2, <1>4
<1>8. Few(b, D, f, N)
  BY <1>4, <1>5, <1>6, <1>7, MoreCopies
<1>9. QED
  BY <1>2, <1>3, <1>8

LEMMA CopiesTwin ==
  ASSUME NEW p, NEW i, NEW how, Place(i, how), NEW q, NEW h \in Slot,
         <<q, h>> \in Copies(p, i, how), h + 1 \in Slot, ptr[q][h + 1] # Null
  PROVE  <<q, h + 1>> \in Copies(p, i, how)
<1>1. /\ q \in Page
      /\ \/ q = p /\ h \in Near(ptr[p], i, how)
         \/ q \in After(p) /\ h \in Near(ptr[q], 0, "past")
  BY DEF Copies
<1>2. Place(0, "past")
  BY Constants DEF Place
<1>3. /\ q = p /\ h \in Near(ptr[p], i, how) => h + 1 \in Near(ptr[p], i, how)
      /\ h \in Near(ptr[q], 0, "past") => h + 1 \in Near(ptr[q], 0, "past")
  BY <1>2, NearTwin
<1>4. QED
  BY <1>1, <1>3 DEF Copies

LEMMA NullFew ==
  ASSUME LeafInv, ScanInv, RestInv, Write, sibling' = sibling,
         NEW q \in Page, NEW h \in Slot, ptr' = [ptr EXCEPT ![q][h] = Null],
         NEW p \in Linked, NEW i, NEW how, Place(i, how), NEW b, Len(b) \in Nat,
         Few(b, Copies(p, i, how), ptr, Budget)
  PROVE  Few(b, Copies(p, i, how)', ptr', Budget')
<1>1. PageInv /\ p \in Page
  BY Constants DEF LeafInv, Linked
<1>2. Written(q, h, Null)
  BY <1>1, OnePtr
<1>3. /\ Copies(p, i, how)' \subseteq Copies(p, i, how)
      /\ \A c \in Copies(p, i, how)' : ptr'[c[1]][c[2]] = ptr[c[1]][c[2]]
  BY <1>1, <1>2, CopiesCut
<1>4. QED
  BY <1>3, StaySame

LEMMA ShiftFew ==
  ASSUME LeafInv, ScanInv, RestInv, Shift,
         NEW p \in Linked, NEW i, NEW how, Place(i, how), NEW b, Len(b) \in Nat,
         Few(b, Copies(p, i, how), ptr, Budget)
  PROVE  Few(b, Copies(p, i, how)', ptr', Budget')
<1> USE Constants
<1>p. PICK q, n, h, y : /\ q = w.page /\ n = w.n /\ h = w.hole
                        /\ y = IF h = 0 THEN Null ELSE ptr[q][h - 1]
  OBVIOUS
<1>0. /\ PageInv /\ SortedInv /\ TwinInv /\ w.pc = "shift" /\ w.pc \in Entry /\ p \in Page
      /\ sibling' = sibling /\ Write
  BY DEF LeafInv, Shift, Entry, Linked, Write
<1>1. /\ q \in Page /\ n \in 0 .. Card - 2 /\ h \in 0 .. n /\ h \in Slot /\ n + 1 \in Slot
      /\ Live(q) = (0 .. n) \ {h} /\ InOrder(key[q], ptr[q], Live(q))
      /\ ptr \in [Page -> [Slot -> Rec \cup {Null}]]
  BY <1>0, <1>p, EntryIs DEF PageInv, PageTypes
<1>2. ptr' = [ptr EXCEPT ![q][h] = y]
  BY <1>p DEF Shift
<1>3. /\ IF h = n THEN ptr[q][h] = Null ELSE ptr[q][h] = ptr[q][h + 1]
      /\ ptr[q][n + 1] = Null
  BY <1>0, <1>p DEF TwinInv, TwinAt, SortedInv, HoleInv, HoleAt
<1>4. CASE y = Null
  BY <1>0, <1>1, <1>2, <1>4, NullFew
<1>5. Written(q, h, y)
  BY <1>0, <1>1, <1>2, OnePtr
<1>6. Budget \in Int /\ Budget' \in Int /\ Budget <= Budget' /\ (h = n => Budget + 1 <= Budget')
  BY <1>0, <1>p, BudgetStep
<1>7. PICK C, D, f, g, M, N : /\ C = Copies(p, i, how) /\ D = Copies(p, i, how)'
                              /\ f = ptr /\ g = ptr' /\ M = Budget /\ N = Budget'
  OBVIOUS
<1>8. IsFiniteSet(C) /\ Few(b, C, f, M) /\ C \subseteq Page \X Slot
  BY <1>7, CopiesFinite
<1>9. CASE y # Null /\ h = n
  <2>1. /\ C \subseteq D /\ D \subseteq C \cup {<<q, h>>}
        /\ \A c \in C : g[c[1]][c[2]] = f[c[1]][c[2]]
    BY <1>0, <1>1, <1>3, <1>5, <1>7, <1>9, CopiesFill
  <2>2. PICK A : A = {<<q, h>>}
    OBVIOUS
  <2>3. IsFiniteSet(A) /\ Cardinality(A) = 1
    BY <2>2, FS_Singleton
  <2>4. Img(f, C) \subseteq Rng(b) \cup Img(g, D)
    BY <2>1 DEF Img
  <2>5. M \in Int /\ N \in Int /\ M + Cardinality(A) <= N
    BY <1>6, <1>7, <1>9, <2>3
  <2>6. D \subseteq C \cup A
    BY <2>1, <2>2
  <2>7. Few(b, D, g, N)
    BY <1>8, <2>3, <2>4, <2>5, <2>6, MoreCopies
  <2>8. QED
    BY <1>7, <2>7
<1>10. CASE y # Null /\ h # n
  <2>1. h + 1 \in Live(q) /\ h + 1 \in Slot
    BY <1>1, <1>10
  <2>2. ptr[q][h + 1] # Null /\ ptr[q][h] # Null /\ ptr[q][h] = ptr[q][h + 1]
    BY <1>1, <1>3, <1>10, <2>1 DEF InOrder
  <2>3. D = C
    BY <1>0, <1>1, <1>5, <1>7, <1>10, <2>2, CopiesChange
  <2>4. ASSUME NEW z \in Img(f, C) PROVE z \in Img(g, D)
    <3>1. PICK c \in C : z = f[c[1]][c[2]]
      BY <2>4 DEF Img
    <3>2. c \in Page \X Slot /\ c = <<c[1], c[2]>> /\ c[1] \in Page /\ c[2] \in Slot
      BY <1>8
    <3>3. CASE c = <<q, h>>
      <4>1. <<q, h + 1>> \in C
        BY <1>1, <1>7, <2>1, <2>2, <3>3, CopiesTwin
      <4>2. z = f[q][h + 1] /\ g[q][h + 1] = f[q][h + 1]
        <5>1. z = f[q][h]
          BY <3>1, <3>3
        <5>2. h + 1 # h /\ h + 1 \in Slot \ {h}
          BY <1>1, <2>1
        <5>3. QED
          BY <1>5, <1>7, <2>2, <5>1, <5>2 DEF Written
      <4>3. QED
        BY <2>3, <4>1, <4>2 DEF Img
    <3>4. CASE c # <<q, h>>
      <4>1. g[c[1]][c[2]] = f[c[1]][c[2]]
        <5>1. c[1] # q \/ c[2] # h
          BY <3>2, <3>4
        <5>2. QED
          BY <1>5, <1>7, <3>2, <5>1 DEF Written
      <4>2. QED
        BY <2>3, <3>1, <4>1 DEF Img
    <3>5. QED
      BY <3>3, <3>4
  <2>5. IsFiniteSet({}) /\ Cardinality({}) = 0
    BY FS_EmptySet
  <2>6. M \in Int /\ N \in Int /\ M + Cardinality({}) <= N
    BY <1>6, <1>7, <2>5
  <2>7. D \subseteq C \cup {} /\ Img(f, C) \subseteq Rng(b) \cup Img(g, D)
    BY <2>3, <2>4
  <2>8. Few(b, D, g, N)
    BY <1>8, <2>5, <2>6, <2>7, MoreCopies
  <2>9. QED
    BY <1>7, <2>8
<1>11. QED
  BY <1>1, <1>4, <1>9, <1>10

LEMMA SetPtrFew ==
  ASSUME LeafInv, ScanInv, RestInv, Known, SetPtr,
         NEW p \in Linked, NEW i, NEW how, Place(i, how), NEW b, Len(b) \in Nat,
         Rng(b) \subseteq Indexed, Few(b, Copies(p, i, how), ptr, Budget)
  PROVE  Few(b, Copies(p, i, how)', ptr', Budget')
<1> USE Constants
<1>p. PICK q, n, h, x : q = w.page /\ n = w.n /\ h = w.hole /\ x = w.rec
  OBVIOUS
<1>0. /\ PageInv /\ SortedInv /\ TwinInv /\ w.pc = "ptr" /\ w.pc \in Entry /\ p \in Page
      /\ sibling' = sibling /\ Write /\ w.pc # "idle"
  BY DEF LeafInv, SetPtr, Entry, Linked, Write
<1>1. /\ q \in Page /\ n \in 0 .. Card - 2 /\ h \in 0 .. n /\ h \in Slot /\ x \in Rec
      /\ Live(q) = (0 .. n) \ {h} /\ InOrder(key[q], ptr[q], Live(q)) /\ x # Null
  BY <1>0, <1>p, EntryIs
<1>2. ptr' = [ptr EXCEPT ![q][h] = x]
  BY <1>p DEF SetPtr
<1>3. ptr[q][h] = IF h = 0 THEN Null ELSE ptr[q][h - 1]
  BY <1>0, <1>p DEF TwinInv, TwinAt
<1>4. Written(q, h, x)
  BY <1>0, <1>1, <1>2, OnePtr
<1>5. Budget \in Int /\ Budget' \in Int /\ Budget <= Budget'
  BY <1>0, BudgetStep
<1>6. PICK C, D, f, g, M, N : /\ C = Copies(p, i, how) /\ D = Copies(p, i, how)'
                              /\ f = ptr /\ g = ptr' /\ M = Budget /\ N = Budget'
  OBVIOUS
<1>7. /\ IsFiniteSet(C) /\ Few(b, C, f, M) /\ C \subseteq Page \X Slot
      /\ IsFiniteSet(D) /\ D \subseteq Page \X Slot
  <2>1. IsFiniteSet(C) /\ C \subseteq Page \X Slot /\ Few(b, C, f, M)
    BY <1>6, CopiesFinite
  <2>2. IsFiniteSet(Page \X Slot) /\ D \in SUBSET (Page \X Slot)
    <3>1. IsFiniteSet(Page) /\ IsFiniteSet(Slot)
      BY FS_Interval, FastFairAssumption DEF Page, Slot
    <3>2. QED
      BY <1>6, <3>1, FS_Product DEF Copies
  <2>3. QED
    BY <2>1, <2>2, FS_Subset
<1>8. PICK hh : hh = <<q, h>>
  OBVIOUS
<1>9. \A c \in (Page \X Slot) \ {hh} : g[c[1]][c[2]] = f[c[1]][c[2]]
  <2> SUFFICES ASSUME NEW c \in Page \X Slot, c # hh PROVE g[c[1]][c[2]] = f[c[1]][c[2]]
    OBVIOUS
  <2>1. c[1] \in Page /\ c[2] \in Slot /\ (c[1] # q \/ c[2] # h)
    BY <1>8
  <2>2. QED
    BY <1>4, <1>6, <2>1 DEF Written
<1>10. D \subseteq C \cup {hh} /\ C \ {hh} \subseteq D
  <2>1. CASE h = 0
    BY <1>0, <1>1, <1>3, <1>4, <1>6, <1>8, <2>1, CopiesFill
  <2>2. CASE h # 0
    <3>1. h - 1 \in Live(q)
      BY <1>1, <2>2
    <3>2. ptr[q][h] # Null
      BY <1>1, <1>3, <2>2, <3>1 DEF InOrder
    <3>3. D = C
      BY <1>0, <1>1, <1>4, <1>6, <3>2, CopiesChange
    <3>4. QED
      BY <3>3
  <2>3. QED
    BY <2>1, <2>2
<1>11. x = g[hh[1]][hh[2]]
  BY <1>4, <1>6, <1>8 DEF Written
<1>12. g[hh[1]][hh[2]] \notin Rng(b) \cup Img(f, C)
  <2>1. x \notin Indexed
    BY <1>0, <1>p, RecIsNew
  <2>2. ASSUME NEW c \in C PROVE f[c[1]][c[2]] # x
    <3>1. c[1] \in Linked /\ c[2] \in Slot
      BY <1>0, <1>6, CopiesLinked
    <3>2. f[c[1]][c[2]] \in Indexed \cup {Null}
      BY <1>6, <3>1 DEF Known, Chain
    <3>3. QED
      BY <1>1, <2>1, <3>2
  <2>3. x \notin Rng(b) \cup Img(f, C)
    BY <2>1, <2>2 DEF Img
  <2>4. QED
    BY <1>11, <2>3
<1>13. \A c \in D \ {hh} : g[c[1]][c[2]] = f[c[1]][c[2]]
  BY <1>7, <1>9
<1>14. M \in Int /\ N \in Int /\ M <= N
  BY <1>5, <1>6
<1>15. Few(b, D, g, M)
  <2>1. Len(b) \in Nat /\ IsFiniteSet(C) /\ Few(b, C, f, M) /\ M \in Int
    BY <1>7, <1>14
  <2>2. D \subseteq C \cup {hh} /\ C \ {hh} \subseteq D
    BY <1>10
  <2>3. QED
    BY <2>1, <2>2, <1>12, <1>13, NewRecord
<1>16. Few(b, D, g, N)
  BY <1>7, <1>14, <1>15, FewerCopies
<1>17. QED
  BY <1>6, <1>16

(* A step of the writer takes no more from the bound than it adds to it.   *)
LEMMA WriteFew ==
  ASSUME LeafInv, ScanInv, RestInv, SplitHalf, Known, Write,
         NEW p \in Linked, NEW i, NEW how, Place(i, how), NEW b, Len(b) \in Nat,
         Rng(b) \subseteq Indexed, Few(b, Copies(p, i, how), ptr, Budget)
  PROVE  Few(b, Copies(p, i, how)', ptr', Budget')
<1> USE Constants
<1>0. PageInv /\ SortedInv
  BY DEF LeafInv
<1>1. CASE ptr' = ptr /\ sibling' = sibling
  <2>1. Copies(p, i, how)' = Copies(p, i, how)
    BY <1>1, SameCopies
  <2>2. /\ Copies(p, i, how)' \subseteq Copies(p, i, how)
        /\ \A c \in Copies(p, i, how)' : ptr'[c[1]][c[2]] = ptr[c[1]][c[2]]
    BY <1>1, <2>1
  <2>3. QED
    BY <2>2, StaySame
<1>2. ASSUME NEW x \in Rec, NEW q \in Page, StoreFast(x, q)
      PROVE  ptr' = ptr /\ sibling' = sibling
  BY <1>2 DEF StoreFast, pageVars
<1>3. ASSUME NEW x \in Rec, NEW q \in Page, StoreSplit(x, q)
      PROVE  Few(b, Copies(p, i, how)', ptr', Budget')
  <2>1. /\ Copies(p, i, how)' = Copies(p, i, how)
        /\ \A c \in Copies(p, i, how) : ptr'[c[1]][c[2]] = ptr[c[1]][c[2]]
    BY <1>3, StoreCopies
  <2>2. /\ Copies(p, i, how)' \subseteq Copies(p, i, how)
        /\ \A c \in Copies(p, i, how)' : ptr'[c[1]][c[2]] = ptr[c[1]][c[2]]
    BY <2>1
  <2>3. QED
    BY <2>2, StaySame
<1>4. CASE Publish
  BY <1>4, PublishFew
<1>5. Bump \/ MoveKey \/ SetKey => ptr' = ptr /\ sibling' = sibling
  BY DEF Bump, MoveKey, SetKey
<1>6. CASE Cut
  <2>1. /\ w.pc \in Splitting /\ sibling' = sibling
        /\ ptr' = [ptr EXCEPT ![w.page][w.n] = Null]
    BY <1>6 DEF Cut, Splitting
  <2>2. w.page \in Page /\ w.n \in Slot
    BY <1>0, <2>1, SplitIs
  <2>3. QED
    BY <2>1, <2>2, NullFew
<1>7. CASE MoveEnd
  <2>1. /\ w.pc = "end" /\ w.pc \in Entry /\ sibling' = sibling
        /\ ptr' = [ptr EXCEPT ![w.page][w.n + 1] = ptr[w.page][w.n]]
    BY <1>7 DEF MoveEnd, Entry
  <2>2. w.page \in Page /\ w.n + 1 \in Slot
    BY <1>0, <2>1, EntryIs
  <2>3. ptr[w.page][w.n] = Null
    BY <1>0, <2>1 DEF PageInv, HoleInPage
  <2>4. ptr' = [ptr EXCEPT ![w.page][w.n + 1] = Null]
    BY <2>1, <2>3
  <2>5. QED
    BY <2>1, <2>2, <2>4, NullFew
<1>8. CASE Shift
  BY <1>8, ShiftFew
<1>9. CASE SetPtr
  BY <1>9, SetPtrFew
<1>10. QED
  BY <1>1, <1>2, <1>3, <1>4, <1>5, <1>6, <1>7, <1>8, <1>9 DEF Write

LEMMA RegsAre ==
  ASSUME FastFairInv
  PROVE  /\ r \in [pc : {"idle", "page", "key", "ptr", "left", "again", "test", "check",
                         "hop", "stopped", "ended"},
                   page : Page, i : Slot, word : Word, tmp : Keys, p : Rec \cup {Null},
                   ctr : Nat, old : Nat, min : Keys, max : Keys, buf : Seq(Rec)]
         /\ r.old \in 0 .. Len(r.buf) /\ Len(r.buf) \in Nat
         /\ r.pc \in {"key", "ptr", "left", "again"} => r.i <= Card - 2
<1>1. /\ r \in [pc : {"idle", "page", "key", "ptr", "left", "again", "test", "check",
                      "hop", "stopped", "ended"},
                page : Page, i : Slot, word : Word, tmp : Keys, p : Rec \cup {Null},
                ctr : Nat, old : Nat, min : Keys, max : Keys, buf : Seq(Rec)]
      /\ r.old <= Len(r.buf)
      /\ r.pc \in {"key", "ptr", "left", "again"} => r.i <= Card - 2
  BY DEF FastFairInv, ScanTypes, ScanInPage
<1>2. r.old \in Nat /\ Len(r.buf) \in Nat
  BY <1>1, LenProperties
<1>3. QED
  BY <1>1, <1>2

LEMMA BeganWith ==
  ASSUME FastFairInv
  PROVE  /\ SubSeq(r.buf, 1, r.old) \in Seq(Rec) /\ Len(SubSeq(r.buf, 1, r.old)) = r.old
         /\ Rng(SubSeq(r.buf, 1, r.old)) \subseteq Rng(r.buf)
<1>1. r.buf \in Seq(Rec) /\ r.old \in 0 .. Len(r.buf) /\ Len(r.buf) \in Nat
  BY RegsAre
<1>2. \A k \in 1 .. r.old : r.buf[k] \in Rec
  BY <1>1, ElementOfSeq
<1>3. /\ SubSeq(r.buf, 1, r.old) \in Seq(Rec)
      /\ Len(SubSeq(r.buf, 1, r.old)) = IF 1 <= r.old THEN r.old - 1 + 1 ELSE 0
      /\ \A k \in 1 .. r.old - 1 + 1 : SubSeq(r.buf, 1, r.old)[k] = r.buf[1 + k - 1]
  BY <1>1, <1>2, SubSeqProperties
<1>4. Len(SubSeq(r.buf, 1, r.old)) = r.old
  BY <1>1, <1>3
<1>5. \A k \in 1 .. r.old : SubSeq(r.buf, 1, r.old)[k] = r.buf[k] /\ k \in 1 .. Len(r.buf)
  BY <1>1, <1>3
<1>6. QED
  BY <1>3, <1>4, <1>5 DEF Rng

LEMMA TakenIs ==
  ASSUME FastFairInv, ScanAt(r)
  PROVE  /\ Taken(r) \in Seq(Rec) /\ Len(Taken(r)) \in Nat /\ Rng(r.buf) \subseteq Rng(Taken(r))
         /\ Place(NextSlot(r), How(r)) /\ Place(0, "past")
<1> USE Constants
<1>1. r.buf \in Seq(Rec) /\ r.p \in Rec \cup {Null} /\ r.i \in Slot
  BY RegsAre
<1>2. Taken(r) \in Seq(Rec) /\ Rng(r.buf) \subseteq Rng(Taken(r))
  <2>1. CASE r.pc \in {"left", "again"} /\ r.p # Null
    <3>1. Taken(r) = Append(r.buf, r.p) /\ r.p \in Rec
      BY <1>1, <2>1 DEF Taken
    <3>2. /\ Append(r.buf, r.p) \in Seq(Rec) /\ Len(Append(r.buf, r.p)) = Len(r.buf) + 1
          /\ \A k \in 1 .. Len(r.buf) : Append(r.buf, r.p)[k] = r.buf[k]
          /\ Len(r.buf) \in Nat
      BY <1>1, <3>1, AppendProperties, LenProperties
    <3>3. QED
      BY <3>1, <3>2 DEF Rng
  <2>2. CASE ~(r.pc \in {"left", "again"} /\ r.p # Null)
    <3>1. Taken(r) = r.buf
      BY <2>2 DEF Taken
    <3>2. QED
      BY <1>1, <3>1
  <2>3. QED
    BY <2>1, <2>2
<1>3. Place(NextSlot(r), How(r))
  <2>1. /\ r.pc \in {"key", "ptr", "left", "again"} => r.i <= Card - 2
        /\ r.pc = "test" => r.i >= 1
    BY RegsAre DEF ScanAt
  <2>2. CASE r.pc \in {"key", "ptr"}
    BY <1>1, <2>2 DEF NextSlot, How, Place
  <2>3. CASE r.pc = "test"
    BY <1>1, <2>1, <2>3 DEF NextSlot, How, Place
  <2>4. CASE r.pc \in {"left", "again"}
    BY <1>1, <2>1, <2>4 DEF NextSlot, How, Place
  <2>5. CASE r.pc \notin {"key", "ptr", "test", "left", "again"}
    BY <2>5 DEF NextSlot, How, Place
  <2>6. QED
    BY <2>2, <2>3, <2>4, <2>5
<1>4. QED
  BY <1>2, <1>3, LenProperties DEF Place

LEMMA WriteRepeats ==
  ASSUME FastFairInv, LeafInv, ScanInv, RestInv, RepeatInv, Write
  PROVE  RepeatInv'
<1>1. SplitHalf /\ Known /\ SplitHalf' /\ Known'
  BY KnownKept, SplitHalfKept DEF RepeatInv
<1>2. r' = r
  BY DEF Write, Writes, StoreFast, StoreSplit, Publish, Bump, Cut, MoveEnd, Shift,
         MoveKey, SetKey, SetPtr
<1>3. ASSUME NEW v, v = r, v.pc # "idle" PROVE FewNow(v)' /\ FewAgain(v)'
  <2>p. PICK b, a, i, how : /\ b = Taken(v) /\ a = SubSeq(v.buf, 1, v.old)
                            /\ i = NextSlot(v) /\ how = How(v)
    OBVIOUS
  <2>1. FewNow(v) /\ FewAgain(v)
    BY <1>3 DEF RepeatInv
  <2>2. ScanAt(r) /\ v.page \in Linked
    BY <1>3 DEF ScanInv, ScanAt
  <2>3. /\ Len(b) \in Nat /\ Place(i, how) /\ Place(0, "past") /\ Rng(b) \subseteq Indexed
        /\ Rng(r.buf) \subseteq Rng(b)
    BY <1>1, <1>3, <2>2, <2>p, TakenIs DEF Known
  <2>4. Len(a) \in Nat /\ Rng(a) \subseteq Indexed
    <3>1. r.old \in Nat /\ Rng(a) \subseteq Rng(r.buf) /\ Len(a) = r.old
      BY <1>3, <2>p, BeganWith, RegsAre
    <3>2. QED
      BY <2>3, <3>1
  <2>5. /\ Few(b, Copies(v.page, i, how), ptr, Budget)
        /\ Few(a, Copies(v.page, 0, "past"), ptr, Budget)
    BY <2>1, <2>p DEF FewNow, FewAgain
  <2>6. Few(b, Copies(v.page, i, how)', ptr', Budget')
    BY <1>1, <2>2, <2>3, <2>5, WriteFew
  <2>7. Few(a, Copies(v.page, 0, "past")', ptr', Budget')
    BY <1>1, <2>2, <2>3, <2>4, <2>5, WriteFew
  <2>8. QED
    BY <2>p, <2>6, <2>7 DEF FewNow, FewAgain, Copies, Few
<1>4. QED
  BY <1>1, <1>2, <1>3 DEF RepeatInv

-----------------------------------------------------------------------------
(* The steps of the scan.                                                  *)
RepeatAt(v) == Rng(Taken(v)) \subseteq Indexed /\ FewNow(v) /\ FewAgain(v)

LEMMA BudgetType == LeafInv => Budget \in Int
<1> SUFFICES ASSUME LeafInv PROVE Budget \in Int
  OBVIOUS
<1>p. PICK k, a, s : k = UpperHalf + 1 /\ a = Cardinality(InsertsSince) /\ s = Reserve
  OBVIOUS
<1>1. k \in Nat /\ a \in Nat
  BY <1>p, UpperIs, SinceFinite, FS_CardinalityType
<1>2. s \in Int
  BY <1>p, UpperIs DEF Reserve
<1>3. k * a \in Nat
  BY <1>1, Times
<1>4. k * a - s \in Int
  BY <1>2, <1>3
<1>5. QED
  BY <1>p, <1>4 DEF Budget

LEMMA NearSteps ==
  ASSUME NEW f, NEW i \in Slot
  PROVE  /\ Near(f, i + 1, "at") \subseteq Near(f, i, "past")
         /\ i \notin Near(f, i + 1, "at")
         /\ f[i] # Null => Near(f, i, "past") \subseteq Near(f, i, "at")
         /\ \A j : j \notin Near(f, Card, "at")
<1> USE Constants
<1>1. Near(f, i + 1, "at") \subseteq Near(f, i, "past") /\ i \notin Near(f, i + 1, "at")
  BY DEF Near, Stretch
<1>2. ASSUME f[i] # Null, NEW j \in Near(f, i, "past") PROVE j \in Near(f, i, "at")
  BY <1>2 DEF Near, Stretch
<1>3. \A j : j \notin Near(f, Card, "at")
  BY DEF Near, Stretch
<1>4. QED
  BY <1>1, <1>2, <1>3

LEMMA CopiesSteps ==
  ASSUME NEW p, NEW i \in Slot
  PROVE  /\ Copies(p, i + 1, "at") \subseteq Copies(p, i, "past")
         /\ ptr[p][i] # Null => Copies(p, i, "past") \subseteq Copies(p, i, "at")
         /\ \A j, how : Copies(p, Card, "at") \subseteq Copies(p, j, how)
<1>1. /\ Near(ptr[p], i + 1, "at") \subseteq Near(ptr[p], i, "past")
      /\ ptr[p][i] # Null => Near(ptr[p], i, "past") \subseteq Near(ptr[p], i, "at")
      /\ \A j : j \notin Near(ptr[p], Card, "at")
  BY NearSteps
<1>2. QED
  BY <1>1 DEF Copies

LEMMA FewerNow ==
  ASSUME LeafInv, NEW v, NEW u, FewNow(v), Len(Taken(v)) \in Nat, Taken(u) = Taken(v),
         Copies(u.page, NextSlot(u), How(u)) \subseteq Copies(v.page, NextSlot(v), How(v))
  PROVE  FewNow(u)
<1>1. PICK C, D, M, b : /\ C = Copies(v.page, NextSlot(v), How(v))
                        /\ D = Copies(u.page, NextSlot(u), How(u))
                        /\ M = Budget /\ b = Taken(v)
  OBVIOUS
<1>2. IsFiniteSet(C) /\ M \in Int /\ M <= M
  BY <1>1, CopiesFinite, BudgetType
<1>3. Few(b, C, ptr, M) /\ D \subseteq C /\ Len(b) \in Nat
  BY <1>1 DEF FewNow
<1>4. Few(b, D, ptr, M)
  BY <1>2, <1>3, FewerCopies
<1>5. QED
  BY <1>1, <1>4 DEF FewNow

LEMMA LostNow ==
  ASSUME LeafInv, NEW v, NEW u, FewNow(v), v.buf \in Seq(Rec), v.p \in Rec,
         Taken(v) = Append(v.buf, v.p), Taken(u) = v.buf,
         Copies(u.page, NextSlot(u), How(u)) = Copies(v.page, NextSlot(v), How(v))
  PROVE  FewNow(u)
<1>1. PICK C, M, b, x : /\ C = Copies(v.page, NextSlot(v), How(v))
                        /\ M = Budget /\ b = v.buf /\ x = v.p
  OBVIOUS
<1>2. IsFiniteSet(C) /\ M \in Int
  BY <1>1, CopiesFinite, BudgetType
<1>3. Few(Append(b, x), C, ptr, M) /\ b \in Seq(Rec) /\ x \in Rec
  BY <1>1 DEF FewNow
<1>4. Few(b, C, ptr, M)
  BY <1>2, <1>3, ReadLost
<1>5. QED
  BY <1>1, <1>4 DEF FewNow

LEMMA ReadNow ==
  ASSUME LeafInv, JoinInv, NEW v, NEW u, FewNow(v), v.buf \in Seq(Rec), v.page \in Linked,
         v.i \in Slot, NEW x \in Rec, x = ptr[v.page][v.i], x # Null,
         v.pc = "ptr", u.pc \in {"left", "again"}, u.page = v.page, u.i = v.i,
         u.buf = v.buf, u.p = x
  PROVE  FewNow(u)
<1> USE Constants
<1>1. PICK C, D, M, b, p, i, c : /\ C = Copies(v.page, v.i, "past")
                                 /\ D = Copies(u.page, v.i + 1, "at")
                                 /\ M = Budget /\ b = v.buf
                                 /\ p = v.page /\ i = v.i /\ c = <<v.page, v.i>>
  OBVIOUS
<1>2. /\ NextSlot(v) = i /\ How(v) = "past" /\ Taken(v) = b
      /\ NextSlot(u) = i + 1 /\ How(u) = "at" /\ Taken(u) = Append(b, x)
  BY <1>1 DEF NextSlot, How, Taken
<1>3. IsFiniteSet(C) /\ M \in Int
  BY <1>1, CopiesFinite, BudgetType
<1>4. p \in Page /\ p \notin After(p)
  <2>1. p \in Page /\ p \in Linked
    BY <1>1 DEF Linked
  <2>2. QED
    BY <2>1, NeverBack DEF After
<1>5. c \in C /\ x = ptr[c[1]][c[2]]
  <2>1. i \in Near(ptr[p], i, "past")
    BY <1>1 DEF Near
  <2>2. QED
    BY <1>1, <1>4, <2>1 DEF Copies
<1>6. D \subseteq C \ {c}
  <2>1. D \subseteq C
    BY <1>1, CopiesSteps
  <2>2. c \notin D
    <3>1. i \notin Near(ptr[p], i + 1, "at")
      BY <1>1, NearSteps
    <3>2. QED
      BY <1>1, <1>4, <3>1 DEF Copies
  <2>3. QED
    BY <2>1, <2>2
<1>7. Few(b, C, ptr, M) /\ b \in Seq(Rec)
  BY <1>1, <1>2 DEF FewNow
<1>8. Few(Append(b, x), C \ {c}, ptr, M)
  BY <1>3, <1>5, <1>7, CopyRead
<1>9. IsFiniteSet(C \ {c}) /\ Len(Append(b, x)) \in Nat /\ M <= M
  BY <1>3, <1>7, FS_RemoveElement, AppendProperties, LenProperties
<1>10. Few(Append(b, x), D, ptr, M)
  BY <1>3, <1>6, <1>8, <1>9, FewerCopies
<1>11. QED
  BY <1>1, <1>2, <1>10 DEF FewNow

LEMMA StayRepeat ==
  ASSUME LeafInv, NEW v, NEW u, RepeatAt(v), Len(Taken(v)) \in Nat, Taken(u) = Taken(v),
         Copies(u.page, NextSlot(u), How(u)) \subseteq Copies(v.page, NextSlot(v), How(v)),
         u.page = v.page, u.buf = v.buf, u.old = v.old
  PROVE  RepeatAt(u)
<1>1. FewNow(u)
  BY FewerNow DEF RepeatAt
<1>2. QED
  BY <1>1 DEF RepeatAt, FewAgain

LEMMA NextRepeat ==
  ASSUME LeafInv, NEW v, NEW u, RepeatAt(v), v.pc \in {"key", "ptr", "left", "again"},
         v.buf \in Seq(Rec), v.p \in Rec \cup {Null}, v.i \in Slot,
         u.pc = "test", u.page = v.page, u.i = v.i + 1, u.buf = v.buf, u.old = v.old
  PROVE  RepeatAt(u)
<1>1. Taken(u) = v.buf /\ NextSlot(u) = v.i + 1 /\ How(u) = "at" /\ Len(v.buf) \in Nat
  BY LenProperties DEF Taken, NextSlot, How
<1>2. CASE v.pc \in {"key", "ptr"}
  <2>1. Taken(v) = v.buf /\ NextSlot(v) = v.i /\ How(v) = "past"
    BY <1>2 DEF Taken, NextSlot, How
  <2>2. Copies(u.page, v.i + 1, "at") \subseteq Copies(v.page, v.i, "past")
    BY CopiesSteps
  <2>3. QED
    BY <1>1, <2>1, <2>2, StayRepeat
<1>3. CASE v.pc \in {"left", "again"}
  <2>1. NextSlot(v) = v.i + 1 /\ How(v) = "at"
    BY <1>3 DEF NextSlot, How
  <2>2. Copies(u.page, NextSlot(u), How(u)) = Copies(v.page, NextSlot(v), How(v))
    BY <1>1, <2>1
  <2>3. CASE v.p = Null
    <3>1. Taken(v) = v.buf
      BY <2>3 DEF Taken
    <3>2. QED
      BY <1>1, <2>2, <3>1, StayRepeat
  <2>4. CASE v.p # Null
    <3>1. Taken(v) = Append(v.buf, v.p) /\ v.p \in Rec
      BY <1>3, <2>4 DEF Taken
    <3>2. FewNow(u)
      BY <1>1, <2>2, <3>1, LostNow DEF RepeatAt
    <3>3. Rng(Taken(u)) \subseteq Rng(Taken(v))
      <4>1. /\ Len(Append(v.buf, v.p)) = Len(v.buf) + 1 /\ Len(v.buf) \in Nat
            /\ \A k \in 1 .. Len(v.buf) : Append(v.buf, v.p)[k] = v.buf[k]
        BY <3>1, AppendProperties, LenProperties
      <4>2. QED
        BY <1>1, <3>1, <4>1 DEF Rng
    <3>4. QED
      BY <3>2, <3>3 DEF RepeatAt, FewAgain
  <2>5. QED
    BY <2>3, <2>4
<1>4. QED
  BY <1>2, <1>3

Regs == {"pc", "page", "i", "word", "tmp", "p", "ctr", "old", "min", "max", "buf"}

LEMMA ScanIs ==
  ASSUME FastFairInv, ScanInv, NEW v, v = r
  PROVE  /\ DOMAIN v = Regs
         /\ v.page \in Linked /\ v.page \in Page /\ v.i \in Slot /\ v.word \in Word
         /\ v.p \in Rec \cup {Null} /\ v.buf \in Seq(Rec) /\ Len(v.buf) \in Nat
         /\ v.old \in 0 .. Len(v.buf) /\ Len(Taken(v)) \in Nat
         /\ Len(SubSeq(v.buf, 1, v.old)) = v.old /\ SubSeq(v.buf, 1, v.old) \in Seq(Rec)
         /\ Rng(SubSeq(v.buf, 1, v.old)) \subseteq Rng(v.buf)
         /\ Rng(v.buf) \subseteq Rng(Taken(v))
<1>1. v.page \in Linked /\ ScanAt(r)
  BY DEF ScanInv, ScanAt
<1>2. /\ Len(SubSeq(v.buf, 1, v.old)) = v.old /\ SubSeq(v.buf, 1, v.old) \in Seq(Rec)
      /\ Rng(SubSeq(v.buf, 1, v.old)) \subseteq Rng(v.buf)
  BY BeganWith
<1>3. Len(Taken(v)) \in Nat /\ Rng(v.buf) \subseteq Rng(Taken(v))
  BY <1>1, TakenIs
<1>4. /\ DOMAIN v = Regs
      /\ v.page \in Page /\ v.i \in Slot /\ v.word \in Word
      /\ v.p \in Rec \cup {Null} /\ v.buf \in Seq(Rec) /\ Len(v.buf) \in Nat
      /\ v.old \in 0 .. Len(v.buf)
  BY RegsAre DEF Regs
<1>5. QED
  BY <1>1, <1>2, <1>3, <1>4

LEMMA EnterRepeat ==
  ASSUME FastFairInv, LeafInv, ScanInv, NEW v, NEW u, v = r, u = r', RepeatAt(v), EnterPage
  PROVE  RepeatAt(u)
<1> USE Constants
<1>p. PICK b : b = SubSeq(v.buf, 1, v.old)
  OBVIOUS
<1>1. /\ u = [v EXCEPT !.pc = "key", !.i = 0, !.word = 1, !.ctr = counter[v.page], !.buf = b]
      /\ DOMAIN v = Regs
  BY <1>p, ScanIs DEF EnterPage
<1>2. /\ u.pc = "key" /\ u.i = 0 /\ u.page = v.page /\ u.old = v.old /\ u.buf = b
  BY <1>1 DEF Regs
<1>3. Taken(u) = b /\ NextSlot(u) = 0 /\ How(u) = "past"
  BY <1>2 DEF Taken, NextSlot, How
<1>4. b \in Seq(Rec) /\ Len(b) = v.old /\ Rng(b) \subseteq Rng(v.buf) /\ Rng(v.buf) \subseteq Rng(Taken(v))
  BY <1>p, ScanIs
<1>5. SubSeq(b, 1, v.old) = b
  BY <1>4, SubSeqFull
<1>6. QED
  BY <1>p, <1>2, <1>3, <1>4, <1>5 DEF RepeatAt, FewNow, FewAgain

LEMMA ReadKeyRepeat ==
  ASSUME FastFairInv, LeafInv, ScanInv, NEW v, NEW u, v = r, u = r', RepeatAt(v), ReadKey
  PROVE  RepeatAt(u)
<1> USE Constants
<1>1. v.pc = "key" /\ DOMAIN v = Regs
  BY ScanIs DEF ReadKey
<1>2. /\ v.page \in Page /\ v.i \in Slot /\ v.p \in Rec \cup {Null} /\ v.buf \in Seq(Rec)
      /\ Len(Taken(v)) \in Nat
  BY ScanIs
<1>p. PICK tmp : tmp = [v.tmp EXCEPT ![v.word] = key[v.page][v.i][v.word]]
  OBVIOUS
<1>3. \/ u = NextEntry
      \/ u = [v EXCEPT !.word = @ + 1, !.tmp = tmp]
      \/ u = [v EXCEPT !.pc = "stopped"]
      \/ u = [v EXCEPT !.pc = "ptr", !.word = 1, !.tmp = tmp]
  BY <1>p DEF ReadKey
<1>4. CASE u = NextEntry
  <2>1. u.pc = "test" /\ u.page = v.page /\ u.i = v.i + 1 /\ u.buf = v.buf /\ u.old = v.old
    BY <1>1, <1>2, <1>4 DEF NextEntry, Regs
  <2>2. QED
    BY <1>1, <1>2, <2>1, NextRepeat
<1>5. CASE u # NextEntry
  <2>1. /\ u.pc \in {"key", "stopped", "ptr"} /\ u.page = v.page /\ u.i = v.i
        /\ u.buf = v.buf /\ u.old = v.old
    BY <1>1, <1>3, <1>5 DEF Regs
  <2>2. Taken(u) = Taken(v) /\ NextSlot(v) = v.i /\ How(v) = "past"
    BY <1>1, <2>1 DEF Taken, NextSlot, How
  <2>3. CASE u.pc = "stopped"
    <3>1. NextSlot(u) = Card /\ How(u) = "at"
      BY <2>3 DEF NextSlot, How
    <3>2. Copies(u.page, NextSlot(u), How(u)) \subseteq Copies(v.page, NextSlot(v), How(v))
      BY <1>2, <2>1, <3>1, CopiesSteps
    <3>3. QED
      BY <1>2, <2>1, <2>2, <3>2, StayRepeat
  <2>4. CASE u.pc # "stopped"
    <3>1. NextSlot(u) = NextSlot(v) /\ How(u) = How(v)
      BY <2>1, <2>2, <2>4 DEF NextSlot, How
    <3>2. Copies(u.page, NextSlot(u), How(u)) \subseteq Copies(v.page, NextSlot(v), How(v))
      BY <2>1, <3>1
    <3>3. QED
      BY <1>2, <2>1, <2>2, <3>2, StayRepeat
  <2>5. QED
    BY <2>3, <2>4
<1>6. QED
  BY <1>4, <1>5

LEMMA ReadPtrRepeat ==
  ASSUME FastFairInv, LeafInv, ScanInv, JoinInv, Known,
         NEW v, NEW u, v = r, u = r', RepeatAt(v), ReadPtr
  PROVE  RepeatAt(u)
<1> USE Constants
<1>p. PICK x : x = ptr[v.page][v.i]
  OBVIOUS
<1>1. v.pc = "ptr" /\ DOMAIN v = Regs
  BY ScanIs DEF ReadPtr
<1>2. /\ v.page \in Linked /\ v.page \in Page /\ v.i \in Slot /\ v.p \in Rec \cup {Null}
      /\ v.buf \in Seq(Rec) /\ Len(Taken(v)) \in Nat
  BY ScanIs
<1>3. x \in Rec \cup {Null} /\ x \in Indexed \cup {Null}
  BY <1>p, <1>2 DEF Known, Chain, LeafInv, PageInv, PageTypes
<1>4. \/ u = NextEntry
      \/ u = [v EXCEPT !.p = x, !.pc = IF v.i = 0 THEN "again" ELSE "left"]
  BY <1>p DEF ReadPtr
<1>5. CASE u = NextEntry
  <2>1. u.pc = "test" /\ u.page = v.page /\ u.i = v.i + 1 /\ u.buf = v.buf /\ u.old = v.old
    BY <1>1, <1>2, <1>5 DEF NextEntry, Regs
  <2>2. QED
    BY <1>1, <1>2, <2>1, NextRepeat
<1>6. CASE u # NextEntry
  <2>1. /\ u.pc \in {"left", "again"} /\ u.page = v.page /\ u.i = v.i
        /\ u.buf = v.buf /\ u.old = v.old /\ u.p = x
    BY <1>1, <1>4, <1>6 DEF Regs
  <2>2. Taken(v) = v.buf /\ NextSlot(v) = v.i /\ How(v) = "past"
    BY <1>1 DEF Taken, NextSlot, How
  <2>3. NextSlot(u) = v.i + 1 /\ How(u) = "at"
    BY <2>1 DEF NextSlot, How
  <2>4. CASE x = Null
    <3>1. Taken(u) = Taken(v)
      BY <2>1, <2>2, <2>4 DEF Taken
    <3>2. Copies(u.page, NextSlot(u), How(u)) \subseteq Copies(v.page, NextSlot(v), How(v))
      BY <1>2, <2>1, <2>2, <2>3, CopiesSteps
    <3>3. QED
      BY <1>2, <2>1, <3>1, <3>2, StayRepeat
  <2>5. CASE x # Null
    <3>1. x \in Rec /\ x \in Indexed
      BY <1>3, <2>5
    <3>2. FewNow(u)
      BY <1>1, <1>2, <1>p, <2>1, <2>5, <3>1, ReadNow DEF RepeatAt
    <3>3. Rng(Taken(u)) \subseteq Indexed
      <4>1. Taken(u) = Append(v.buf, x)
        BY <2>1, <2>5 DEF Taken
      <4>2. /\ Len(Append(v.buf, x)) = Len(v.buf) + 1 /\ Len(v.buf) \in Nat
            /\ \A k \in 1 .. Len(v.buf) : Append(v.buf, x)[k] = v.buf[k]
            /\ Append(v.buf, x)[Len(v.buf) + 1] = x
        BY <1>2, <3>1, AppendProperties, LenProperties
      <4>3. \A k \in 1 .. Len(v.buf) : v.buf[k] \in Indexed
        BY <2>2 DEF RepeatAt, Rng
      <4>4. QED
        BY <3>1, <4>1, <4>2, <4>3 DEF Rng
    <3>4. QED
      BY <2>1, <3>2, <3>3 DEF RepeatAt, FewAgain
  <2>6. QED
    BY <2>4, <2>5
<1>7. QED
  BY <1>5, <1>6

LEMMA ReadLeftRepeat ==
  ASSUME FastFairInv, LeafInv, ScanInv, NEW v, NEW u, v = r, u = r', RepeatAt(v), ReadLeft
  PROVE  RepeatAt(u)
<1> USE Constants
<1>1. v.pc = "left" /\ DOMAIN v = Regs
  BY ScanIs DEF ReadLeft
<1>2. /\ v.i \in Slot /\ v.p \in Rec \cup {Null} /\ v.buf \in Seq(Rec)
      /\ Len(Taken(v)) \in Nat
  BY ScanIs
<1>3. u = NextEntry \/ u = [v EXCEPT !.pc = "again"]
  BY DEF ReadLeft
<1>4. CASE u = NextEntry
  <2>1. u.pc = "test" /\ u.page = v.page /\ u.i = v.i + 1 /\ u.buf = v.buf /\ u.old = v.old
    BY <1>1, <1>2, <1>4 DEF NextEntry, Regs
  <2>2. QED
    BY <1>1, <1>2, <2>1, NextRepeat
<1>5. CASE u # NextEntry
  <2>1. /\ u.pc = "again" /\ u.page = v.page /\ u.i = v.i
        /\ u.buf = v.buf /\ u.old = v.old /\ u.p = v.p
    BY <1>1, <1>3, <1>5 DEF Regs
  <2>2. Taken(u) = Taken(v) /\ NextSlot(u) = NextSlot(v) /\ How(u) = How(v)
    BY <1>1, <2>1 DEF Taken, NextSlot, How
  <2>3. Copies(u.page, NextSlot(u), How(u)) \subseteq Copies(v.page, NextSlot(v), How(v))
    BY <2>1, <2>2
  <2>4. QED
    BY <1>2, <2>1, <2>2, <2>3, StayRepeat
<1>6. QED
  BY <1>4, <1>5

LEMMA ReReadRepeat ==
  ASSUME FastFairInv, LeafInv, ScanInv, NEW v, NEW u, v = r, u = r', RepeatAt(v), ReReadKey
  PROVE  RepeatAt(u)
<1> USE Constants
<1>1. v.pc = "again" /\ DOMAIN v = Regs
  BY ScanIs DEF ReReadKey
<1>2. /\ v.i \in Slot /\ v.p \in Rec \cup {Null} /\ v.buf \in Seq(Rec)
      /\ Len(Taken(v)) \in Nat /\ v.old \in 0 .. Len(v.buf) /\ Len(v.buf) \in Nat
  BY ScanIs
<1>3. \/ u = NextEntry
      \/ u = [v EXCEPT !.word = @ + 1]
      \/ u = [NextEntry EXCEPT !.buf = IF v.p = Null THEN @ ELSE Append(@, v.p)]
  BY DEF ReReadKey
<1>4. CASE u = NextEntry
  <2>1. u.pc = "test" /\ u.page = v.page /\ u.i = v.i + 1 /\ u.buf = v.buf /\ u.old = v.old
    BY <1>1, <1>2, <1>4 DEF NextEntry, Regs
  <2>2. QED
    BY <1>1, <1>2, <2>1, NextRepeat
<1>5. CASE u = [v EXCEPT !.word = @ + 1]
  <2>1. /\ u.pc = "again" /\ u.page = v.page /\ u.i = v.i
        /\ u.buf = v.buf /\ u.old = v.old /\ u.p = v.p
    BY <1>1, <1>5 DEF Regs
  <2>2. Taken(u) = Taken(v) /\ NextSlot(u) = NextSlot(v) /\ How(u) = How(v)
    BY <1>1, <2>1 DEF Taken, NextSlot, How
  <2>3. Copies(u.page, NextSlot(u), How(u)) \subseteq Copies(v.page, NextSlot(v), How(v))
    BY <2>1, <2>2
  <2>4. QED
    BY <1>2, <2>1, <2>2, <2>3, StayRepeat
<1>6. CASE u = [NextEntry EXCEPT !.buf = IF v.p = Null THEN @ ELSE Append(@, v.p)]
  <2>1. /\ u.pc = "test" /\ u.page = v.page /\ u.i = v.i + 1 /\ u.old = v.old
        /\ u.buf = IF v.p = Null THEN v.buf ELSE Append(v.buf, v.p)
    BY <1>1, <1>2, <1>6 DEF NextEntry, Regs
  <2>2. /\ Taken(u) = Taken(v) /\ NextSlot(u) = NextSlot(v) /\ How(u) = How(v)
        /\ u.page = v.page
    BY <1>1, <2>1 DEF Taken, NextSlot, How
  <2>3. FewNow(u)
    BY <2>2 DEF RepeatAt, FewNow
  <2>4. SubSeq(u.buf, 1, v.old) = SubSeq(v.buf, 1, v.old)
    <3>1. CASE v.p = Null
      BY <2>1, <3>1
    <3>2. CASE v.p # Null
      <4>1. u.buf = Append(v.buf, v.p) /\ v.p \in Rec
        BY <1>2, <2>1, <3>2
      <4>2. /\ u.buf \in Seq(Rec) /\ Len(u.buf) = Len(v.buf) + 1
            /\ \A k \in 1 .. Len(v.buf) : u.buf[k] = v.buf[k]
        BY <1>2, <4>1, AppendProperties
      <4>3. \A k \in 1 .. v.old : u.buf[k] = v.buf[k] /\ v.buf[k] \in Rec
        <5>1. \A k \in 1 .. v.old : k \in 1 .. Len(v.buf)
          BY <1>2
        <5>2. QED
          BY <1>2, <4>2, <5>1, ElementOfSeq
      <4>4. /\ SubSeq(v.buf, 1, v.old) \in Seq(Rec) /\ SubSeq(u.buf, 1, v.old) \in Seq(Rec)
            /\ Len(SubSeq(v.buf, 1, v.old)) = (IF 1 <= v.old THEN v.old - 1 + 1 ELSE 0)
            /\ Len(SubSeq(u.buf, 1, v.old)) = (IF 1 <= v.old THEN v.old - 1 + 1 ELSE 0)
            /\ \A k \in 1 .. v.old - 1 + 1 : SubSeq(v.buf, 1, v.old)[k] = v.buf[1 + k - 1]
            /\ \A k \in 1 .. v.old - 1 + 1 : SubSeq(u.buf, 1, v.old)[k] = u.buf[1 + k - 1]
        BY <1>2, <4>3, SubSeqProperties
      <4>5. /\ Len(SubSeq(v.buf, 1, v.old)) = v.old /\ Len(SubSeq(u.buf, 1, v.old)) = v.old
            /\ \A k \in 1 .. v.old : SubSeq(v.buf, 1, v.old)[k] = SubSeq(u.buf, 1, v.old)[k]
        BY <1>2, <4>3, <4>4
      <4>6. QED
        BY <4>4, <4>5, SeqEqual
    <3>3. QED
      BY <3>1, <3>2
  <2>5. FewAgain(u)
    BY <2>1, <2>4 DEF RepeatAt, FewAgain
  <2>6. QED
    BY <2>2, <2>3, <2>5 DEF RepeatAt
<1>7. QED
  BY <1>3, <1>4, <1>5, <1>6

LEMMA TestRepeat ==
  ASSUME FastFairInv, LeafInv, ScanInv, NEW v, NEW u, v = r, u = r', RepeatAt(v), TestEntry
  PROVE  RepeatAt(u)
<1> USE Constants
<1>1. v.pc = "test" /\ DOMAIN v = Regs
  BY ScanIs DEF TestEntry
<1>2. v.i \in Slot /\ Len(Taken(v)) \in Nat
  BY ScanIs
<1>3. /\ u.pc = (IF ptr[v.page][v.i] # Null THEN "key" ELSE "check")
      /\ u.page = v.page /\ u.i = v.i /\ u.buf = v.buf /\ u.old = v.old
  BY <1>1 DEF TestEntry, Regs
<1>4. NextSlot(v) = v.i /\ How(v) = "at" /\ Taken(u) = Taken(v)
  BY <1>1, <1>3 DEF Taken, NextSlot, How
<1>5. Copies(u.page, NextSlot(u), How(u)) \subseteq Copies(v.page, NextSlot(v), How(v))
  <2>1. CASE ptr[v.page][v.i] # Null
    <3>1. NextSlot(u) = v.i /\ How(u) = "past"
      BY <1>3, <2>1 DEF NextSlot, How
    <3>2. QED
      BY <1>2, <1>3, <1>4, <2>1, <3>1, CopiesSteps
  <2>2. CASE ptr[v.page][v.i] = Null
    <3>1. NextSlot(u) = Card /\ How(u) = "at"
      BY <1>3, <2>2 DEF NextSlot, How
    <3>2. QED
      BY <1>2, <1>3, <1>4, <3>1, CopiesSteps
  <2>3. QED
    BY <2>1, <2>2
<1>6. QED
  BY <1>2, <1>3, <1>4, <1>5, StayRepeat

LEMMA CheckRepeat ==
  ASSUME FastFairInv, LeafInv, ScanInv, NEW v, NEW u, v = r, u = r', RepeatAt(v), CheckCounter
  PROVE  RepeatAt(u)
<1>1. v.pc = "check" /\ DOMAIN v = Regs
  BY ScanIs DEF CheckCounter
<1>2. Len(Taken(v)) \in Nat
  BY ScanIs
<1>3. u.pc \in {"page", "hop"} /\ u.page = v.page /\ u.buf = v.buf /\ u.old = v.old
  BY <1>1 DEF CheckCounter, Regs
<1>4. NextSlot(v) = NextSlot(u) /\ How(v) = How(u) /\ Taken(u) = Taken(v)
  BY <1>1, <1>3 DEF Taken, NextSlot, How
<1>5. Copies(u.page, NextSlot(u), How(u)) \subseteq Copies(v.page, NextSlot(v), How(v))
  BY <1>3, <1>4
<1>6. QED
  BY <1>2, <1>3, <1>4, <1>5, StayRepeat

(* The next page and all behind it lie behind this one.                    *)
LEMMA CopiesHop ==
  ASSUME PageInv, NEW p \in Page, NEW q, q = sibling[p], q # Null
  PROVE  Copies(q, 0, "past") \subseteq Copies(p, Card, "at")
<1>1. q \in Page /\ q \in Right(q) /\ q \in After(p)
  BY RightSelf, RightNext DEF After
<1>2. ASSUME NEW a \in After(q) PROVE a \in After(p)
  <2>1. a \in Page /\ sibling[q] # Null /\ a \in Right(sibling[q])
    BY DEF After
  <2>2. sibling[q] \in Right(q)
    BY <1>1, <2>1, RightNext
  <2>3. a \in Right(q)
    BY <2>1, <2>2, RightTrans
  <2>4. QED
    BY <2>1, <2>3 DEF After
<1>3. QED
  BY <1>1, <1>2 DEF Copies

LEMMA HopRepeat ==
  ASSUME FastFairInv, LeafInv, ScanInv, NEW v, NEW u, v = r, u = r', RepeatAt(v), HopSibling
  PROVE  RepeatAt(u)
<1> USE Constants
<1>1. v.pc = "hop" /\ DOMAIN v = Regs
  BY ScanIs DEF HopSibling
<1>2. /\ v.page \in Page /\ v.buf \in Seq(Rec) /\ Len(v.buf) \in Nat
      /\ Len(Taken(v)) \in Nat /\ PageInv
  BY ScanIs DEF LeafInv
<1>3. Taken(v) = v.buf /\ NextSlot(v) = Card /\ How(v) = "at"
  BY <1>1 DEF Taken, NextSlot, How
<1>4. CASE sibling[v.page] = Null
  <2>1. u.pc = "ended" /\ u.page = v.page /\ u.buf = v.buf /\ u.old = v.old
    BY <1>1, <1>4 DEF HopSibling, Regs
  <2>2. NextSlot(v) = NextSlot(u) /\ How(v) = How(u) /\ Taken(u) = Taken(v)
    BY <1>1, <2>1 DEF Taken, NextSlot, How
  <2>3. Copies(u.page, NextSlot(u), How(u)) \subseteq Copies(v.page, NextSlot(v), How(v))
    BY <2>1, <2>2
  <2>4. QED
    BY <1>2, <2>1, <2>2, <2>3, StayRepeat
<1>5. CASE sibling[v.page] # Null
  <2>1. /\ u.pc = "page" /\ u.page = sibling[v.page] /\ u.buf = v.buf
        /\ u.old = Len(v.buf)
    BY <1>1, <1>5 DEF HopSibling, Regs
  <2>2. Taken(u) = v.buf /\ NextSlot(u) = Card /\ How(u) = "at"
    BY <2>1 DEF Taken, NextSlot, How
  <2>3. SubSeq(u.buf, 1, u.old) = v.buf
    BY <1>2, <2>1, SubSeqFull
  <2>4. Copies(u.page, 0, "past") \subseteq Copies(v.page, Card, "at")
    BY <1>2, <1>5, <2>1, CopiesHop
  <2>5. Copies(u.page, Card, "at") \subseteq Copies(u.page, 0, "past")
    BY CopiesSteps
  <2>6. Copies(u.page, NextSlot(u), How(u)) \subseteq Copies(v.page, NextSlot(v), How(v))
    BY <1>3, <2>2, <2>4, <2>5
  <2>7. FewNow(u)
    BY <1>2, <1>3, <2>2, <2>6, FewerNow DEF RepeatAt
  <2>8. FewAgain(u)
    <3>1. PICK C, D, M, b : /\ C = Copies(v.page, Card, "at") /\ D = Copies(u.page, 0, "past")
                            /\ M = Budget /\ b = v.buf
      OBVIOUS
    <3>2. IsFiniteSet(C) /\ M \in Int /\ M <= M /\ D \subseteq C
      BY <2>4, <3>1, CopiesFinite, BudgetType
    <3>3. Few(b, C, ptr, M) /\ Len(b) \in Nat
      BY <1>2, <1>3, <3>1 DEF RepeatAt, FewNow
    <3>4. Few(b, D, ptr, M)
      BY <3>2, <3>3, FewerCopies
    <3>5. QED
      BY <2>3, <3>1, <3>4 DEF FewAgain
  <2>9. QED
    BY <1>3, <2>2, <2>7, <2>8 DEF RepeatAt
<1>6. QED
  BY <1>4, <1>5

-----------------------------------------------------------------------------
(* Where a scan that begins meets more pointers than there are records:    *)
(* the insert that runs is counted as one of those since it began.         *)
Allowed == IF w.pc = "idle" THEN 0 ELSE UpperHalf + 1 - Reserve

LEMMA CopyIs ==
  ASSUME LeafInv, NEW p \in Linked, NEW c \in Copies(p, 0, "past")
  PROVE  /\ c[1] \in Linked /\ c[1] \in Page /\ c[2] \in Slot /\ c = <<c[1], c[2]>>
         /\ ptr[c[1]][c[2]] # Null /\ \A k \in 1 .. c[2] : ptr[c[1]][k] # Null
<1> USE Constants
<1>1. c[1] \in Linked /\ c[1] \in Page /\ c[2] \in Slot
  BY CopiesLinked DEF LeafInv
<1>2. c = <<c[1], c[2]>> /\ c[2] \in Near(ptr[c[1]], 0, "past")
  BY DEF Copies
<1>3. PICK f, j : f = ptr[c[1]] /\ j = c[2]
  OBVIOUS
<1>4. j \in Near(f, 0, "past") /\ j \in Slot
  BY <1>1, <1>2, <1>3
<1>5. f[j] # Null /\ \A k \in 1 .. j : f[k] # Null
  <2>1. CASE j = 0
    BY <1>4, <2>1 DEF Near, Stretch
  <2>2. CASE j # 0
    <3>1. j \in Stretch(f, 1)
      BY <1>4, <2>2 DEF Near
    <3>2. \A k \in 1 .. j : f[k] # Null
      BY <3>1 DEF Stretch
    <3>3. j \in 1 .. j
      BY <1>4, <2>2
    <3>4. QED
      BY <3>2, <3>3
  <2>3. QED
    BY <2>1, <2>2
<1>6. QED
  BY <1>1, <1>2, <1>3, <1>5

(* In a page nobody writes in there are none.                              *)
LEMMA NoneInRest ==
  ASSUME LeafInv, NEW p \in Linked, NEW c \in Copies(p, 0, "past"),
         w.pc = "idle" \/ c[1] # w.page
  PROVE  c[2] \in Alive(c[1])
<1> USE Constants
<1>0. PageInv /\ SortedInv
  BY DEF LeafInv
<1>p. PICK q, j, l : q = c[1] /\ j = c[2] /\ l = last[c[1]]
  OBVIOUS
<1>1. /\ q \in Linked /\ q \in Page /\ j \in Slot
      /\ ptr[q][j] # Null /\ \A k \in 1 .. j : ptr[q][k] # Null
  BY <1>p, CopyIs
<1>2. Alive(q) = 0 .. l
  BY <1>p DEF Alive, Live, Splitting, Entry
<1>3. ptr[q][l + 1] = Null /\ l \in -1 .. Card - 2 /\ last[q] = l
  BY <1>0, <1>1, <1>p DEF SortedInv, EndInv, Chain, PageInv, PageTypes
<1>4. ASSUME j > l PROVE FALSE
  <2>1. CASE l >= 0
    BY <1>1, <1>3, <1>4, <2>1
  <2>2. CASE l = -1
    <3>1. ptr[q][0] = Null
      BY <1>3, <2>2
    <3>2. q = First
      BY <1>0, <1>1, <1>3, <2>2 DEF PageInv, NotEmpty
    <3>3. ptr[q][1] = Null
      BY <1>0, <1>3, <2>2, <3>2 DEF SortedInv, EndInv
    <3>4. j >= 1
      BY <1>1, <3>1
    <3>5. QED
      BY <1>1, <3>3, <3>4
  <2>3. QED
    BY <1>3, <2>1, <2>2
<1>5. QED
  BY <1>1, <1>2, <1>3, <1>4, <1>p

(* In the page that is written there are those of the upper half, or the   *)
(* one in the hole.                                                        *)
LEMMA SomeInWritten ==
  ASSUME LeafInv, SplitHalf, w.pc # "idle"
  PROVE  \E m \in Int, n \in Int :
           /\ m - n + 1 <= Allowed /\ 0 <= Allowed /\ Allowed \in Int
           /\ \A p \in Linked : \A c \in Copies(p, 0, "past") :
                c[1] = w.page => c[2] \in Alive(w.page) \/ c[2] \in n .. m
<1> USE Constants
<1>0. PageInv /\ SortedInv /\ HalfInv /\ UpperHalf \in Nat /\ UpperHalf >= 1
  BY UpperIs DEF LeafInv
<1>p. PICK q, n, a, b, h, u, s :
         /\ q = w.page /\ n = w.n /\ a = last[w.page] /\ b = last[w.new] /\ h = w.hole
         /\ u = UpperHalf /\ s = Reserve
  OBVIOUS
<1>1. Allowed = u + 1 - s
  BY <1>p DEF Allowed
<1>2. CASE w.pc = "publish"
  <2>1. s = u + 1 /\ w.pc \in Splitting
    BY <1>2, <1>p DEF Reserve, Splitting
  <2>2. /\ n \in 1 .. Card - 2 /\ b \in 0 .. Card - 3
        /\ a = n + b /\ ptr[q][a + 1] = Null /\ Alive(q) = 0 .. a
    BY <1>0, <1>2, <1>p, <2>1, SplitIs DEF HalfInv, Alive
  <2>3. ASSUME NEW p \in Linked, NEW c \in Copies(p, 0, "past"), c[1] = q
        PROVE  c[2] \in Alive(q)
    <3>1. c[2] \in Slot /\ \A k \in 1 .. c[2] : ptr[q][k] # Null
      BY <2>3, CopyIs
    <3>2. QED
      BY <2>2, <3>1
  <2>4. 0 - 1 + 1 <= Allowed /\ 0 <= Allowed /\ Allowed \in Int
    BY <1>0, <1>1, <1>p, <2>1
  <2>5. 0 \in Int /\ 1 \in Int /\ 0 - 1 + 1 <= Allowed
    BY <2>4
  <2>6. QED
    BY <1>p, <2>3, <2>4, <2>5
<1>3. CASE w.pc \in {"bump", "cut"}
  <2>1. s = 1 /\ w.pc \in Splitting
    BY <1>3, <1>p DEF Reserve, Splitting
  <2>2. /\ n \in 1 .. Card - 2 /\ b \in 0 .. Card - 3 /\ b < u
        /\ a = n + b /\ ptr[q][a + 1] = Null /\ Alive(q) = 0 .. n - 1
    BY <1>0, <1>3, <1>p, <2>1, SplitIs DEF HalfInv, Alive, SplitHalf
  <2>3. ASSUME NEW p \in Linked, NEW c \in Copies(p, 0, "past"), c[1] = q
        PROVE  c[2] \in Alive(q) \/ c[2] \in n .. n + b
    <3>1. c[2] \in Slot /\ \A k \in 1 .. c[2] : ptr[q][k] # Null
      BY <2>3, CopyIs
    <3>2. QED
      BY <2>2, <3>1
  <2>4. n + b - n + 1 <= Allowed /\ 0 <= Allowed /\ Allowed \in Int /\ n + b \in Int /\ n \in Int
    BY <1>0, <1>1, <1>p, <2>1, <2>2
  <2>5. PICK m, k : m = n + b /\ k = n
    OBVIOUS
  <2>6. m \in Int /\ k \in Int /\ m - k + 1 <= Allowed
    BY <2>2, <2>4, <2>5
  <2>r. n .. n + b = k .. m
    BY <2>5
  <2>c. \A g \in Linked : \A c \in Copies(g, 0, "past") :
          c[1] = w.page => c[2] \in Alive(w.page) \/ c[2] \in k .. m
    BY <1>p, <2>3, <2>r
  <2>7. QED
    BY <2>4, <2>6, <2>c
<1>4. CASE w.pc \in Entry
  <2>1. s \in {0, 1}
    BY <1>4, <1>p DEF Reserve, Entry
  <2>2. /\ n \in 0 .. Card - 2 /\ h \in 0 .. n /\ Alive(q) = (0 .. n) \ {h}
    BY <1>0, <1>4, <1>p, EntryIs DEF Alive, Entry
  <2>3. /\ w.pc # "end" => ptr[q][n + 1] = Null
        /\ w.pc = "end" => ptr[q][n] = Null /\ n >= 1
    BY <1>0, <1>4, <1>p, <2>2 DEF PageInv, HoleInPage, SortedInv, HoleInv, HoleAt
  <2>4. ASSUME NEW p \in Linked, NEW c \in Copies(p, 0, "past"), c[1] = q
        PROVE  c[2] \in Alive(q) \/ c[2] \in h .. h
    <3>1. c[2] \in Slot /\ \A k \in 1 .. c[2] : ptr[q][k] # Null
      BY <2>4, CopyIs
    <3>2. c[2] <= n
      BY <2>2, <2>3, <3>1
    <3>3. QED
      BY <2>2, <3>1, <3>2
  <2>5. h - h + 1 <= Allowed /\ 0 <= Allowed /\ Allowed \in Int /\ h \in Int
    BY <1>0, <1>1, <1>p, <2>1, <2>2
  <2>6. QED
    BY <1>p, <2>4, <2>5
<1>5. QED
  <2>1. w.pc \in {"idle"} \cup Splitting \cup Entry
    BY <1>0 DEF PageInv, WriterTypes
  <2>2. QED
    BY <1>2, <1>3, <1>4, <2>1 DEF Splitting

(* Without them, no record is met twice.                                   *)
LEMMA AliveOnce ==
  ASSUME LeafInv, NEW C, IsFiniteSet(C),
         \A c \in C : /\ c = <<c[1], c[2]>> /\ c[1] \in Linked /\ c[2] \in Alive(c[1])
  PROVE  IsFiniteSet(Img(ptr, C)) /\ Cardinality(Img(ptr, C)) = Cardinality(C)
<1> USE Constants
<1>0. PageInv /\ SortedInv /\ HalfInv
  BY DEF LeafInv
<1>1. ASSUME NEW c \in C, NEW d \in C, ptr[c[1]][c[2]] = ptr[d[1]][d[2]]
      PROVE  c = d
  <2>1. /\ c[1] \in Linked /\ c[2] \in Alive(c[1]) /\ d[1] \in Linked /\ d[2] \in Alive(d[1])
        /\ c = <<c[1], c[2]>> /\ d = <<d[1], d[2]>>
    OBVIOUS
  <2>2. ptr[c[1]][c[2]] \in Holds(c[1]) /\ ptr[c[1]][c[2]] \in Holds(d[1])
    BY <1>1, <2>1 DEF Holds
  <2>3. c[1] = d[1]
    BY <2>1, <2>2, HoldsApart
  <2>4. c[2] \in Slot /\ d[2] \in Slot /\ InOrder(key[c[1]], ptr[c[1]], Alive(c[1]))
    BY <1>0, <2>1, AliveIs
  <2>5. c[2] = d[2]
    BY <1>1, <2>1, <2>3, <2>4 DEF InOrder
  <2>6. QED
    BY <2>1, <2>3, <2>5
<1> DEFINE f == [c \in C |-> ptr[c[1]][c[2]]]
<1>2. f \in [C -> Img(ptr, C)]
  BY DEF Img
<1>3. f \in Surjection(C, Img(ptr, C))
  BY <1>2, Fun_IsSurj DEF Img
<1>4. f \in Injection(C, Img(ptr, C))
  BY <1>1, <1>2, Fun_IsInj
<1>5. QED
  BY <1>3, <1>4, FS_Surjection

LEMMA StartFew ==
  ASSUME LeafInv, SplitHalf, NEW p \in Linked
  PROVE  Few(<< >>, Copies(p, 0, "past"), ptr, Allowed) /\ Allowed \in Int
<1> USE Constants
<1>p. PICK C, n, m, N : /\ C = Copies(p, 0, "past") /\ N = Allowed
                        /\ n \in Int /\ m \in Int
                        /\ N \in Int /\ 0 <= N /\ m - n + 1 <= N
                        /\ \A c \in C : c[2] \in Alive(c[1]) \/ (c[1] = w.page /\ c[2] \in n .. m)
  <2>1. CASE w.pc = "idle"
    <3>1. \A c \in Copies(p, 0, "past") : c[2] \in Alive(c[1])
      BY <2>1, NoneInRest
    <3>2. Allowed = 0 /\ 0 - 1 + 1 <= 0 /\ 0 <= 0 /\ 0 \in Int /\ 1 \in Int
      BY <2>1 DEF Allowed
    <3>3. QED
      BY <3>1, <3>2
  <2>2. CASE w.pc # "idle"
    <3>1. PICK m \in Int, n \in Int :
           /\ m - n + 1 <= Allowed /\ 0 <= Allowed /\ Allowed \in Int
           /\ \A c \in Copies(p, 0, "past") :
                c[1] = w.page => c[2] \in Alive(w.page) \/ c[2] \in n .. m
      BY <2>2, SomeInWritten
    <3>2. \A c \in Copies(p, 0, "past") : c[1] # w.page => c[2] \in Alive(c[1])
      BY NoneInRest
    <3>3. \A c \in Copies(p, 0, "past") :
            c[2] \in Alive(c[1]) \/ (c[1] = w.page /\ c[2] \in n .. m)
      BY <3>1, <3>2
    <3>4. QED
      BY <3>1, <3>3
  <2>3. QED
    BY <2>1, <2>2
<1>1. PICK L : L = {c \in C : c[2] \in Alive(c[1])}
  OBVIOUS
<1>2. PICK A : A = {<<w.page, i>> : i \in n .. m}
  OBVIOUS
<1>3. IsFiniteSet(C) /\ IsFiniteSet(L)
  BY <1>p, <1>1, CopiesFinite, FS_Subset
<1>4. \A c \in C : c = <<c[1], c[2]>> /\ c[1] \in Linked
  BY <1>p, CopyIs
<1>5. Cardinality(Img(ptr, L)) = Cardinality(L)
  BY <1>1, <1>3, <1>4, AliveOnce
<1>6. IsFiniteSet(A) /\ Cardinality(A) <= N
  <2>1. IsFiniteSet(n .. m) /\ Cardinality(n .. m) = IF n > m THEN 0 ELSE m - n + 1
    BY <1>p, FS_Interval
  <2>2. Cardinality(n .. m) <= N /\ Cardinality(n .. m) \in Nat
    BY <1>p, <2>1
  <2> DEFINE f == [i \in n .. m |-> <<w.page, i>>]
  <2>3. f \in Surjection(n .. m, A)
    BY <1>2, Fun_IsSurj
  <2>4. IsFiniteSet(A) /\ Cardinality(A) <= Cardinality(n .. m)
    BY <2>1, <2>3, FS_Surjection
  <2>5. Cardinality(A) \in Nat
    BY <2>4, FS_CardinalityType
  <2>6. QED
    BY <1>p, <2>2, <2>4, <2>5
<1>7. C \subseteq L \cup A
  BY <1>p, <1>1, <1>2, <1>4
<1>8. Len(<< >>) = 0 /\ Rng(<< >>) = {}
  BY DEF Rng
<1>9. Few(<< >>, L, ptr, 0)
  <2>1. Cardinality(L) \in Nat
    BY <1>3, FS_CardinalityType
  <2>2. Rng(<< >>) \cup Img(ptr, L) = Img(ptr, L)
    BY <1>8
  <2>3. Cardinality(Rng(<< >>) \cup Img(ptr, L)) = Cardinality(L)
    BY <1>5, <2>2
  <2>4. Len(<< >>) + Cardinality(L) <= Cardinality(L) + 0
    BY <1>8, <2>1
  <2>5. Len(<< >>) + Cardinality(L) <= Cardinality(Rng(<< >>) \cup Img(ptr, L)) + 0
    BY ONLY <2>3, <2>4
  <2>6. QED
    BY ONLY <2>5 DEF Few
<1>10. Img(ptr, L) \subseteq Rng(<< >>) \cup Img(ptr, C)
  BY <1>1 DEF Img
<1>11. /\ Len(<< >>) \in Nat /\ 0 \in Int /\ N \in Int
       /\ Cardinality(A) \in Nat /\ 0 + Cardinality(A) <= N
  <2>1. Cardinality(A) \in Nat
    BY <1>6, FS_CardinalityType
  <2>2. QED
    BY <1>p, <1>6, <1>8, <2>1
<1>12. Few(<< >>, C, ptr, N)
  BY <1>3, <1>6, <1>7, <1>9, <1>10, <1>11, MoreCopies
<1>13. QED
  BY <1>p, <1>12

LEMMA StartBudget ==
  ASSUME LeafInv, RestInv, UNCHANGED <<pageVars, w>>, seen'.before = Indexed
  PROVE  Budget' = Allowed /\ Indexed' = Indexed
<1>1. UNCHANGED <<ptr, sibling, last, w>> /\ LeafInv' /\ PageInv
  BY LeafFrame DEF pageVars, LeafInv
<1>2. Indexed' = Indexed
  <2>1. Linked' = Linked /\ \A p : Holds(p)' = Holds(p)
    BY <1>1, LinkSame DEF Holds, Alive, Live
  <2>2. QED
    BY <1>1, <2>1, HeldIndexed, HeldIndexedNext DEF IndexedIs
<1>3. InsertsSince' = (Indexed \cup {w.rec}) \ (Indexed \cup {Null})
  BY <1>1, <1>2 DEF InsertsSince
<1>4. Reserve' = Reserve /\ UpperHalf' = UpperHalf
  BY <1>1 DEF Reserve, UpperHalf
<1>5. CASE w.pc = "idle"
  <2>1. InsertsSince' = {} /\ Reserve = 0 /\ Allowed = 0
    BY <1>3, <1>5 DEF RestInv, Reserve, Allowed
  <2>2. Cardinality(InsertsSince') = 0
    BY <2>1, FS_EmptySet
  <2>3. Budget' = (UpperHalf + 1) * 0 - 0
    BY <1>4, <2>1, <2>2 DEF Budget
  <2>4. QED
    BY <1>2, <2>1, <2>3, UpperIs
<1>6. CASE w.pc # "idle"
  <2>1. w.pc \in Splitting \cup Entry
    BY <1>1, <1>6 DEF PageInv, WriterTypes
  <2>2. w.rec \in Rec /\ w.rec # Null
    BY <1>1, <2>1, Constants DEF PageInv, SplitReady, HoleInPage
  <2>3. w.rec \notin Indexed
    BY <1>6, RecIsNew
  <2>4. InsertsSince' = {w.rec}
    BY <1>3, <2>2, <2>3
  <2>5. Cardinality(InsertsSince') = 1
    BY <2>4, FS_Singleton
  <2>6. Budget' = (UpperHalf + 1) * 1 - Reserve
    BY <1>4, <2>5 DEF Budget
  <2>7. Allowed = UpperHalf + 1 - Reserve
    BY <1>6 DEF Allowed
  <2>p. PICK u, s : u = UpperHalf /\ s = Reserve
    OBVIOUS
  <2>8. u \in Nat /\ s \in Nat
    BY <2>p, UpperIs DEF Reserve
  <2>9. (u + 1) * 1 - s = u + 1 - s
    BY ONLY <2>8
  <2>10. Budget' = (u + 1) * 1 - s /\ Allowed = u + 1 - s
    BY <2>6, <2>7, <2>p
  <2>11. QED
    BY <1>2, <2>9, <2>10
<1>7. QED
  BY <1>5, <1>6

LEMMA StartRepeat ==
  ASSUME FastFairInv, LeafInv, RestInv, QuietInv, SplitHalf, ScanStart, NEW u, u = r'
  PROVE  Taken(u) = << >> /\ FewNow(u)' /\ FewAgain(u)' /\ Indexed' = Indexed
<1> USE Constants
<1>1. UNCHANGED <<pageVars, w>> /\ seen'.before = Indexed /\ ptr' = ptr /\ sibling' = sibling
  BY DEF ScanStart, pageVars
<1>2. Budget' = Allowed /\ Indexed' = Indexed
  BY <1>1, StartBudget
<1>3. u.pc = "page" /\ u.buf = << >> /\ u.old = 0 /\ u.page \in Linked
  BY DEF ScanStart, QuietInv, FastFairInv, ScanTypes
<1>4. Taken(u) = << >> /\ NextSlot(u) = Card /\ How(u) = "at"
  BY <1>3 DEF Taken, NextSlot, How
<1>5. SubSeq(u.buf, 1, u.old) = << >>
  BY <1>3, SubSeqEmpty
<1>6. PICK b, C, D, M : /\ b = << >> /\ C = Copies(u.page, 0, "past")
                        /\ D = Copies(u.page, Card, "at") /\ M = Allowed
  OBVIOUS
<1>7. Few(b, C, ptr, M) /\ M \in Int
  BY <1>3, <1>6, StartFew
<1>8. Few(b, D, ptr, M)
  <2>1. D \subseteq C /\ IsFiniteSet(C)
    BY <1>6, CopiesSteps, CopiesFinite
  <2>2. Len(b) \in Nat /\ M <= M
    BY <1>6, <1>7
  <2>3. QED
    BY <1>7, <2>1, <2>2, FewerCopies
<1>9. Copies(u.page, 0, "past")' = C /\ Copies(u.page, Card, "at")' = D
  BY <1>1, <1>6, SameCopies
<1>10. FewNow(u)' /\ FewAgain(u)'
  BY <1>1, <1>2, <1>4, <1>5, <1>6, <1>7, <1>8, <1>9 DEF FewNow, FewAgain, Taken, NextSlot, How, Few
<1>11. QED
  BY <1>2, <1>4, <1>10

(* What is told of a scan stays true while nothing else moves.             *)
LEMMA RepeatSame ==
  ASSUME LeafInv, UNCHANGED <<pageVars, w, seen>>
  PROVE  /\ Indexed' = Indexed /\ (SplitHalf => SplitHalf')
         /\ \A v : (FewNow(v) => FewNow(v)') /\ (FewAgain(v) => FewAgain(v)')
<1>1. UNCHANGED <<key, ptr, sibling, last, w, seen>>
  BY DEF pageVars
<1>2. Indexed' = Indexed /\ InsertsSince' = InsertsSince
  BY OneSame
<1>3. Budget' = Budget
  BY <1>1, <1>2 DEF Budget, Reserve, UpperHalf
<1>4. SplitHalf => SplitHalf'
  BY <1>1 DEF SplitHalf, UpperHalf
<1>5. ASSUME NEW v PROVE (FewNow(v) => FewNow(v)') /\ (FewAgain(v) => FewAgain(v)')
  <2>1. \A p, i, how : Copies(p, i, how)' = Copies(p, i, how)
    BY <1>1, SameCopies
  <2>2. FewNow(v) => FewNow(v)'
    BY <1>1, <1>3, <2>1 DEF FewNow, Few, Taken, NextSlot, How
  <2>3. FewAgain(v) => FewAgain(v)'
    BY <1>1, <1>3, <2>1 DEF FewAgain, Few
  <2>4. QED
    BY <2>2, <2>3
<1>6. QED
  BY <1>2, <1>4, <1>5

LEMMA KnownSame ==
  ASSUME Known, UNCHANGED <<pageVars, w>>, Indexed' = Indexed,
         NEW u, u = r', Rng(Taken(u)) \subseteq Indexed
  PROVE  Known'
<1>1. UNCHANGED <<ptr, sibling, w>>
  BY DEF pageVars
<1>2. Chain' = Chain
  BY <1>1, LinkSame DEF Chain
<1>3. \A b : b = Taken(r)' => Rng(b) \subseteq Indexed'
  <2>1. Taken(r)' = Taken(u)
    BY DEF Taken
  <2>2. QED
    BY <2>1
<1>4. \A p \in Chain', i \in Slot : ptr'[p][i] \in Indexed' \cup {Null}
  BY <1>1, <1>2 DEF Known
<1>5. QED
  BY <1>3, <1>4 DEF Known

LEMMA ScanRepeats ==
  ASSUME FastFairInv, LeafInv, ScanInv, JoinInv, RestInv, QuietInv, RepeatInv, Scan
  PROVE  RepeatInv'
<1>0. UNCHANGED <<pageVars, w>> /\ SplitHalf /\ Known
  BY DEF Scan, Scans, ScanStart, EnterPage, ReadKey, ReadPtr, ReadLeft,
         ReReadKey, TestEntry, CheckCounter, HopSibling, RepeatInv
<1>p. PICK v, u : v = r /\ u = r'
  OBVIOUS
<1>1. CASE ScanStart
  <2>1. Taken(u) = << >> /\ FewNow(u)' /\ FewAgain(u)' /\ Indexed' = Indexed
    BY <1>0, <1>1, <1>p, StartRepeat
  <2>2. Rng(Taken(u)) \subseteq Indexed
    BY <2>1 DEF Rng
  <2>3. Known'
    BY <1>0, <1>p, <2>1, <2>2, KnownSame
  <2>4. SplitHalf'
    BY <1>0 DEF SplitHalf, UpperHalf, pageVars
  <2>5. QED
    BY <1>p, <2>1, <2>3, <2>4 DEF RepeatInv
<1>2. CASE ~ScanStart
  <2>1. seen' = seen
    BY <1>2 DEF Scan, Scans, EnterPage, ReadKey, ReadPtr, ReadLeft,
                ReReadKey, TestEntry, CheckCounter, HopSibling
  <2>2. r.pc # "idle"
    <3>1. ScanAt(r)
      BY DEF ScanInv
    <3>2. QED
      BY <1>2, <3>1, ScanMoves
  <2>3. RepeatAt(v)
    BY <1>0, <1>p, <2>2 DEF RepeatInv, Known, RepeatAt
  <2>4. RepeatAt(u)
    <3>1. CASE EnterPage
      BY <1>p, <2>3, <3>1, EnterRepeat
    <3>2. CASE ReadKey
      BY <1>p, <2>3, <3>2, ReadKeyRepeat
    <3>3. CASE ReadPtr
      BY <1>0, <1>p, <2>3, <3>3, ReadPtrRepeat
    <3>4. CASE ReadLeft
      BY <1>p, <2>3, <3>4, ReadLeftRepeat
    <3>5. CASE ReReadKey
      BY <1>p, <2>3, <3>5, ReReadRepeat
    <3>6. CASE TestEntry
      BY <1>p, <2>3, <3>6, TestRepeat
    <3>7. CASE CheckCounter
      BY <1>p, <2>3, <3>7, CheckRepeat
    <3>8. CASE HopSibling
      BY <1>p, <2>3, <3>8, HopRepeat
    <3>9. QED
      BY <1>2, <3>1, <3>2, <3>3, <3>4, <3>5, <3>6, <3>7, <3>8 DEF Scan
  <2>5. /\ Indexed' = Indexed /\ SplitHalf'
        /\ (FewNow(u) => FewNow(u)') /\ (FewAgain(u) => FewAgain(u)')
    BY <1>0, <2>1, RepeatSame
  <2>6. Known'
    BY <1>0, <1>p, <2>4, <2>5, KnownSame DEF RepeatAt
  <2>7. FewNow(u)' /\ FewAgain(u)'
    BY <2>4, <2>5 DEF RepeatAt
  <2>8. QED
    BY <1>p, <2>5, <2>6, <2>7 DEF RepeatInv
<1>3. QED
  BY <1>1, <1>2

LEMMA RepeatInit == Init => RepeatInv
<1> SUFFICES ASSUME Init PROVE RepeatInv
  OBVIOUS
<1> USE Constants
<1>1. w.pc = "idle" /\ r.pc = "idle" /\ r.buf = << >> /\ LeafInv
  BY ScanInit DEF Init, IdleWriter, IdleScan
<1>2. SplitHalf
  BY <1>1 DEF SplitHalf, Splitting
<1>3. \A b : b = Taken(r) => Rng(b) \subseteq Indexed
  <2>1. Taken(r) = << >> /\ Rng(<< >>) = {}
    BY <1>1 DEF Taken, Rng
  <2>2. QED
    BY <2>1
<1>4. ASSUME NEW p \in Chain, NEW i \in Slot PROVE ptr[p][i] \in Indexed \cup {Null}
  <2>1. PICK f \in Arrangements :
          ptr = [q \in Page |-> [j \in Slot |->
                  IF q = First /\ j \in DOMAIN f THEN f[j] ELSE Null]]
    BY DEF Init
  <2>2. /\ DOMAIN f = 0 .. Cardinality(Preload) - 1
        /\ last[First] = Cardinality(Preload) - 1
    BY <2>1 DEF Init, Arrangements
  <2>3. p \in Linked /\ p \in Page
    BY <1>1 DEF Chain, Linked, LeafInv, PageInv, PageTypes
  <2>4. CASE ptr[p][i] # Null
    <3>1. p = First /\ i \in 0 .. last[First]
      BY <2>1, <2>2, <2>3, <2>4
    <3>2. i \in Alive(p)
      BY <1>1, <3>1 DEF Alive, Live, Splitting, Entry
    <3>3. ptr[p][i] \in Holds(p)
      BY <3>2 DEF Holds
    <3>4. QED
      BY <1>1, <2>3, <3>3, HeldIndexed DEF IndexedIs
  <2>5. QED
    BY <2>4
<1>5. QED
  BY <1>1, <1>2, <1>3, <1>4 DEF RepeatInv, Known

LEMMA RepeatStep ==
  FastFairInv /\ LeafInv /\ ScanInv /\ JoinInv /\ RestInv /\ QuietInv /\ RepeatInv /\ [Next]_vars
    => RepeatInv'
<1> SUFFICES ASSUME FastFairInv, LeafInv, ScanInv, JoinInv, RestInv, QuietInv, RepeatInv,
                    [Next]_vars
             PROVE  RepeatInv'
  OBVIOUS
<1>1. CASE UNCHANGED vars
  <2>1. UNCHANGED <<pageVars, w, seen>> /\ UNCHANGED <<pageVars, w>> /\ r' = r
    BY <1>1 DEF vars
  <2>p. PICK u : u = r
    OBVIOUS
  <2>2. SplitHalf /\ Known /\ Rng(Taken(u)) \subseteq Indexed
        /\ (u.pc # "idle" => FewNow(u) /\ FewAgain(u))
    BY <2>p DEF RepeatInv, Known
  <2>3. /\ Indexed' = Indexed /\ SplitHalf'
        /\ (FewNow(u) => FewNow(u)') /\ (FewAgain(u) => FewAgain(u)')
    BY <2>1, <2>2, RepeatSame
  <2>4. Known'
    BY <2>1, <2>2, <2>3, <2>p, KnownSame
  <2>5. QED
    BY <2>1, <2>2, <2>3, <2>4, <2>p DEF RepeatInv
<1>2. QED
  BY <1>1, WriteRepeats, ScanRepeats DEF Next

(* A scan returns a record more than once at most as often as the inserts  *)
(* that have run since it began can bring it there: each one moves up to   *)
(* an upper half to a page the scan still comes to, and shifts one record  *)
(* more past it, however often the scan begins a page again, for every     *)
(* page size, key length and number of pages (server.cc read_cb allocates  *)
(* the result before linear_search_range fills it).                        *)
THEOREM RepeatsStayBounded == Spec => []RepeatsAreBounded
<1>1. Init => FirstInv
  BY Constants DEF Init, IdleWriter, FirstInv, Splitting
<1>2. Spec => [](LeafInv /\ ScanInv /\ FirstInv)
  <2>1. LeafInv => SortedInv
    BY DEF LeafInv
  <2>2. QED
    BY <1>1, <2>1, ScanInit, ScanStep, SortedStep, Invariant, PTL DEF Spec
<1>3. Spec => [](JoinInv /\ QuietInv)
  BY <1>2, QuietInit, QuietStep, Invariant, PTL DEF Spec
<1>4. Spec => [](OneInv /\ RestInv)
  <2>1. OneInv => RestInv
    BY DEF OneInv
  <2>2. QED
    BY <1>2, <1>3, <2>1, OneInit, OneStep, Invariant, PTL DEF Spec
<1>5. Spec => []RepeatInv
  BY <1>2, <1>3, <1>4, RepeatInit, RepeatStep, Invariant, PTL DEF Spec
<1>6. FastFairInv /\ LeafInv /\ ScanInv /\ QuietInv /\ RepeatInv => RepeatsAreBounded
  <2> SUFFICES ASSUME FastFairInv, LeafInv, ScanInv, QuietInv, RepeatInv
               PROVE  RepeatsAreBounded
    OBVIOUS
  <2>p. PICK b, k, a, s, v : /\ b = r.buf /\ k = UpperHalf + 1 /\ v = r
                             /\ a = Cardinality(InsertsSince) /\ s = Reserve
    OBVIOUS
  <2>1. b \in Seq(Rec) /\ Len(b) \in Nat /\ IsFiniteSet(Rng(b)) /\ Cardinality(Rng(b)) \in Nat
    BY <2>p, RegsAre, RngFinite, FS_CardinalityType
  <2>2. k \in Nat /\ a \in Nat /\ k * a \in Nat /\ s \in Nat
    <3>1. k \in Nat /\ a \in Nat /\ s \in Nat
      BY <2>p, UpperIs, SinceFinite, FS_CardinalityType DEF Reserve
    <3>2. QED
      BY <3>1, Times
  <2>3. RepeatsAreBounded <=> Len(b) <= Cardinality(Rng(b)) + k * a
    BY <2>p DEF RepeatsAreBounded, Rng
  <2>4. CASE r.pc = "idle"
    <3>1. b = << >>
      BY <2>4, <2>p DEF QuietInv
    <3>2. Len(b) = 0
      BY <3>1
    <3>3. QED
      BY <2>1, <2>2, <2>3, <3>2
  <2>5. CASE r.pc # "idle"
    <3>p. PICK C, M, t : /\ C = Copies(v.page, NextSlot(v), How(v)) /\ M = Budget
                         /\ t = Taken(v)
      OBVIOUS
    <3>1. Few(t, C, ptr, M) /\ IsFiniteSet(C) /\ M \in Int /\ M <= M /\ {} \subseteq C
      BY <2>p, <2>5, <3>p, CopiesFinite, BudgetType DEF RepeatInv, FewNow
    <3>2. Len(t) \in Nat /\ v.p \in Rec \cup {Null}
      BY <2>p, <3>p, ScanIs
    <3>3. Few(t, {}, ptr, M)
      BY <3>1, <3>2, FewerCopies
    <3>4. Few(b, {}, ptr, M)
      <4>1. CASE v.pc \in {"left", "again"} /\ v.p # Null
        <5>1. t = Append(b, v.p) /\ v.p \in Rec
          BY <2>p, <3>2, <3>p, <4>1 DEF Taken
        <5>2. IsFiniteSet({})
          BY FS_EmptySet
        <5>3. QED
          BY <2>1, <3>1, <3>3, <5>1, <5>2, ReadLost
      <4>2. CASE ~(v.pc \in {"left", "again"} /\ v.p # Null)
        <5>1. t = b
          BY <2>p, <3>p, <4>2 DEF Taken
        <5>2. QED
          BY <3>3, <5>1
      <4>3. QED
        BY <4>1, <4>2
    <3>5. Cardinality({}) = 0 /\ Rng(b) \cup Img(ptr, {}) = Rng(b)
      BY FS_EmptySet DEF Img
    <3>6. Len(b) <= Cardinality(Rng(b)) + M
      <4>1. Len(b) + Cardinality({}) <= Cardinality(Rng(b) \cup Img(ptr, {})) + M
        BY ONLY <3>4 DEF Few
      <4>2. Len(b) + 0 <= Cardinality(Rng(b)) + M
        BY ONLY <3>5, <4>1
      <4>3. QED
        BY ONLY <2>1, <3>1, <4>2
    <3>7. M = k * a - s
      BY <2>p, <3>p DEF Budget
    <3>8. QED
      BY <2>1, <2>2, <2>3, <3>6, <3>7
  <2>6. QED
    BY <2>4, <2>5
<1>7. QED
  BY <1>2, <1>3, <1>5, <1>6, Invariant, PTL

-----------------------------------------------------------------------------
(* When an insert takes effect.                                            *)

HeldSomewhere ==
  \A x \in Indexed : x \in Rec /\ \E q \in Linked, i \in Slot : ptr[q][i] = x

LEMMA IndexedSomewhere == LeafInv => HeldSomewhere
<1> SUFFICES ASSUME LeafInv, NEW x \in Indexed
             PROVE  x \in Rec /\ \E q \in Linked, i \in Slot : ptr[q][i] = x
  BY DEF HeldSomewhere
<1>1. PICK q \in Linked : x \in Holds(q)
  BY IndexedHeld
<1>2. PICK i \in Alive(q) : x = ptr[q][i]
  BY <1>1 DEF Holds
<1>3. PageInv /\ SortedInv /\ HalfInv
  BY DEF LeafInv
<1>4. i \in Slot /\ x \in Rec
  BY <1>1, <1>2, <1>3, AliveIs DEF InOrder
<1>5. QED
  BY <1>2, <1>4

LEMMA IndexedSomewhereNext == LeafInv' => HeldSomewhere'
  BY IndexedSomewhere, PTL

(* The set of indexed records changes by one record, at the write of its   *)
(* pointer.                                                                *)
IndexedSteps ==
  /\ Indexed \subseteq Indexed'
  /\ Indexed' # Indexed => w.pc = "ptr" /\ Indexed' = Indexed \cup {w.rec}

LEMMA WriteIndexes ==
  ASSUME LeafInv, Known, Write
  PROVE  IndexedSteps
<1> USE Constants
<1>1. LeafInv' /\ PtrMoves /\ Indexed \subseteq Indexed'
  BY LeafStep, WriteMoves, IndexedGrows
<1>2. Linked \subseteq Chain
  BY DEF Chain
<1>3. ASSUME NEW x \in Indexed', x \notin Indexed PROVE w.pc = "ptr" /\ x = w.rec
  <2>1. PICK q \in Linked', i \in Slot : ptr'[q][i] = x /\ x \in Rec
    BY <1>1, IndexedSomewhereNext DEF HeldSomewhere
  <2>2. CASE q \in Linked
    <3>1. ASSUME NEW j \in Slot PROVE ptr[q][j] # x
      BY <1>2, <1>3, <2>1, <2>2 DEF Known
    <3>2. i >= 1 => i - 1 \in Slot
      BY <2>1
    <3>3. QED
      BY <1>1, <2>1, <2>2, <3>1, <3>2 DEF PtrMoves
  <2>3. CASE q \notin Linked
    <3>1. Publish
      <4>1. CASE \E y \in Rec, p \in Page : StoreSplit(y, p)
        <5>1. PICK y \in Rec, p \in Page : StoreSplit(y, p)
          BY <4>1
        <5>2. PICK c, m, s : c = Count(p) /\ m = c \div 2 /\ s = NewPage
          OBVIOUS
        <5>3. SplitOf(y, p, c, m, s)
          BY <5>1, <5>2, SplitCopies DEF LeafInv
        <5>4. QED
          BY <2>1, <2>3, <5>3 DEF SplitOf
      <4>2. CASE ~Publish /\ ~\E y \in Rec, p \in Page : StoreSplit(y, p)
        <5>1. sibling' = sibling
          BY <4>2 DEF Write, StoreFast, Bump, Cut, MoveEnd, Shift, MoveKey, SetKey,
                      SetPtr, pageVars
        <5>2. QED
          BY <2>1, <2>3, <5>1, LinkSame
      <4>3. QED
        BY <4>1, <4>2
    <3>2. q = w.new /\ w.pc = "publish" /\ ptr' = ptr
      BY <2>1, <2>3, <3>1, PublishSorted DEF LeafInv, Publish
    <3>3. q \in Chain
      BY <3>2 DEF Chain
    <3>4. QED
      BY <1>3, <2>1, <3>2, <3>3 DEF Known
  <2>4. QED
    BY <2>2, <2>3
<1>4. QED
  BY <1>1, <1>3 DEF IndexedSteps

(* So it is with every step of insert_key, store and the scan.             *)
InsertTakesEffectOnce == [][IndexedSteps]_vars

(* An insert takes effect at one step, the write of its pointer: shifts,   *)
(* copies and splits, in any order with the scans' reads, neither hide a   *)
(* record nor show one before (btree.h insert_key, store).                 *)
THEOREM InsertsTakeEffect == Spec => InsertTakesEffectOnce
<1>1. Init => FirstInv
  BY Constants DEF Init, IdleWriter, FirstInv, Splitting
<1>2. Spec => [](LeafInv /\ ScanInv /\ FirstInv)
  <2>1. LeafInv => SortedInv
    BY DEF LeafInv
  <2>2. QED
    BY <1>1, <2>1, ScanInit, ScanStep, SortedStep, Invariant, PTL DEF Spec
<1>3. Spec => [](JoinInv /\ QuietInv)
  BY <1>2, QuietInit, QuietStep, Invariant, PTL DEF Spec
<1>4. Spec => [](OneInv /\ RestInv)
  <2>1. OneInv => RestInv
    BY DEF OneInv
  <2>2. QED
    BY <1>2, <1>3, <2>1, OneInit, OneStep, Invariant, PTL DEF Spec
<1>5. Spec => []RepeatInv
  BY <1>2, <1>3, <1>4, RepeatInit, RepeatStep, Invariant, PTL DEF Spec
<1>6. RepeatInv => Known
  BY DEF RepeatInv
<1>7. LeafInv /\ Known /\ [Next]_vars => [IndexedSteps]_vars
  <2>1. ASSUME LeafInv, Known, Write PROVE IndexedSteps
    BY <2>1, WriteIndexes
  <2>2. ASSUME LeafInv, Scan PROVE IndexedSteps
    <3>1. UNCHANGED <<pageVars, w>>
      BY <2>2 DEF Scan, Scans, ScanStart, EnterPage, ReadKey, ReadPtr, ReadLeft,
             ReReadKey, TestEntry, CheckCounter, HopSibling
    <3>2. UNCHANGED <<ptr, sibling, last, w>> /\ LeafInv'
      BY <2>2, <3>1, LeafFrame DEF pageVars
    <3>3. Linked' = Linked /\ \A p : Holds(p)' = Holds(p)
      BY <3>2, LinkSame DEF Holds, Alive, Live
    <3>4. Indexed' = Indexed
      BY <2>2, <3>2, <3>3, HeldIndexed, HeldIndexedNext DEF IndexedIs
    <3>5. QED
      BY <3>4 DEF IndexedSteps
  <2>3. QED
    BY <2>1, <2>2 DEF Next
<1>8. QED
  BY <1>2, <1>5, <1>6, <1>7, PTL DEF Spec, InsertTakesEffectOnce
=============================================================================
