------------------------------ MODULE FastFair ------------------------------
(***************************************************************************)
(* The leaf level of the FAST-FAIR B+-tree (Hikv/obj/btree.h), memory      *)
(* access by memory access: a backend thread that inserts under the lock   *)
(* of a page and splits it, and a range scan of a server thread that takes *)
(* no lock at all.  Memory is sequentially consistent here.                *)
(*                                                                         *)
(* Writers exclude each other page by page, so one writer is enough to     *)
(* show what a scan can meet inside a page.  The inner pages only choose   *)
(* the leaf at which a scan starts.                                        *)
(***************************************************************************)
EXTENDS Integers, Sequences, FiniteSets

CONSTANTS
  Rec,      \* the records; a record's pointer is the record itself
  KeyOf,    \* KeyOf[x]: the key of record x, a tuple of NumWord words
  NumWord,  \* words in which a key is copied (64 bytes: more than one)
  Card,     \* cardinality, the entries of a page (6)
  NumPage,  \* bound: the leaf pages
  Bounds,   \* bound: the pairs <<min, max>> a scan is asked for
  Preload   \* bound: the records indexed before anything is watched

Null == 0       \* the null pointer
Page == 1 .. NumPage
Slot == 0 .. Card - 1
Word == 1 .. NumWord
First == 1      \* the leftmost leaf

ASSUME FastFairAssumption ==
  /\ NumWord \in Nat \ {0}
  /\ Card \in Nat /\ Card >= 4
  /\ NumPage \in Nat \ {0}
  /\ Null \notin Rec
  /\ Preload \subseteq Rec /\ IsFiniteSet(Preload) /\ Cardinality(Preload) < Card
  /\ KeyOf \in [Rec -> [Word -> Nat \ {0}]]
  /\ Bounds \subseteq [Word -> Nat] \X [Word -> Nat]

VARIABLES
  key,      \* key[p][i]: records[i].key of page p
  ptr,      \* ptr[p][i]: records[i].ptr
  sibling,  \* sibling[p]: hdr.sibling_ptr
  counter,  \* counter[p]: hdr.switch_counter
  last,     \* last[p]: hdr.last_index
  w,        \* the writer: where it is, and its registers
  r,        \* the scan: where it is, and its registers
  seen      \* history: what the scan has lived through

pageVars == <<key, ptr, sibling, counter, last>>
vars == <<pageVars, w, r, seen>>

(* memcmp on keys.                                                         *)
Less(k, m) ==
  \E j \in Word : k[j] < m[j] /\ \A h \in 1 .. j - 1 : k[h] = m[h]

(* page::count: on from last_index + 1 to the first null pointer.          *)
Count(p) ==
  CHOOSE n \in Slot : /\ n > last[p] /\ ptr[p][n] = Null
                      /\ \A i \in last[p] + 1 .. n - 1 : ptr[p][i] # Null

(* Pages are taken in order: getNewPage.                                   *)
Linked == {First} \cup {p \in Page : \E q \in Page : sibling[q] = p}
NewPage == CHOOSE p \in Page : p \notin Linked /\ \A q \in Page \ Linked : p <= q

(* A descent for the key of x and store, which moves right while the key   *)
(* is above the first key of the sibling, may end here.  A page that       *)
(* begins with the very key is reached only when its parent knows of it.   *)
IsTarget(x, p) ==
  /\ p \in Linked
  /\ p # First => ~Less(KeyOf[x], key[p][0])
  /\ sibling[p] # Null => ~Less(key[sibling[p]][0], KeyOf[x])

-----------------------------------------------------------------------------
ZeroKey == [j \in Word |-> 0]

IdleWriter == [pc |-> "idle", rec |-> Null, page |-> First, new |-> Null,
               n |-> 0, hole |-> 0, word |-> 1]

IdleScan == [pc |-> "idle", page |-> First, i |-> 0, word |-> 1, tmp |-> ZeroKey,
             p |-> Null, ctr |-> 0, old |-> 0, min |-> ZeroKey, max |-> ZeroKey,
             buf |-> << >>]

(* The preloaded records, as sequential inserts into one page leave them.  *)
Arrangements ==
  {f \in [0 .. Cardinality(Preload) - 1 -> Preload] :
     \A i, j \in DOMAIN f : i < j => f[i] # f[j] /\ ~Less(KeyOf[f[j]], KeyOf[f[i]])}

Init ==
  /\ \E f \in Arrangements :
       /\ key = [p \in Page |-> [i \in Slot |->
                  IF p = First /\ i \in DOMAIN f THEN KeyOf[f[i]] ELSE ZeroKey]]
       /\ ptr = [p \in Page |-> [i \in Slot |->
                  IF p = First /\ i \in DOMAIN f THEN f[i] ELSE Null]]
  /\ sibling = [p \in Page |-> Null]
  /\ counter = [p \in Page |-> 0]
  /\ last = [p \in Page |-> IF p = First THEN Cardinality(Preload) - 1 ELSE -1]
  /\ w = IdleWriter
  /\ r = IdleScan
  /\ seen = [before |-> {}, quiet |-> TRUE]

(* The records whose insert has returned.                                  *)
Held(p) == {ptr[p][i] : i \in 0 .. Count(p) - 1}
Indexed == (UNION {Held(p) : p \in Linked}) \ {Null}

(* seen.before: the records indexed when the scan began; seen.quiet:       *)
(* nothing has been written since.                                         *)
Writes == seen' = [seen EXCEPT !.quiet = FALSE] /\ UNCHANGED r

-----------------------------------------------------------------------------
(* The writer.  insert_key on page p with n entries: the terminator moves  *)
(* first, then a hole moves left from slot n to the place of the new key.  *)

Entering(x, p, n) ==
  [IdleWriter EXCEPT !.pc = IF n = 0 THEN "key" ELSE "end",
                     !.rec = x, !.page = p, !.n = n, !.hole = n]

(* store: the page has room.                                               *)
StoreFastFull(x, p) ==  \* mistake: the last entry is used, too
  /\ w.pc = "idle" /\ x \notin Indexed /\ IsTarget(x, p)
  /\ Count(p) < Card
  /\ w' = Entering(x, p, Count(p))
  /\ UNCHANGED <<pageVars, r, seen>>

StoreFast(x, p) ==
  /\ w.pc = "idle" /\ x \notin Indexed /\ IsTarget(x, p)
  /\ Count(p) < Card - 1
  /\ w' = Entering(x, p, Count(p))
  /\ UNCHANGED <<pageVars, r, seen>>

(* store: the page is full; its upper half is copied to a new page that    *)
(* nobody sees yet.                                                        *)
StoreSplit(x, p) ==
  LET s == NewPage
      m == Count(p) \div 2
      Up(f, none) == [i \in Slot |-> IF i + m < Count(p) THEN f[i + m] ELSE none]
  IN
  /\ w.pc = "idle" /\ x \notin Indexed /\ IsTarget(x, p)
  /\ Count(p) >= Card - 1
  /\ Linked # Page
  /\ key' = [key EXCEPT ![s] = Up(key[p], ZeroKey)]
  /\ ptr' = [ptr EXCEPT ![s] = Up(ptr[p], Null)]
  /\ last' = [last EXCEPT ![s] = Count(p) - m - 1]
  /\ sibling' = [sibling EXCEPT ![s] = sibling[p]]
  /\ w' = [IdleWriter EXCEPT !.pc = "publish", !.rec = x, !.page = p,
                             !.new = s, !.n = m]
  /\ UNCHANGED <<counter, r, seen>>

Publish ==
  /\ w.pc = "publish"
  /\ sibling' = [sibling EXCEPT ![w.page] = w.new]
  /\ w' = [w EXCEPT !.pc = "bump"]
  /\ UNCHANGED <<key, ptr, counter, last>> /\ Writes

(* The counter stays even: no key is ever deleted.                         *)
BumpOnce ==  \* mistake: the step to the other direction
  /\ w.pc = "bump"
  /\ counter' = [counter EXCEPT ![w.page] = (@ + 1) % 256]
  /\ w' = [w EXCEPT !.pc = "cut"]
  /\ UNCHANGED <<key, ptr, sibling, last>> /\ Writes

Bump ==
  /\ w.pc = "bump"
  /\ counter' = [counter EXCEPT ![w.page] = (@ + 2) % 256]
  /\ w' = [w EXCEPT !.pc = "cut"]
  /\ UNCHANGED <<key, ptr, sibling, last>> /\ Writes

(* The lower half ends here, and the key goes into one of the halves.      *)
CutKeepsLast ==  \* mistake: last_index still counts the upper half
  /\ w.pc = "cut"
  /\ ptr' = [ptr EXCEPT ![w.page][w.n] = Null]
  /\ w' = IF Less(KeyOf[w.rec], key[w.page][w.n])
          THEN Entering(w.rec, w.page, w.n)
          ELSE Entering(w.rec, w.new, last[w.new] + 1)
  /\ UNCHANGED <<key, sibling, counter, last>> /\ Writes

CutIntoNew ==  \* mistake: the key always goes to the new page
  /\ w.pc = "cut"
  /\ ptr' = [ptr EXCEPT ![w.page][w.n] = Null]
  /\ last' = [last EXCEPT ![w.page] = w.n - 1]
  /\ w' = Entering(w.rec, w.new, last[w.new] + 1)
  /\ UNCHANGED <<key, sibling, counter>> /\ Writes

Cut ==
  LET split == key[w.page][w.n] IN
  /\ w.pc = "cut"
  /\ ptr' = [ptr EXCEPT ![w.page][w.n] = Null]
  /\ last' = [last EXCEPT ![w.page] = w.n - 1]
  /\ w' = IF Less(KeyOf[w.rec], split)
          THEN Entering(w.rec, w.page, w.n)
          ELSE Entering(w.rec, w.new, last[w.new] + 1)
  /\ UNCHANGED <<key, sibling, counter>> /\ Writes

MoveEnd ==
  /\ w.pc = "end"
  /\ ptr' = [ptr EXCEPT ![w.page][w.n + 1] = ptr[w.page][w.n]]
  /\ w' = [w EXCEPT !.pc = "shift"]
  /\ UNCHANGED <<key, sibling, counter, last>> /\ Writes

(* The hole takes the pointer on its left (leftmost_ptr at slot 0, null in *)
(* a leaf): the scans skip an entry whose pointer is its left neighbour's. *)
Shift ==
  LET h == w.hole
      left == IF h = 0 THEN Null ELSE ptr[w.page][h - 1]
  IN
  /\ w.pc = "shift"
  /\ ptr' = [ptr EXCEPT ![w.page][h] = left]
  /\ w' = [w EXCEPT !.pc = IF h > 0 /\ Less(KeyOf[w.rec], key[w.page][h - 1])
                           THEN "move" ELSE "key"]
  /\ UNCHANGED <<key, sibling, counter, last>> /\ Writes

(* ... then its key, word by word, and the hole moves on.                  *)
MoveKey ==
  LET h == w.hole
      k == key[w.page][h - 1][w.word]
  IN
  /\ w.pc = "move"
  /\ key' = [key EXCEPT ![w.page][h][w.word] = k]
  /\ w' = IF w.word < NumWord THEN [w EXCEPT !.word = @ + 1]
          ELSE [w EXCEPT !.pc = "shift", !.hole = h - 1, !.word = 1]
  /\ UNCHANGED <<ptr, sibling, counter, last>> /\ Writes

SetKey ==
  /\ w.pc = "key"
  /\ key' = [key EXCEPT ![w.page][w.hole][w.word] = KeyOf[w.rec][w.word]]
  /\ w' = IF w.word < NumWord THEN [w EXCEPT !.word = @ + 1]
          ELSE [w EXCEPT !.pc = "ptr"]
  /\ UNCHANGED <<ptr, sibling, counter, last>> /\ Writes

SetPtr ==
  /\ w.pc = "ptr"
  /\ ptr' = [ptr EXCEPT ![w.page][w.hole] = w.rec]
  /\ last' = [last EXCEPT ![w.page] = w.n]
  /\ w' = IdleWriter
  /\ UNCHANGED <<key, sibling, counter>> /\ Writes

Write ==
  \/ \E x \in Rec, p \in Page : StoreFast(x, p) \/ StoreSplit(x, p)
  \/ Publish \/ Bump \/ Cut \/ MoveEnd \/ Shift \/ MoveKey \/ SetKey \/ SetPtr

-----------------------------------------------------------------------------
(* The scan, linear_search_range: every step reads one word of a page.     *)

Scans == UNCHANGED <<pageVars, w, seen>>

NextEntry == [r EXCEPT !.pc = "test", !.i = @ + 1, !.word = 1]

(* The inner pages lead to a leaf that begins at or below min.             *)
ScanStart ==
  /\ r.pc = "idle"
  /\ \E b \in Bounds, p \in Linked :
       /\ p # First => ~Less(b[1], key[p][0])
       /\ r' = [r EXCEPT !.pc = "page", !.page = p, !.min = b[1], !.max = b[2]]
  /\ seen' = [before |-> Indexed, quiet |-> w.pc = "idle"]
  /\ UNCHANGED <<pageVars, w>>

(* A page is begun, or begun again: what it gave is forgotten.             *)
EnterPageKeeps ==  \* mistake: off is not set back to old_off
  /\ r.pc = "page"
  /\ r' = [r EXCEPT !.pc = "key", !.i = 0, !.word = 1, !.ctr = counter[r.page]]
  /\ Scans

EnterPage ==
  /\ r.pc = "page"
  /\ r' = [r EXCEPT !.pc = "key", !.i = 0, !.word = 1, !.ctr = counter[r.page],
                    !.buf = SubSeq(@, 1, r.old)]
  /\ Scans

(* The key is copied; a key from max on ends the scan.                     *)
ReadKey ==
  LET tmp == [r.tmp EXCEPT ![r.word] = key[r.page][r.i][r.word]] IN
  /\ r.pc = "key"
  /\ r' = CASE r.word < NumWord   -> [r EXCEPT !.word = @ + 1, !.tmp = tmp]
            [] ~Less(r.min, tmp) /\ r.word = NumWord -> NextEntry
            [] Less(r.min, tmp) /\ ~Less(tmp, r.max) /\ r.word = NumWord
                 -> [r EXCEPT !.pc = "stopped"]
            [] OTHER              -> [r EXCEPT !.pc = "ptr", !.word = 1, !.tmp = tmp]
  /\ Scans

ReadPtr ==
  LET p == ptr[r.page][r.i] IN
  /\ r.pc = "ptr"
  /\ r' = IF r.i = 0 /\ p = Null THEN NextEntry
          ELSE [r EXCEPT !.p = p, !.pc = IF r.i = 0 THEN "again" ELSE "left"]
  /\ Scans

(* An entry with the pointer of its left neighbour is being shifted.       *)
ReadLeft ==
  /\ r.pc = "left"
  /\ r' = IF r.p = ptr[r.page][r.i - 1] THEN NextEntry
          ELSE [r EXCEPT !.pc = "again"]
  /\ Scans

(* The key is compared with the copy; the record is put out if it is still *)
(* the same one.                                                           *)
ReReadNever ==  \* mistake: the record is put out unseen
  /\ r.pc = "again"
  /\ r' = [NextEntry EXCEPT !.buf = IF r.p = Null THEN @ ELSE Append(@, r.p)]
  /\ Scans

ReReadKey ==
  /\ r.pc = "again"
  /\ r' = CASE r.tmp[r.word] # key[r.page][r.i][r.word] -> NextEntry
            [] r.tmp[r.word] = key[r.page][r.i][r.word] /\ r.word < NumWord
                 -> [r EXCEPT !.word = @ + 1]
            [] OTHER
                 -> [NextEntry EXCEPT !.buf = IF r.p = Null THEN @
                                              ELSE Append(@, r.p)]
  /\ Scans

(* The first null pointer behind slot 0 ends the page.                     *)
TestEntry ==
  /\ r.pc = "test"
  /\ r' = [r EXCEPT !.pc = IF ptr[r.page][r.i] # Null THEN "key" ELSE "check"]
  /\ Scans

CheckCounter ==
  /\ r.pc = "check"
  /\ r' = [r EXCEPT !.pc = IF r.ctr # counter[r.page] THEN "page" ELSE "hop"]
  /\ Scans

HopForgets ==  \* mistake: old_off is not taken along
  /\ r.pc = "hop"
  /\ r' = IF sibling[r.page] = Null THEN [r EXCEPT !.pc = "ended"]
          ELSE [r EXCEPT !.pc = "page", !.page = sibling[r.page]]
  /\ Scans

HopSibling ==
  /\ r.pc = "hop"
  /\ r' = IF sibling[r.page] = Null THEN [r EXCEPT !.pc = "ended"]
          ELSE [r EXCEPT !.pc = "page", !.page = sibling[r.page],
                         !.old = Len(r.buf)]
  /\ Scans

Scan ==
  \/ ScanStart \/ EnterPage \/ ReadKey \/ ReadPtr \/ ReadLeft \/ ReReadKey
  \/ TestEntry \/ CheckCounter \/ HopSibling

Next == Write \/ Scan

Spec == Init /\ [][Next]_vars

-----------------------------------------------------------------------------
InRange(x) == Less(r.min, KeyOf[x]) /\ Less(KeyOf[x], r.max)

TypeOK ==
  /\ key \in [Page -> [Slot -> [Word -> Nat]]]
  /\ ptr \in [Page -> [Slot -> Rec \cup {Null}]]
  /\ sibling \in [Page -> Page \cup {Null}]
  /\ counter \in [Page -> {n \in 0 .. 255 : n % 2 = 0}]
  /\ last \in [Page -> -1 .. Card - 2]
  /\ w.page \in Page /\ w.n \in 0 .. Card - 2 /\ w.hole \in Slot
  /\ r.page \in Page /\ r.i \in Slot /\ r.buf \in Seq(Rec)

(* The scan never looks behind the last entry of a page although its loop  *)
(* has no bound but a null pointer: the last entry of a page is never used,*)
(* also while an insert shifts and when old entries lie behind the         *)
(* terminator of a page that was cut (linear_search_range, insert_key).    *)
ScanStaysInPage == \A p \in Linked : ptr[p][Card - 1] = Null

Done == r.pc \in {"stopped", "ended"}
Found(x) == \E i \in 1 .. Len(r.buf) : r.buf[i] = x

(* A scan that walks to the end of the leaves misses no record that was    *)
(* indexed when it began and is in its range, whatever is shifted to the   *)
(* right or split off meanwhile, and although a key may be read in the     *)
(* middle of a copy (linear_search_range against store).                   *)
EndedScanMissesNothing ==
  r.pc = "ended" => \A x \in seen.before : InRange(x) => Found(x)

(* Function to search keys from "min" to "max", says btree.cc: every       *)
(* record between them that was indexed when the search began is found.    *)
(* It is not: a scan stops at the first key from max on, and that may be   *)
(* an old key behind the end of a page that was split, while the record is *)
(* on the page that was split off.                                         *)
ScanFindsRange ==
  Done => \A x \in seen.before : InRange(x) => Found(x)

(* Function to search keys from "min" to "max", says btree.cc: what a scan *)
(* returns is between them.  It need not be, when keys are copied in more  *)
(* than one piece and two inserts run: the scan compares its copy of a key *)
(* with the entry once more, but that may be in the middle of the next     *)
(* change, and agree with the copy although the record read in between has *)
(* a key that agrees with neither.                                         *)
ScanReturnsRange == \A i \in 1 .. Len(r.buf) : InRange(r.buf[i])

(* The records whose inserts have run since the scan began.                *)
InsertsSince == (Indexed \cup {w.rec}) \ (seen.before \cup {Null})

(* With one insert at a time the second comparison is good enough: a key   *)
(* and a pointer that were read of two records are not combined.           *)
ScanStaysInRange == Cardinality(InsertsSince) <= 1 => ScanReturnsRange

(* A scan that no insert disturbs returns every record of the range once,  *)
(* in key order.                                                           *)
QuietScanIsExact ==
  Done /\ seen.quiet =>
    /\ {r.buf[i] : i \in 1 .. Len(r.buf)} = {x \in seen.before : InRange(x)}
    /\ \A i, j \in 1 .. Len(r.buf) : i < j =>
         r.buf[i] # r.buf[j] /\ ~Less(KeyOf[r.buf[j]], KeyOf[r.buf[i]])

(* What a split moves: the upper half of a full page.                      *)
UpperHalf == Card - 1 - (Card - 1) \div 2

(* A scan may return a record twice, but each insert that runs meanwhile   *)
(* adds no more than an upper half, met on both sides of its split, and    *)
(* one record that is shifted past the scan.  The server allocates the     *)
(* result before the scan and compares the count with its size only        *)
(* afterwards (server.cc read_cb, btree.h linear_search_range).            *)
RepeatsAreBounded ==
  Len(r.buf) <= Cardinality({r.buf[i] : i \in 1 .. Len(r.buf)})
                + (UpperHalf + 1) * Cardinality(InsertsSince)

(* Between two inserts the leaf chain is a sorted list of all records: no  *)
(* record is in it twice, the pages do not overlap, last_index and the     *)
(* terminator agree (store, insert_key).                                   *)
LeavesSorted ==
  w.pc = "idle" =>
    /\ \A p, q \in Linked : p # q => Held(p) \cap Held(q) = {}
    /\ \A p \in Linked :
         /\ Count(p) = last[p] + 1
         /\ Cardinality(Held(p)) = Count(p)
         /\ \A i \in 0 .. last[p] : key[p][i] = KeyOf[ptr[p][i]]
         /\ \A i \in 1 .. last[p] : ~Less(key[p][i], key[p][i - 1])
         /\ sibling[p] # Null => ~Less(key[sibling[p]][0], key[p][last[p]])

(* The first key of a page never changes unless the page is the leftmost   *)
(* one: store may decide by it, without the sibling's lock, to move right. *)
FirstKeyIsFixed ==
  [][\A p \in Linked \ {First} : key'[p][0] = key[p][0]]_vars
=============================================================================
