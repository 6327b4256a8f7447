-------------------------- MODULE HiKVTableProofs ---------------------------
(***************************************************************************)
(* Why a search keeps finding the first record: the slots a key could have *)
(* taken are filled in the order in which they are probed.                 *)
(***************************************************************************)
EXTENDS HiKVProofs, WellFoundedInduction

(* Slot i of bucket b was taken for key k at probe <<i, w>>, and no slot   *)
(* that k probes earlier is free.                                          *)
PlacedAt(tab, k, b, i, w) ==
  /\ tab[b][i].sig = Hash[w][k]
  /\ b = BucketOf(k, w)
  /\ \A q \in Probe : Before(q, <<i, w>>) => At(tab, k, q).sig # 0

Table == [Bucket -> [Slot -> SlotRecord]]

(* The slots in use are the same in both tables.                           *)
UsedKept(tab, tab2) ==
  \A b \in Bucket, i \in Slot : tab[b][i].sig # 0 => tab2[b][i] = tab[b][i]

(* Probes are totally ordered.                                             *)
LEMMA ProbeOrder ==
  ASSUME NEW p \in Probe, NEW q \in Probe
  PROVE  /\ Before(p, q) \/ Before(q, p) \/ p = q
         /\ ~(Before(p, q) /\ Before(q, p)) /\ ~Before(p, p)
<1>1. /\ p = <<p[1], p[2]>> /\ q = <<q[1], q[2]>>
      /\ p[1] \in Int /\ q[1] \in Int /\ p[2] \in Int /\ q[2] \in Int
  BY SizeAssumption DEF Probe, Slot, Seed
<1>2. QED
  BY <1>1 DEF Before

LEMMA AtType ==
  ASSUME NEW tab \in Table, NEW k \in Key, NEW p \in Probe
  PROVE  /\ p[1] \in Slot /\ p[2] \in Seed /\ BucketOf(k, p[2]) \in Bucket
         /\ At(tab, k, p) = tab[BucketOf(k, p[2])][p[1]]
         /\ At(tab, k, p) \in SlotRecord
<1>1. p[1] \in Slot /\ p[2] \in Seed
  BY DEF Probe
<1>2. BucketOf(k, p[2]) \in Bucket
  BY <1>1, BucketOfType
<1>3. QED
  BY <1>1, <1>2 DEF At, Table

(* There is at most one first match, so that the search has one answer.    *)
LEMMA SearchAnswer ==
  ASSUME NEW tab, NEW k, NEW p \in Probe, FirstMatch(tab, k, p)
  PROVE  HashSearch(tab, k) = At(tab, k, p).off
<1>1. \E q \in Probe : Match(tab, k, q)
  BY DEF FirstMatch
<1>2. \A q \in Probe : FirstMatch(tab, k, q) => q = p
  BY ProbeOrder DEF FirstMatch
<1>3. (CHOOSE q \in Probe : FirstMatch(tab, k, q)) = p
  BY <1>2
<1>4. QED
  BY <1>1, <1>3 DEF HashSearch

(* The first free probe has no free probe before it, also when the key's   *)
(* two buckets are one.                                                    *)
LEMMA FirstFreeBefore ==
  ASSUME NEW tab \in Table, NEW k \in Key, NEW p \in Probe,
         FirstFree(tab, k, p), NEW q \in Probe, Before(q, p)
  PROVE  At(tab, k, q).sig # 0
<1>1. ~Free(tab, k, q)
  BY DEF FirstFree
<1>2. CASE At(tab, k, q).sig # 0
  BY <1>2
<1>3. CASE q[2] = 2 /\ BucketOf(k, 1) = BucketOf(k, 2)
  <2> DEFINE r == <<q[1], 1>>
  <2>1. r \in Probe /\ r[1] = q[1] /\ r[2] = 1
    BY DEF Probe, Seed
  <2>2. Before(r, p)
    BY <1>3, <2>1, SizeAssumption DEF Before, Probe, Slot, Seed
  <2>3. ~Free(tab, k, r)
    BY <2>1, <2>2 DEF FirstFree
  <2>4. At(tab, k, r).sig # 0
    BY <2>1, <2>3 DEF Free
  <2>5. At(tab, k, r) = At(tab, k, q)
    BY <1>3, <2>1 DEF At
  <2>6. QED
    BY <2>4, <2>5
<1>4. QED
  BY <1>1, <1>2, <1>3 DEF Free

(* Filling the first free slot changes no used one and puts the key where  *)
(* every earlier probe is taken.                                           *)
LEMMA FillPlaces ==
  ASSUME NEW tab \in Table, NEW k \in Key, NEW p \in Probe,
         FirstFree(tab, k, p), NEW off \in Int
  PROVE  /\ UsedKept(tab, Fill(tab, k, p, off))
         /\ PlacedAt(Fill(tab, k, p, off), k, BucketOf(k, p[2]), p[1], p[2])
<1> DEFINE B == BucketOf(k, p[2])
           new == Fill(tab, k, p, off)
<1>1. /\ p[1] \in Slot /\ p[2] \in Seed /\ B \in Bucket
      /\ tab[B][p[1]].sig = 0
  BY AtType DEF FirstFree, Free
<1>2. \A b \in Bucket, i \in Slot :
        new[b][i] = IF b = B /\ i = p[1]
                    THEN [sig |-> Hash[p[2]][k], off |-> off] ELSE tab[b][i]
  BY FillAt DEF Table
<1>3. UsedKept(tab, new)
  BY <1>1, <1>2 DEF UsedKept
<1>4. new[B][p[1]].sig = Hash[p[2]][k]
  BY <1>1, <1>2
<1>5. ASSUME NEW q \in Probe, Before(q, <<p[1], p[2]>>)
      PROVE  At(new, k, q).sig # 0
  <2>1. Before(q, p)
    BY <1>5 DEF Before
  <2>2. At(tab, k, q).sig # 0
    BY <2>1, FirstFreeBefore
  <2>3. q[1] \in Slot /\ BucketOf(k, q[2]) \in Bucket
    BY AtType
  <2>4. QED
    BY <1>3, <2>2, <2>3 DEF UsedKept, At
<1>6. QED
  BY <1>3, <1>4, <1>5 DEF PlacedAt

LEMMA PlacedKept ==
  ASSUME NEW tab \in Table, NEW tab2, UsedKept(tab, tab2), NEW k \in Key,
         NEW b \in Bucket, NEW i \in Slot, NEW w \in Seed,
         PlacedAt(tab, k, b, i, w)
  PROVE  PlacedAt(tab2, k, b, i, w)
<1>1. tab[b][i].sig # 0
  BY BucketOfType DEF PlacedAt
<1>2. tab2[b][i] = tab[b][i]
  BY <1>1 DEF UsedKept
<1>3. ASSUME NEW q \in Probe, Before(q, <<i, w>>)
      PROVE  At(tab2, k, q).sig # 0
  BY <1>3, AtType DEF PlacedAt, UsedKept, At
<1>4. QED
  BY <1>2, <1>3 DEF PlacedAt

(* A match in a slot that was taken for k itself is, for k, behind taken   *)
(* slots only -- also when the two hashes of k are equal.                  *)
LEMMA MatchBehindUsed ==
  ASSUME NEW tab \in Table, NEW k \in Key, NEW p \in Probe, Match(tab, k, p),
         NEW w \in Seed, PlacedAt(tab, k, BucketOf(k, p[2]), p[1], w),
         NEW q \in Probe, Before(q, p)
  PROVE  At(tab, k, q).sig # 0
<1>1. /\ p[2] \in Seed /\ p[1] \in Int /\ q[1] \in Int /\ q[2] \in Seed
      /\ p[1] \in Slot
  BY SizeAssumption DEF Probe, Slot, Seed
<1>2. CASE Before(q, <<p[1], w>>)
  BY <1>2 DEF PlacedAt
<1>3. CASE ~Before(q, <<p[1], w>>)
  <2>1. q[1] = p[1] /\ q[2] = 1 /\ p[2] = 2 /\ w = 1
    BY <1>1, <1>3 DEF Before, Seed
  <2>2. BucketOf(k, 2) = BucketOf(k, 1)
    BY <2>1 DEF PlacedAt
  <2>3. At(tab, k, q).sig = Hash[w][k]
    BY <2>1, <2>2 DEF At, PlacedAt
  <2>4. QED
    BY <2>3, BucketOfType
<1>4. QED
  BY <1>2, <1>3

(* What a search finds in a slot taken for its key it finds in every later *)
(* table.                                                                  *)
LEMMA SearchKept ==
  ASSUME NEW tab \in Table, NEW tab2 \in Table, UsedKept(tab, tab2),
         NEW k \in Key, NEW p \in Probe, FirstMatch(tab, k, p),
         NEW w \in Seed, PlacedAt(tab, k, BucketOf(k, p[2]), p[1], w)
  PROVE  FirstMatch(tab2, k, p) /\ HashSearch(tab2, k) = HashSearch(tab, k)
<1>1. Match(tab, k, p)
  BY DEF FirstMatch
<1>2. \A q \in Probe : Before(q, p) => At(tab, k, q).sig # 0
  BY <1>1, MatchBehindUsed
<1>3. At(tab, k, p).sig # 0
  BY <1>1, AtType, BucketOfType DEF Match
<1>4. \A q \in Probe : At(tab, k, q).sig # 0 => At(tab2, k, q) = At(tab, k, q)
  BY AtType DEF UsedKept, At
<1>5. FirstMatch(tab2, k, p)
  BY <1>1, <1>2, <1>3, <1>4 DEF FirstMatch, Match
<1>6. HashSearch(tab2, k) = At(tab2, k, p).off /\ HashSearch(tab, k) = At(tab, k, p).off
  BY <1>5, SearchAnswer
<1>7. QED
  BY <1>3, <1>4, <1>5, <1>6

LEMMA LeastNatural ==
  ASSUME NEW T \in SUBSET Nat, T # {}
  PROVE  \E x \in T : \A y \in T : x <= y
<1>1. PICK x \in T : \A y \in T : ~(<<y, x>> \in OpToRel(<, Nat))
  BY NatLessThanWellFounded, WFMin
<1>2. \A y \in T : ~(y < x)
  BY <1>1 DEF OpToRel
<1>3. QED
  BY <1>2

(* Where there is a match there is a first one.                            *)
LEMMA FirstMatchExists ==
  ASSUME NEW tab, NEW k, NEW p \in Probe, Match(tab, k, p)
  PROVE  \E q \in Probe : FirstMatch(tab, k, q)
<1> DEFINE T == {i \in Slot : \E w \in Seed : Match(tab, k, <<i, w>>)}
<1>1. p[1] \in T /\ T \in SUBSET Nat
  <2>1. p[1] \in Slot /\ p[2] \in Seed /\ p = <<p[1], p[2]>>
    BY DEF Probe
  <2>2. Slot \in SUBSET Nat
    BY SizeAssumption DEF Slot
  <2>3. QED
    BY <2>1, <2>2
<1>2. PICK i \in T : \A j \in T : i <= j
  <2> HIDE DEF T
  <2> QED
    BY <1>1, LeastNatural
<1>3. ASSUME NEW w \in Seed, Match(tab, k, <<i, w>>),
             NEW q \in Probe, Before(q, <<i, w>>), Match(tab, k, q)
      PROVE  w = 2 /\ q = <<i, 1>>
  <2>1. q = <<q[1], q[2]>> /\ q[1] \in T /\ q[2] \in Seed
    BY <1>3 DEF Probe
  <2>2. i <= q[1] /\ i \in Int /\ q[1] \in Int
    BY <1>1, <1>2, <2>1
  <2>3. QED
    BY <1>3, <2>1, <2>2 DEF Before, Seed
<1>4. CASE Match(tab, k, <<i, 1>>)
  <2>1. <<i, 1>> \in Probe
    BY <1>2 DEF Probe, Seed
  <2>2. FirstMatch(tab, k, <<i, 1>>)
    BY <1>3, <1>4 DEF FirstMatch, Seed
  <2>3. QED
    BY <2>1, <2>2
<1>5. CASE ~Match(tab, k, <<i, 1>>)
  <2>1. Match(tab, k, <<i, 2>>) /\ <<i, 2>> \in Probe
    BY <1>2, <1>5 DEF Probe, Seed
  <2>2. FirstMatch(tab, k, <<i, 2>>)
    BY <1>3, <1>5, <2>1 DEF FirstMatch, Seed
  <2>3. QED
    BY <2>1, <2>2
<1>6. QED
  BY <1>4, <1>5

-----------------------------------------------------------------------------
(* The strengthening: the slots before a record's own, in the order of its *)
(* key, are taken and hold older records.                                  *)
OlderAt(s, b, i) ==
  \E w \in Seed :
    /\ PlacedAt(table[s], log[s][table[s][b][i].off + 1], b, i, w)
    /\ \A q \in Probe : Before(q, <<i, w>>) =>
         At(table[s], log[s][table[s][b][i].off + 1], q).off < table[s][b][i].off

OlderFirst == \A s \in Server, b \in Bucket, i \in Slot :
                Used(s, b, i) => OlderAt(s, b, i)

(* Everything the table proofs need.                                       *)
TableInv == TypeInv /\ TableMatchesLog /\ OlderFirst

LEMMA SlotFacts ==
  ASSUME TableInv, NEW s \in Server, NEW b \in Bucket, NEW i \in Slot,
         Used(s, b, i)
  PROVE  /\ table[s][b][i].off \in Nat
         /\ table[s][b][i].off < Len(result[s])
         /\ result[s][table[s][b][i].off + 1]
         /\ table[s][b][i].off + 1 \in 1 .. Len(log[s])
         /\ log[s][table[s][b][i].off + 1] \in Key
<1>1. /\ table[s][b][i].off \in 0 .. Len(result[s]) - 1
      /\ result[s][table[s][b][i].off + 1]
  BY DEF TableInv, TableMatchesLog, SlotsLead
<1>2. /\ Len(result[s]) \in Nat /\ Len(log[s]) \in Nat /\ log[s] \in Seq(Key)
      /\ Len(result[s]) <= Len(log[s])
  BY LenProperties DEF TableInv, TypeInv, TypeOK, Lengths
<1>3. QED
  BY <1>1, <1>2

(* A step that keeps the used slots and the keys of the accepted records   *)
(* keeps the order.                                                        *)
LEMMA OlderKept ==
  ASSUME TableInv, NEW s \in Server, NEW b \in Bucket, NEW i \in Slot,
         Used(s, b, i), UsedKept(table[s], table'[s]),
         \A n \in 1 .. Len(log[s]) : log'[s][n] = log[s][n]
  PROVE  Used(s, b, i)' /\ OlderAt(s, b, i)'
<1> DEFINE off == table[s][b][i].off
           k   == log[s][off + 1]
<1>1. table[s] \in Table /\ k \in Key /\ off + 1 \in 1 .. Len(log[s])
  BY SlotFacts DEF TableInv, TypeInv, TypeOK, Table
<1>2. table'[s][b][i] = table[s][b][i]
  BY DEF UsedKept, Used
<1>3. log'[s][off + 1] = k
  BY <1>1
<1>4. PICK w \in Seed :
        /\ PlacedAt(table[s], k, b, i, w)
        /\ \A q \in Probe : Before(q, <<i, w>>) => At(table[s], k, q).off < off
  BY DEF TableInv, OlderFirst, OlderAt
<1>5. PlacedAt(table'[s], k, b, i, w)
  BY <1>1, <1>4, PlacedKept
<1>6. ASSUME NEW q \in Probe, Before(q, <<i, w>>)
      PROVE  At(table'[s], k, q).off < off
  <2>1. At(table[s], k, q).sig # 0 /\ At(table[s], k, q).off < off
    BY <1>4, <1>6 DEF PlacedAt
  <2>2. At(table'[s], k, q) = At(table[s], k, q)
    BY <1>1, <2>1, AtType DEF UsedKept, At
  <2>3. QED
    BY <2>1, <2>2
<1>7. Used(s, b, i)'
  BY <1>2 DEF Used
<1>8. \E v \in Seed :
        /\ PlacedAt(table'[s], log'[s][table'[s][b][i].off + 1], b, i, v)
        /\ \A q \in Probe : Before(q, <<i, v>>) =>
             At(table'[s], log'[s][table'[s][b][i].off + 1], q).off
               < table'[s][b][i].off
  BY <1>2, <1>3, <1>5, <1>6
<1>9. OlderAt(s, b, i)'
  BY <1>8 DEF OlderAt, PlacedAt, At, BucketOf
<1>10. QED
  BY <1>7, <1>9

LEMMA OlderInsert ==
  ASSUME TableInv, NEW s \in Server, HashInsert(s),
         NEW b \in Bucket, NEW i \in Slot, Used(s, b, i)'
  PROVE  OlderAt(s, b, i)'
<1>k. PICK k \in Key : k = log[s][Len(log[s])]
  BY DEF HashInsert, TableInv, TypeInv, TypeOK, Lengths
<1>n. PICK new \in Nat : new = Len(result[s])
  BY LenProperties DEF TableInv, TypeInv, TypeOK
<1>1. /\ new + 1 = Len(log[s]) /\ Current(s) = new /\ log' = log
      /\ table[s] \in Table /\ log[s][new + 1] = k
  BY <1>k, <1>n, LenProperties
     DEF HashInsert, TableInv, TypeInv, TypeOK, Lengths, Current, Table
<1>2. PICK p \in Probe : /\ FirstFree(table[s], k, p)
                         /\ table'[s] = Fill(table[s], k, p, new)
  BY <1>k, <1>1 DEF HashInsert, TableInv, TypeInv, TypeOK
<1>3. /\ UsedKept(table[s], table'[s])
      /\ PlacedAt(table'[s], k, BucketOf(k, p[2]), p[1], p[2])
  BY <1>1, <1>2, FillPlaces
<1>4. CASE Used(s, b, i)
  BY <1>1, <1>3, <1>4, OlderKept
<1>5. CASE ~Used(s, b, i)
  <2>1. \A c \in Bucket, j \in Slot :
          table'[s][c][j] = IF c = BucketOf(k, p[2]) /\ j = p[1]
                            THEN [sig |-> Hash[p[2]][k], off |-> new]
                            ELSE table[s][c][j]
    BY <1>1, <1>2, FillAt DEF Table
  <2>2. b = BucketOf(k, p[2]) /\ i = p[1] /\ table'[s][b][i].off = new
    <3>1. b = BucketOf(k, p[2]) /\ i = p[1]
      BY <1>5, <2>1 DEF Used
    <3>2. QED
      BY <2>1, <3>1
  <2>3. p[2] \in Seed
    BY DEF Probe
  <2>4. ASSUME NEW q \in Probe, Before(q, <<i, p[2]>>)
        PROVE  At(table'[s], k, q).off < new
    <3>1. Before(q, p)
      BY <2>2, <2>4 DEF Before
    <3>2. At(table[s], k, q).sig # 0
      BY <1>1, <1>2, <3>1, FirstFreeBefore
    <3>3. q[1] \in Slot /\ BucketOf(k, q[2]) \in Bucket
      BY <1>1, AtType
    <3>4. Used(s, BucketOf(k, q[2]), q[1])
      BY <3>2 DEF Used, At
    <3>5. At(table[s], k, q).off < new
      BY <1>n, <3>3, <3>4, SlotFacts DEF At
    <3>6. At(table'[s], k, q) = At(table[s], k, q)
      BY <1>3, <3>2, <3>3 DEF UsedKept, At
    <3>7. QED
      BY <3>5, <3>6
  <2>5. log'[s][table'[s][b][i].off + 1] = k
    BY <1>1, <2>2
  <2>6. \E v \in Seed :
          /\ PlacedAt(table'[s], log'[s][table'[s][b][i].off + 1], b, i, v)
          /\ \A q \in Probe : Before(q, <<i, v>>) =>
               At(table'[s], log'[s][table'[s][b][i].off + 1], q).off
                 < table'[s][b][i].off
    BY <1>3, <2>2, <2>3, <2>4, <2>5
  <2>7. QED
    BY <2>6 DEF OlderAt, PlacedAt, At, BucketOf
<1>6. QED
  BY <1>4, <1>5

(* What a step does to the table and the log of thread r.                  *)
LEMMA StepKeeps ==
  ASSUME TableInv, [Next]_vars, NEW r \in Server
  PROVE  /\ HashInsert(r) \/ table'[r] = table[r]
         /\ UsedKept(table[r], table'[r])
         /\ \A n \in 1 .. Len(log[r]) : log'[r][n] = log[r][n]
<1> USE DEF TableInv, TypeInv, TypeOK
<1>1. ASSUME NEW s \in Server, NEW k \in Key, AppendLog(s, k)
      PROVE  /\ table'[r] = table[r]
             /\ \A n \in 1 .. Len(log[r]) : log'[r][n] = log[r][n]
  BY <1>1 DEF AppendLog
<1>2. ASSUME NEW s \in Server, HashInsert(s), r # s
      PROVE  table'[r] = table[r] /\ log' = log
  BY <1>2 DEF HashInsert
<1>3. ASSUME HashInsert(r)
      PROVE  UsedKept(table[r], table'[r]) /\ log' = log
  <2>1. /\ log[r][Len(log[r])] \in Key /\ Current(r) \in Int
        /\ table[r] \in Table /\ log' = log
    BY <1>3, LenProperties DEF HashInsert, Lengths, Current, Table
  <2>2. PICK p \in Probe :
          /\ FirstFree(table[r], log[r][Len(log[r])], p)
          /\ table'[r] = Fill(table[r], log[r][Len(log[r])], p, Current(r))
    BY <1>3 DEF HashInsert
  <2>3. QED
    BY <2>1, <2>2, FillPlaces
<1>4. ASSUME NEW s \in Server, HashFull(s) \/ SeeRoom(s) \/ PushTask(s)
      PROVE  UNCHANGED <<log, table>>
  BY <1>4 DEF HashFull, SeeRoom, PushTask
<1>5. ASSUME NEW b \in Drained, BackendStep(b) PROVE UNCHANGED <<log, table>>
  BY <1>5 DEF BackendStep, PopTask, IndexTask
<1>6. CASE UNCHANGED vars
  BY <1>6 DEF vars, UsedKept
<1>7. \/ \E s \in Server, k \in Key : AppendLog(s, k)
      \/ \E s \in Server : HashInsert(s)
      \/ UNCHANGED <<log, table>>
  BY <1>4, <1>5, <1>6 DEF Next, ServerStep, vars
<1>8. table'[r] = table[r] => UsedKept(table[r], table'[r])
  BY DEF UsedKept
<1>9. QED
  BY <1>1, <1>2, <1>3, <1>7, <1>8

LEMMA OlderStep == TableInv /\ [Next]_vars => OlderFirst'
<1> SUFFICES ASSUME TableInv, [Next]_vars, NEW s \in Server,
                    NEW b \in Bucket, NEW i \in Slot, Used(s, b, i)'
             PROVE  OlderAt(s, b, i)'
  BY DEF OlderFirst
<1>1. CASE HashInsert(s)
  BY <1>1, OlderInsert
<1>2. CASE ~HashInsert(s)
  <2>1. /\ table'[s] = table[s] /\ UsedKept(table[s], table'[s])
        /\ \A n \in 1 .. Len(log[s]) : log'[s][n] = log[s][n]
    BY <1>2, StepKeeps
  <2>2. Used(s, b, i)
    BY <2>1 DEF Used
  <2>3. QED
    BY <2>1, <2>2, OlderKept
<1>3. QED
  BY <1>1, <1>2

LEMMA TableInvariant == Spec => []TableInv
<1>1. Init => OlderFirst
  BY DEF Init, OlderFirst, Used
<1>2. QED
  BY <1>1, OlderStep, TypeInvariant, TableAgreesWithLog, PTL DEF Spec, TableInv

-----------------------------------------------------------------------------
(* A record of key k is found in a slot taken for k, behind older records. *)
LEMMA OwnSlot ==
  ASSUME TableInv, NEW s \in Server, NEW k \in Key, NEW p \in Probe,
         Match(table[s], k, p), log[s][At(table[s], k, p).off + 1] = k
  PROVE  \E w \in Seed :
           /\ PlacedAt(table[s], k, BucketOf(k, p[2]), p[1], w)
           /\ \A q \in Probe : Before(q, <<p[1], w>>) =>
                At(table[s], k, q).off < At(table[s], k, p).off
<1>1. /\ table[s] \in Table /\ p[1] \in Slot /\ p[2] \in Seed
      /\ BucketOf(k, p[2]) \in Bucket
  BY AtType DEF TableInv, TypeInv, TypeOK, Table
<1>2. Used(s, BucketOf(k, p[2]), p[1])
  BY <1>1, BucketOfType DEF Match, At, Used
<1>3. OlderAt(s, BucketOf(k, p[2]), p[1])
  BY <1>1, <1>2 DEF TableInv, OlderFirst
<1>4. QED
  BY <1>3 DEF OlderAt, At

(* A search that has found a record keeps finding it.                      *)
LEMMA SearchStep ==
  ASSUME TableInv, [Next]_vars, NEW s \in Server, NEW k \in Key,
         Search(s, k) # None
  PROVE  Search(s, k)' = Search(s, k)
<1>1. table[s] \in Table /\ HashSearch(table[s], k) # 0
      /\ log[s][HashSearch(table[s], k) + 1] = k
  BY DEF Search, TableInv, TypeInv, TypeOK, Table
<1>2. PICK m \in Probe : Match(table[s], k, m)
  BY <1>1 DEF HashSearch
<1>3. PICK p \in Probe : FirstMatch(table[s], k, p)
  BY <1>2, FirstMatchExists
<1>4. HashSearch(table[s], k) = At(table[s], k, p).off /\ Match(table[s], k, p)
  BY <1>3, SearchAnswer DEF FirstMatch
<1>5. PICK w \in Seed : PlacedAt(table[s], k, BucketOf(k, p[2]), p[1], w)
  BY <1>1, <1>4, OwnSlot
<1>6. /\ UsedKept(table[s], table'[s])
      /\ \A n \in 1 .. Len(log[s]) : log'[s][n] = log[s][n]
  BY StepKeeps
<1>7. table'[s] \in Table
  BY TypeStep DEF TableInv, TypeInv, TypeOK, Table
<1>8. HashSearch(table'[s], k) = HashSearch(table[s], k)
  BY <1>1, <1>3, <1>5, <1>6, <1>7, SearchKept
<1>9. At(table[s], k, p).off + 1 \in 1 .. Len(log[s])
  <2>1. p[1] \in Slot /\ BucketOf(k, p[2]) \in Bucket /\ p[2] \in Seed
    BY <1>1, AtType
  <2>2. Used(s, BucketOf(k, p[2]), p[1])
    BY <1>4, <2>1, BucketOfType DEF Match, At, Used
  <2>3. QED
    BY <2>1, <2>2, SlotFacts DEF At
<1>10. log'[s][HashSearch(table'[s], k) + 1] = k
  BY <1>1, <1>4, <1>6, <1>8, <1>9
<1>11. HashSearch(table[s], k)' = HashSearch(table'[s], k)
  BY DEF HashSearch, Match, FirstMatch, At, BucketOf
<1>12. QED
  BY <1>1, <1>8, <1>10, <1>11 DEF Search

(* Whatever is put later, and also when signatures collide, a search keeps *)
(* its answer (hashtable.h insert and search).                             *)
THEOREM SearchNeverChanges == Spec => SearchIsStable
<1>1. TableInv /\ [Next]_vars =>
        [\A s \in Server, k \in Key :
           Search(s, k) # None => Search(s, k)' = Search(s, k)]_vars
  BY SearchStep
<1>2. QED
  BY <1>1, TableInvariant, PTL DEF Spec, SearchIsStable

LEMMA OldestFound == TableInv => FirstPutWins
<1>1. ASSUME TableInv, NEW s \in Server, NEW k \in Key, CollisionFree(k),
             NEW p \in Probe, Match(table[s], k, p)
      PROVE  /\ At(table[s], k, p).off \in Accepted(s, k)
             /\ log[s][At(table[s], k, p).off + 1] = k
  <2>1. /\ p[1] \in Slot /\ p[2] \in Seed /\ BucketOf(k, p[2]) \in Bucket
    BY <1>1, AtType DEF TableInv, TypeInv, TypeOK, Table
  <2>2. Used(s, BucketOf(k, p[2]), p[1])
    BY <1>1, <2>1, BucketOfType DEF Match, At, Used
  <2> DEFINE off == At(table[s], k, p).off
  <2>3. /\ off \in 0 .. Len(result[s]) - 1 /\ result[s][off + 1]
        /\ \E w \in Seed : Hash[p[2]][k] = Hash[w][log[s][off + 1]]
        /\ log[s][off + 1] \in Key
    <3> DEFINE b == BucketOf(k, p[2])
    <3>1. off = table[s][b][p[1]].off /\ table[s][b][p[1]].sig = Hash[p[2]][k]
      BY <1>1 DEF At, Match
    <3>2. /\ table[s][b][p[1]].off \in 0 .. Len(result[s]) - 1
          /\ result[s][table[s][b][p[1]].off + 1]
          /\ \E w \in Seed :
               table[s][b][p[1]].sig = Hash[w][log[s][table[s][b][p[1]].off + 1]]
      <4>1. SlotsLead(s)
        BY <1>1 DEF TableInv, TableMatchesLog
      <4>2. PICK c \in Bucket, j \in Slot : c = b /\ j = p[1]
        BY <2>1
      <4>3. Used(s, c, j)
        BY <2>2, <4>2
      <4>4. /\ table[s][c][j].off \in 0 .. Len(result[s]) - 1
            /\ result[s][table[s][c][j].off + 1]
            /\ \E w \in Seed :
                 table[s][c][j].sig = Hash[w][log[s][table[s][c][j].off + 1]]
        BY <4>1, <4>3 DEF SlotsLead
      <4>5. QED
        BY <4>2, <4>4
    <3>3. log[s][table[s][b][p[1]].off + 1] \in Key
      BY <1>1, <2>1, <2>2, SlotFacts
    <3>4. QED
      BY <3>1, <3>2, <3>3
  <2>4. log[s][off + 1] = k
    BY <1>1, <2>1, <2>3 DEF CollisionFree
  <2>5. QED
    BY <2>3, <2>4 DEF Accepted
<1>2. ASSUME TableInv, NEW s \in Server, NEW k \in Key, NEW off \in Accepted(s, k)
      PROVE  \E p \in Probe : Match(table[s], k, p) /\ At(table[s], k, p).off = off
  <2>1. /\ off \in Nat /\ off + 1 \in 1 .. Len(result[s])
        /\ result[s][off + 1] /\ log[s][off + 1] = k
    BY <1>2, LenProperties DEF Accepted, TableInv, TypeInv, TypeOK
  <2>2. PICK b \in Bucket, i \in Slot : Used(s, b, i) /\ table[s][b][i].off = off
    <3>1. \E b \in Bucket, i \in Slot :
            Used(s, b, i) /\ table[s][b][i].off = (off + 1) - 1
      BY <1>2, <2>1 DEF TableInv, TableMatchesLog, AcceptedHasSlot
    <3>2. QED
      BY <2>1, <3>1
  <2>3. PICK w \in Seed : table[s][b][i].sig = Hash[w][k] /\ b = BucketOf(k, w)
    BY <1>2, <2>1, <2>2 DEF TableInv, TableMatchesLog, SlotsLead
  <2>4. /\ <<i, w>> \in Probe /\ Match(table[s], k, <<i, w>>)
        /\ At(table[s], k, <<i, w>>).off = off
    BY <2>2, <2>3 DEF Probe, Match, At
  <2>5. QED
    BY <2>4
<1>3. QED
  <2> SUFFICES ASSUME TableInv, NEW s \in Server, NEW k \in Key, CollisionFree(k)
               PROVE  IF Accepted(s, k) = {}
                      THEN HashSearch(table[s], k) = 0
                      ELSE /\ HashSearch(table[s], k) \in Accepted(s, k)
                           /\ \A off \in Accepted(s, k) :
                                HashSearch(table[s], k) <= off
    BY DEF FirstPutWins
  <2>1. CASE Accepted(s, k) = {}
    <3>1. ~\E p \in Probe : Match(table[s], k, p)
      BY <1>1, <2>1
    <3>2. QED
      BY <2>1, <3>1 DEF HashSearch
  <2>2. CASE Accepted(s, k) # {}
    <3>1. PICK m \in Probe : Match(table[s], k, m)
      BY <1>2, <2>2
    <3>2. PICK p \in Probe : FirstMatch(table[s], k, p)
      BY <3>1, FirstMatchExists
    <3>3. /\ HashSearch(table[s], k) = At(table[s], k, p).off
          /\ Match(table[s], k, p)
      BY <3>2, SearchAnswer DEF FirstMatch
    <3>4. At(table[s], k, p).off \in Accepted(s, k)
      BY <1>1, <3>3
    <3>5. ASSUME NEW off \in Accepted(s, k)
          PROVE  At(table[s], k, p).off <= off
      <4>1. PICK q \in Probe : Match(table[s], k, q) /\ At(table[s], k, q).off = off
        BY <1>2
      <4>2. p = q \/ Before(p, q)
        BY <3>2, <4>1, ProbeOrder DEF FirstMatch
      <4>3. At(table[s], k, p).off \in Int /\ off \in Int
        BY <3>4, LenProperties DEF Accepted
      <4>4. CASE p = q
        BY <4>1, <4>3, <4>4
      <4>5. CASE Before(p, q)
        <5>1. log[s][off + 1] = k
          BY DEF Accepted
        <5>2. PICK w \in Seed :
                /\ PlacedAt(table[s], k, BucketOf(k, q[2]), q[1], w)
                /\ \A r \in Probe : Before(r, <<q[1], w>>) =>
                     At(table[s], k, r).off < off
          BY <4>1, <5>1, OwnSlot
        <5>3. CASE Before(p, <<q[1], w>>)
          BY <4>3, <5>2, <5>3
        <5>4. CASE ~Before(p, <<q[1], w>>)
          <6>1. /\ p[1] \in Int /\ q[1] \in Int /\ p[2] \in Seed /\ q[2] \in Seed
            BY SizeAssumption DEF Probe, Slot
          <6>2. p[1] = q[1] /\ p[2] = 1 /\ q[2] = 2 /\ w = 1
            BY <4>5, <5>4, <6>1 DEF Before, Seed
          <6>3. BucketOf(k, 2) = BucketOf(k, 1)
            BY <5>2, <6>2 DEF PlacedAt
          <6>4. At(table[s], k, p) = At(table[s], k, q)
            BY <6>2, <6>3 DEF At
          <6>5. QED
            BY <4>1, <4>3, <6>4
        <5>5. QED
          BY <5>3, <5>4
      <4>6. QED
        BY <4>2, <4>4, <4>5
    <3>6. QED
      BY <2>2, <3>3, <3>4, <3>5
  <2>3. QED
    BY <2>1, <2>2

(* The oldest accepted record of a key is the one that is found            *)
(* (hashtable.h insert and search).                                        *)
THEOREM OldestIsFound == Spec => []FirstPutWins
  BY OldestFound, TableInvariant, PTL
=============================================================================
