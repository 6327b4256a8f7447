--------------------------- MODULE HiKVRefinement ---------------------------
(***************************************************************************)
(* HiKV implements the write-once store of KVStore: every step of the      *)
(* engine is a put, one more put shown to the scans, or nothing at all.    *)
(***************************************************************************)
EXTENDS HiKVTableProofs

(* What the scans of partition s see without a gap are the indexed records.*)
VisibleIsIndexed == \A s \in Server : Visible(s) = Indexed(s)

LEMMA VisibleCount == TypeInv /\ PipelineInOrder => VisibleIsIndexed
<1> SUFFICES ASSUME TypeInv, PipelineInOrder, NEW s \in Server
             PROVE  Visible(s) = Indexed(s)
  BY DEF VisibleIsIndexed
<1> DEFINE n == Indexed(s)
<1>1. /\ n \in 0 .. MaxLog
      /\ \A off \in Offset : <<s, off>> \in tree <=> off < n
  <2>1. /\ Len(log[s]) \in Nat /\ Len(queue[s]) \in Nat /\ Acked(s) \in Int
        /\ Popped(s) \in Int /\ n \in Int
    BY CountTypes
  <2>2. Acked(s) <= MaxLog
    BY <2>1, SizeAssumption DEF Acked, TypeInv, Lengths
  <2>3. n <= MaxLog
    BY <2>1, <2>2, SizeAssumption DEF Indexed, Popped
  <2>4. PipelineAt(s)
    BY DEF PipelineInOrder
  <2>5. QED
    BY <2>1, <2>3, <2>4, SizeAssumption DEF PipelineAt
<1>2. \A off : <<s, off>> \in tree => off \in Offset
  BY DEF TypeInv, TypeOK
<1>3. /\ \A off \in 0 .. n - 1 : <<s, off>> \in tree
      /\ <<s, n>> \notin tree
  <2> HIDE DEF n
  <2>1. \A off \in 0 .. n - 1 : off \in Offset /\ off < n
    BY <1>1, SizeAssumption DEF Offset
  <2>2. <<s, n>> \in tree => n \in Offset
    BY <1>2
  <2>3. QED
    BY <1>1, <2>1, <2>2
<1>4. ASSUME NEW m \in 0 .. MaxLog,
             \A off \in 0 .. m - 1 : <<s, off>> \in tree,
             <<s, m>> \notin tree
      PROVE  m = n
  <2> HIDE DEF n
  <2>1. CASE m < n
    <3>1. m \in 0 .. n - 1
      BY <1>1, <2>1, SizeAssumption
    <3>2. QED
      BY <1>3, <1>4, <3>1
  <2>2. CASE n < m
    <3>1. n \in 0 .. m - 1
      BY <1>1, <2>2, SizeAssumption
    <3>2. QED
      BY <1>3, <1>4, <3>1
  <2>3. QED
    BY <1>1, <2>1, <2>2, SizeAssumption
<1>5. QED
  <2> HIDE DEF n
  <2> DEFINE V(m) == /\ \A off \in 0 .. m - 1 : <<s, off>> \in tree
                     /\ <<s, m>> \notin tree
  <2>1. V(n) /\ \A m \in 0 .. MaxLog : V(m) => m = n
    BY <1>3, <1>4
  <2>2. (CHOOSE m \in 0 .. MaxLog : V(m)) = n
    <3> HIDE DEF V
    <3> QED
      BY <1>1, <2>1
  <2>3. Visible(s) = (CHOOSE m \in 0 .. MaxLog : V(m))
    BY DEF Visible
  <2>4. QED
    BY <2>2, <2>3 DEF n

-----------------------------------------------------------------------------
(* What a step does to the readings of partition s.                        *)

LEMMA SearchOffset ==
  ASSUME TableInv, NEW s \in Server, NEW k \in Key
  PROVE  \/ HashSearch(table[s], k) = 0
         \/ HashSearch(table[s], k) + 1 \in 1 .. Len(log[s])
<1>1. CASE \E m \in Probe : Match(table[s], k, m)
  <2>1. PICK p \in Probe : FirstMatch(table[s], k, p)
    BY <1>1, FirstMatchExists
  <2>2. HashSearch(table[s], k) = At(table[s], k, p).off /\ Match(table[s], k, p)
    BY <2>1, SearchAnswer DEF FirstMatch
  <2>3. p[1] \in Slot /\ BucketOf(k, p[2]) \in Bucket /\ p[2] \in Seed
    BY AtType DEF TableInv, TypeInv, TypeOK, Table
  <2>4. Used(s, BucketOf(k, p[2]), p[1])
    BY <2>2, <2>3, BucketOfType DEF Match, At, Used
  <2>5. QED
    BY <2>2, <2>3, <2>4, SlotFacts DEF At
<1>2. CASE ~\E m \in Probe : Match(table[s], k, m)
  BY <1>2 DEF HashSearch
<1>3. QED
  BY <1>1, <1>2

LEMMA SearchFrame ==
  ASSUME TableInv, NEW s \in Server, NEW k \in Key, table'[s] = table[s],
         \A n \in 1 .. Len(log[s]) : log'[s][n] = log[s][n]
  PROVE  Search(s, k)' = Search(s, k)
<1>1. HashSearch(table[s], k)' = HashSearch(table[s], k)
  <2>1. HashSearch(table[s], k)' = HashSearch(table'[s], k)
    BY DEF HashSearch, FirstMatch, Match, At, BucketOf
  <2>2. QED
    BY <2>1
<1>2. \/ HashSearch(table[s], k) = 0
      \/ log'[s][HashSearch(table[s], k) + 1] = log[s][HashSearch(table[s], k) + 1]
  BY SearchOffset
<1>3. QED
  BY <1>1, <1>2 DEF Search

(* An accepted put changes the reading of its own key at most, and only    *)
(* from absent to the new record.                                          *)
LEMMA SearchInsert ==
  ASSUME TableInv, [Next]_vars, NEW s \in Server, HashInsert(s), NEW j \in Key
  PROVE  \/ Search(s, j)' = Search(s, j)
         \/ /\ j = log[s][Len(log[s])]
            /\ Search(s, j) = None
            /\ Search(s, j)' = Len(result[s])
<1>k. PICK k \in Key : k = log[s][Len(log[s])]
  BY DEF HashInsert, TableInv, TypeInv, TypeOK, Lengths
<1>n. PICK new \in Nat : new = Len(result[s])
  BY LenProperties DEF TableInv, TypeInv, TypeOK
<1>1. /\ new + 1 = Len(log[s]) /\ Current(s) = new /\ log' = log
      /\ table[s] \in Table /\ log[s][new + 1] = k
  BY <1>k, <1>n, LenProperties
     DEF HashInsert, TableInv, TypeInv, TypeOK, Lengths, Current, Table
<1>2. PICK p \in Probe : /\ FirstFree(table[s], k, p)
                         /\ table'[s] = Fill(table[s], k, p, new)
  BY <1>k, <1>1 DEF HashInsert, TableInv, TypeInv, TypeOK
<1>3. UsedKept(table[s], table'[s])
  BY <1>1, <1>2, FillPlaces
<1>4. table'[s] \in Table
  BY TypeStep DEF TableInv, TypeInv, TypeOK, Table
<1>5. HashSearch(table[s], j)' = HashSearch(table'[s], j)
  BY DEF HashSearch, FirstMatch, Match, At, BucketOf
<1>6. CASE Search(s, j) # None
  BY <1>6, SearchStep
<1>7. CASE Search(s, j) = None /\ Search(s, j)' # None
  <2> DEFINE off == HashSearch(table'[s], j)
  <2>1. off # 0 /\ log[s][off + 1] = j /\ Search(s, j)' = off
    BY <1>1, <1>5, <1>7 DEF Search
  <2>2. PICK m \in Probe : Match(table'[s], j, m)
    BY <2>1 DEF HashSearch
  <2>3. PICK q \in Probe : FirstMatch(table'[s], j, q)
    BY <2>2, FirstMatchExists
  <2>4. off = At(table'[s], j, q).off /\ Match(table'[s], j, q)
    BY <2>3, SearchAnswer DEF FirstMatch
  <2>5. /\ q[1] \in Slot /\ q[2] \in Seed /\ BucketOf(j, q[2]) \in Bucket
    BY <1>1, AtType
  <2>6. CASE At(table[s], j, q).sig # 0
    <3>1. At(table'[s], j, q) = At(table[s], j, q) /\ Match(table[s], j, q)
      BY <1>3, <2>4, <2>5, <2>6 DEF UsedKept, At, Match
    <3>2. ASSUME NEW r \in Probe, Before(r, q), Match(table[s], j, r)
          PROVE  FALSE
      <4>1. r[1] \in Slot /\ r[2] \in Seed /\ BucketOf(j, r[2]) \in Bucket
        BY <1>1, AtType
      <4>2. At(table[s], j, r).sig # 0
        BY <3>2, <4>1, BucketOfType DEF Match
      <4>3. Match(table'[s], j, r)
        BY <1>3, <3>2, <4>1, <4>2 DEF UsedKept, At, Match
      <4>4. QED
        BY <2>3, <3>2, <4>3 DEF FirstMatch
    <3>3. FirstMatch(table[s], j, q)
      BY <3>1, <3>2 DEF FirstMatch
    <3>4. HashSearch(table[s], j) = off
      BY <2>4, <3>1, <3>3, SearchAnswer
    <3>5. QED
      BY <1>7, <2>1, <3>4 DEF Search
  <2>7. CASE At(table[s], j, q).sig = 0
    <3>1. table'[s][BucketOf(j, q[2])][q[1]]
            # table[s][BucketOf(j, q[2])][q[1]]
      BY <2>4, <2>5, <2>7, BucketOfType DEF At, Match
    <3>2. \A c \in Bucket, i \in Slot :
            table'[s][c][i] = IF c = BucketOf(k, p[2]) /\ i = p[1]
                              THEN [sig |-> Hash[p[2]][k], off |-> new]
                              ELSE table[s][c][i]
      <4>1. p[1] \in Slot /\ p[2] \in Seed /\ BucketOf(k, p[2]) \in Bucket
        BY <1>1, AtType
      <4>2. QED
        BY <1>1, <1>2, <4>1, FillAt DEF Table
    <3>3. table'[s][BucketOf(j, q[2])][q[1]] = [sig |-> Hash[p[2]][k], off |-> new]
      BY <2>5, <3>1, <3>2
    <3>4. off = new
      BY <2>4, <3>3 DEF At
    <3>5. QED
      BY <1>k, <1>n, <1>1, <1>7, <2>1, <3>4
  <2>8. QED
    BY <2>6, <2>7
<1>8. QED
  BY <1>6, <1>7

-----------------------------------------------------------------------------
(* The steps of the engine as steps of the store.                          *)

RefInv == TableInv /\ PipelineInOrder /\ VisibleIsIndexed

LEMMA StoreInit == Init => Store!Init
<1> SUFFICES ASSUME Init PROVE Store!Init
  OBVIOUS
<1>1. ASSUME NEW s \in Server, NEW k \in Key PROVE Search(s, k) = None
  <2>1. ~\E p \in Probe : Match(table[s], k, p)
    <3> SUFFICES ASSUME NEW p \in Probe PROVE ~Match(table[s], k, p)
      OBVIOUS
    <3>1. p[1] \in Slot /\ p[2] \in Seed /\ BucketOf(k, p[2]) \in Bucket
      BY BucketOfType DEF Probe
    <3>2. At(table[s], k, p).sig = 0
      BY <3>1 DEF Init, At
    <3>3. QED
      BY <3>1, <3>2, BucketOfType DEF Match
  <2>2. HashSearch(table[s], k) = 0
    BY <2>1 DEF HashSearch
  <2>3. QED
    BY <2>2 DEF Search
<1>2. ASSUME NEW s \in Server PROVE Len(result[s]) = 0
  BY DEF Init
<1>3. ASSUME NEW s \in Server PROVE Visible(s) = 0
  <2>1. VisibleIsIndexed
    BY TypeInit, PipelineInit, VisibleCount
  <2>2. Indexed(s) = 0
    BY DEF Init, Indexed, Popped, Acked, Busy, Drained
  <2>3. QED
    BY <2>1, <2>2 DEF VisibleIsIndexed
<1>4. QED
  BY <1>1, <1>2, <1>3 DEF Store!Init

(* A step that changes no reading, shows nothing and answers no put, or    *)
(* answers one without an effect.                                          *)
LEMMA OtherStep ==
  ASSUME NEW s \in Server,
         \A r \in Server, j \in Key : Search(r, j)' = Search(r, j),
         \A r \in Server : Visible(r)' = Visible(r),
         \/ \A r \in Server : Len(result'[r]) = Len(result[r])
         \/ \A r \in Server :
              Len(result'[r]) = IF r = s THEN Len(result[s]) + 1 ELSE Len(result[r])
  PROVE  [Store!Next]_(Store!vars)
<1>1. CASE \A r \in Server : Len(result'[r]) = Len(result[r])
  BY <1>1 DEF Store!vars
<1>2. CASE \A r \in Server :
             Len(result'[r]) = IF r = s THEN Len(result[s]) + 1 ELSE Len(result[r])
  <2>1. Store!PutOther(s)
    BY <1>2 DEF Store!PutOther
  <2>2. QED
    BY <2>1 DEF Store!Next
<1>3. QED
  BY <1>1, <1>2

LEMMA InsertStep ==
  ASSUME RefInv, [Next]_vars, NEW s \in Server, HashInsert(s)
  PROVE  [Store!Next]_(Store!vars)
<1>1. log[s][Len(log[s])] \in Key
  BY DEF HashInsert, RefInv, TableInv, TypeInv, TypeOK, Lengths
<1>2. \A r \in Server :
        Len(result'[r]) = IF r = s THEN Len(result[s]) + 1 ELSE Len(result[r])
  BY LenProperties DEF HashInsert, RefInv, TableInv, TypeInv, TypeOK
<1>3. \A r \in Server : Visible(r)' = Visible(r)
  BY DEF HashInsert, Visible
<1>4. ASSUME NEW r \in Server, r # s, NEW j \in Key
      PROVE  Search(r, j)' = Search(r, j)
  BY <1>4, SearchFrame DEF HashInsert, RefInv
<1>5. CASE \A j \in Key : Search(s, j)' = Search(s, j)
  BY <1>2, <1>3, <1>4, <1>5, OtherStep
<1>6. CASE ~\A j \in Key : Search(s, j)' = Search(s, j)
  <2>1. PICK k \in Key : k = log[s][Len(log[s])]
    BY <1>1
  <2>2. ASSUME NEW j \in Key
        PROVE  \/ Search(s, j)' = Search(s, j)
               \/ j = k /\ Search(s, k) = None /\ Search(s, k)' = Len(result[s])
    BY <2>1, SearchInsert DEF RefInv
  <2>3. /\ Search(s, k) = None /\ Search(s, k)' = Len(result[s])
        /\ \A j \in Key : j # k => Search(s, j)' = Search(s, j)
    BY <1>6, <2>2
  <2>4. Store!PutNew(s, k)
    BY <1>2, <1>3, <1>4, <2>3 DEF Store!PutNew
  <2>5. QED
    BY <2>4 DEF Store!Next
<1>7. QED
  BY <1>5, <1>6

LEMMA ShowStep ==
  ASSUME RefInv, RefInv', [Next]_vars, NEW b \in Drained, IndexTask(b)
  PROVE  [Store!Next]_(Store!vars)
<1>0. b \in Server /\ b \in Backend
  BY DEF Drained
<1>1. \A r \in Server : Visible(r) = Indexed(r) /\ Visible(r)' = Indexed(r)'
  BY DEF RefInv, VisibleIsIndexed
<1>2. \A r \in Server : Popped(r)' = Popped(r)
  BY DEF IndexTask, Popped, Acked
<1>3. /\ Len(log[b]) \in Nat /\ Len(queue[b]) \in Nat /\ Acked(b) \in Int
      /\ Popped(b) \in Int /\ Indexed(b) \in Int
  BY <1>0, CountTypes DEF RefInv, TableInv
<1>4. Busy(b) /\ ~Busy(b)'
  BY <1>0 DEF IndexTask, Busy, RefInv, TableInv, TypeInv, TypeOK
<1>5. Indexed(b)' = Indexed(b) + 1 /\ Indexed(b) = Popped(b) - 1
  BY <1>0, <1>2, <1>3, <1>4 DEF Indexed
<1>6. ASSUME NEW r \in Server, r # b PROVE Indexed(r)' = Indexed(r)
  <2>1. Busy(r)' <=> Busy(r)
    BY <1>6 DEF IndexTask, Busy, Drained, RefInv, TableInv, TypeInv, TypeOK
  <2>2. QED
    BY <1>2, <2>1 DEF Indexed
<1>7. Indexed(b) < Len(result[b])
  <2>1. Len(result[b]) \in Nat /\ Acked(b) <= Len(result[b])
    BY <1>0, <1>3, LenProperties
       DEF Acked, RefInv, TableInv, TypeInv, TypeOK, Lengths
  <2>2. QED
    BY <1>3, <1>5, <2>1 DEF Popped
<1>8. \A r \in Server, j \in Key : Search(r, j)' = Search(r, j)
  BY SearchFrame DEF IndexTask, RefInv
<1>9. Store!Show(b)
  BY <1>0, <1>1, <1>5, <1>6, <1>7, <1>8 DEF Store!Show, IndexTask
<1>10. QED
  BY <1>0, <1>9 DEF Store!Next

LEMMA StoreStep == RefInv /\ RefInv' /\ [Next]_vars => [Store!Next]_(Store!vars)
<1> SUFFICES ASSUME RefInv, RefInv', [Next]_vars
             PROVE  [Store!Next]_(Store!vars)
  OBVIOUS
<1>1. ASSUME NEW s \in Server, NEW k \in Key, AppendLog(s, k)
      PROVE  [Store!Next]_(Store!vars)
  <2>1. \A r \in Server : table'[r] = table[r]
                          /\ \A n \in 1 .. Len(log[r]) : log'[r][n] = log[r][n]
    BY <1>1, StepKeeps DEF AppendLog, RefInv
  <2>2. \A r \in Server, j \in Key : Search(r, j)' = Search(r, j)
    BY <2>1, SearchFrame DEF RefInv
  <2>3. /\ \A r \in Server : Visible(r)' = Visible(r)
        /\ \A r \in Server : Len(result'[r]) = Len(result[r])
    BY <1>1 DEF AppendLog, Visible
  <2>4. QED
    BY <2>2, <2>3, OtherStep
<1>2. ASSUME NEW s \in Server, HashFull(s)
      PROVE  [Store!Next]_(Store!vars)
  <2>1. \A r \in Server, j \in Key : Search(r, j)' = Search(r, j)
    BY <1>2, SearchFrame DEF HashFull, RefInv
  <2>2. \A r \in Server : Visible(r)' = Visible(r)
    BY <1>2 DEF HashFull, Visible
  <2>3. \A r \in Server :
          Len(result'[r]) = IF r = s THEN Len(result[s]) + 1 ELSE Len(result[r])
    BY <1>2, LenProperties DEF HashFull, RefInv, TableInv, TypeInv, TypeOK
  <2>4. QED
    BY <2>1, <2>2, <2>3, OtherStep
<1>3. CASE UNCHANGED <<log, table, result, tree>>
  <2>1. \A r \in Server, j \in Key : Search(r, j)' = Search(r, j)
    BY <1>3, SearchFrame DEF RefInv
  <2>2. \A r \in Server : Visible(r)' = Visible(r)
    BY <1>3 DEF Visible
  <2>3. QED
    BY <1>3, <2>1, <2>2 DEF Store!vars
<1>4. ASSUME NEW s \in Server, SeeRoom(s) \/ PushTask(s)
      PROVE  UNCHANGED <<log, table, result, tree>>
  BY <1>4 DEF SeeRoom, PushTask
<1>5. ASSUME NEW b \in Drained, PopTask(b)
      PROVE  UNCHANGED <<log, table, result, tree>>
  BY <1>5 DEF PopTask
<1>6. UNCHANGED vars => UNCHANGED <<log, table, result, tree>>
  BY DEF vars
<1>7. QED
  BY <1>1, <1>2, <1>3, <1>4, <1>5, <1>6, InsertStep, ShowStep
     DEF Next, ServerStep, BackendStep

(* The engine implements the write-once store: a put whose answer is true  *)
(* gives an absent key its value or changes no reading, and the backend    *)
(* threads show the scans one put after the other (hikv.h insert and       *)
(* search, threadpool.cc).                                                 *)
THEOREM StoreImplemented == Spec => ImplementsStore
<1>1. TypeInv /\ PipelineInOrder => VisibleIsIndexed
  BY VisibleCount
<1>2. Spec => []RefInv
  BY <1>1, TableInvariant, TypeInvariant, PipelineConserved, PTL DEF RefInv
<1>3. QED
  BY <1>2, StoreInit, StoreStep, PTL DEF Spec, ImplementsStore, Store!Spec
=============================================================================
