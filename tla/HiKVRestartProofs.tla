-------------------------- MODULE HiKVRestartProofs -------------------------
(***************************************************************************)
(* What survives the ends and starts of the program, for every number of   *)
(* threads, keys, buckets, slots and starts.                               *)
(***************************************************************************)
EXTENDS HiKVRestart, HiKVTableProofs

Running == life \in {"restoring", "up", "saving"}

(* The types of all variables but indexed, which follows from the order of *)
(* the queues.                                                             *)
ShapeOK ==
  /\ TypeOK
  /\ life \in Life
  /\ pool \in [Server -> Seq(Key \cup {Torn})]
  /\ meta \in [state : {"none", "torn", "whole"}, off : [Server -> 0 .. MaxLog]]
  /\ rebuilt \in SUBSET Server
  /\ starts \in 0 .. MaxStart
  /\ saved \in [Server -> [Key -> Offset \cup {None}]]
  /\ stale \in [Server -> SUBSET (Bucket \X Slot)]
  /\ restored \in [Server -> SUBSET Entry]

(* Records below this offset are not overwritten: the next one is written  *)
(* at the log's offset, which a start takes from the metadata.             *)
Solid(s) == IF Running THEN Len(log[s]) ELSE meta.off[s]

(* A used slot was taken for a key, behind taken slots, and leads to that  *)
(* key's record below the solid offset, or is stale.                       *)
SlotAt(s, b, i) ==
  /\ table[s][b][i].off \in Offset
  /\ table[s][b][i].off < Len(pool[s])
  /\ \E k \in Key, w \in Seed :
       /\ PlacedAt(table[s], k, b, i, w)
       /\ <<b, i>> \notin stale[s] =>
            table[s][b][i].off < Solid(s) /\ pool[s][table[s][b][i].off + 1] = k

SlotInv == \A s \in Server, b \in Bucket, i \in Slot :
             Used(s, b, i) => SlotAt(s, b, i)

(* A stale slot is in use, and stays in use.                               *)
StaleInv == \A s \in Server, b \in Bucket, i \in Slot :
              <<b, i>> \in stale[s] => Used(s, b, i)

(* The log of a running program is what the pool holds, and the saved part *)
(* of it is complete.                                                      *)
PoolAt(s) ==
  /\ Len(log[s]) <= Len(pool[s])
  /\ \A n \in 1 .. Len(log[s]) : pool[s][n] = log[s][n]
  /\ meta.off[s] <= Len(pool[s]) /\ meta.off[s] <= Len(result[s])
  /\ \A n \in 1 .. meta.off[s] : pool[s][n] \in Key
  /\ Running => meta.off[s] <= Len(log[s])

PoolInv == \A s \in Server : PoolAt(s)

LifeInv ==
  /\ Running => Lengths
  /\ life # "up" => \A s \in Server : pc[s] = "idle"
  /\ ~Running => \A s \in Server : log[s] = << >> /\ queue[s] = << >>
  /\ meta.state = "none" =>
       \A s \in Server : meta.off[s] = 0 /\ \A k \in Key : saved[s][k] = None

RestartInv ==
  ShapeOK /\ LifeInv /\ PoolInv /\ SlotInv /\ StaleInv /\ SavedIsDurable

-----------------------------------------------------------------------------
LEMMA OffsetIsNat == Offset \subseteq Nat
  BY SizeAssumption DEF Offset

LEMMA OverwriteFacts ==
  ASSUME NEW S, NEW q \in Seq(S), NEW x \in S, NEW n \in 1 .. Len(q) + 1
  PROVE  /\ Overwrite(q, n, x) \in Seq(S)
         /\ Len(Overwrite(q, n, x)) \in Nat
         /\ Len(q) <= Len(Overwrite(q, n, x)) /\ n <= Len(Overwrite(q, n, x))
         /\ Overwrite(q, n, x)[n] = x
         /\ \A m \in 1 .. Len(q) : m # n => Overwrite(q, n, x)[m] = q[m]
<1>1. Len(q) \in Nat
  BY LenProperties
<1>2. CASE n <= Len(q)
  <2>1. Overwrite(q, n, x) = [q EXCEPT ![n] = x]
    BY <1>2 DEF Overwrite
  <2>2. QED
    BY <1>1, <1>2, <2>1, ExceptSeq
<1>3. CASE ~(n <= Len(q))
  <2>1. Overwrite(q, n, x) = Append(q, x) /\ n = Len(q) + 1
    BY <1>1, <1>3 DEF Overwrite
  <2>2. QED
    BY <1>1, <2>1, AppendProperties
<1>4. QED
  BY <1>2, <1>3

LEMMA RestartInitInv == RestartInit => RestartInv
<1> SUFFICES ASSUME RestartInit PROVE RestartInv
  OBVIOUS
<1>1. TypeInv /\ life = "off" /\ meta.state = "none"
  BY TypeInit DEF RestartInit
<1>2. ShapeOK
  BY <1>1, SizeAssumption, StartAssumption
     DEF RestartInit, ShapeOK, TypeInv, Life, None
<1>3. LifeInv /\ PoolInv
  BY DEF RestartInit, Init, LifeInv, Running, PoolInv, PoolAt
<1>4. SlotInv /\ StaleInv
  BY DEF RestartInit, Init, SlotInv, StaleInv, Used
<1>5. SavedIsDurable
  BY DEF RestartInit, SavedIsDurable
<1>6. QED
  BY <1>2, <1>3, <1>4, <1>5 DEF RestartInv

-----------------------------------------------------------------------------
(* The steps of the running engine are steps of HiKV.                      *)
Engine ==
  \/ \E s \in Server, k \in Key : Put(s, k)
  \/ \E s \in Server : WriteSignature(s) \/ GoOn(s)
  \/ \E b \in Drained : Background(b)

LEMMA EngineIsNext ==
  Engine => /\ Running /\ Next
            /\ UNCHANGED <<life, meta, rebuilt, restored, starts, saved, stale>>
            /\ life # "up" => UNCHANGED pc
            /\ pool' # pool => \E s \in Server, k \in Key : Put(s, k)
<1>1. ASSUME NEW s \in Server, NEW k \in Key, Put(s, k)
      PROVE  /\ life = "up" /\ Next
             /\ UNCHANGED <<life, meta, rebuilt, restored, starts, saved, stale>>
  BY <1>1 DEF Put, Next
<1>2. ASSUME NEW s \in Server, WriteSignature(s) \/ GoOn(s)
      PROVE  /\ life = "up" /\ Next
             /\ UNCHANGED <<life, meta, rebuilt, restored, starts, saved, stale, pool>>
  BY <1>2 DEF WriteSignature, GoOn, Next, ServerStep
<1>3. ASSUME NEW b \in Drained, Background(b)
      PROVE  /\ Running /\ Next
             /\ UNCHANGED <<life, meta, rebuilt, restored, starts, saved, stale, pool, pc>>
  BY <1>3 DEF Background, Next, Running, BackendStep, PopTask, IndexTask
<1>4. QED
  BY <1>1, <1>2, <1>3 DEF Engine, Running

(* What a put does to the pool.                                            *)
LEMMA PutPool ==
  ASSUME RestartInv, NEW s \in Server, NEW k \in Key, Put(s, k), NEW r \in Server
  PROVE  /\ pool' \in [Server -> Seq(Key \cup {Torn})]
         /\ Len(pool[r]) <= Len(pool'[r])
         /\ \A n \in 1 .. Len(log[r]) : pool'[r][n] = pool[r][n]
         /\ Len(log'[r]) <= Len(pool'[r])
         /\ \A n \in 1 .. Len(log'[r]) : pool'[r][n] = log'[r][n]
<1> DEFINE n == Len(log[s]) + 1
<1>1. /\ log[s] \in Seq(Key) /\ log[r] \in Seq(Key)
      /\ pool[s] \in Seq(Key \cup {Torn}) /\ pool[r] \in Seq(Key \cup {Torn})
      /\ PoolAt(s) /\ PoolAt(r)
  BY DEF RestartInv, ShapeOK, TypeOK, PoolInv
<1>2. /\ Len(log[s]) \in Nat /\ Len(log[r]) \in Nat
      /\ Len(pool[s]) \in Nat /\ Len(pool[r]) \in Nat
  BY <1>1, LenProperties
<1>3. /\ pool' = [pool EXCEPT ![s] = Overwrite(pool[s], n, k)]
      /\ log' = [log EXCEPT ![s] = Append(log[s], k)]
  BY DEF Put, AppendLog
<1>4. n \in 1 .. Len(pool[s]) + 1
  BY <1>1, <1>2 DEF PoolAt
<1>5. /\ Overwrite(pool[s], n, k) \in Seq(Key \cup {Torn})
      /\ Len(Overwrite(pool[s], n, k)) \in Nat
      /\ Len(pool[s]) <= Len(Overwrite(pool[s], n, k))
      /\ n <= Len(Overwrite(pool[s], n, k))
      /\ Overwrite(pool[s], n, k)[n] = k
      /\ \A m \in 1 .. Len(pool[s]) :
           m # n => Overwrite(pool[s], n, k)[m] = pool[s][m]
  <2> HIDE DEF n
  <2> DEFINE S == Key \cup {Torn}
  <2>1. pool[s] \in Seq(S) /\ k \in S
    BY <1>1
  <2>2. /\ Overwrite(pool[s], n, k) \in Seq(S)
        /\ Len(Overwrite(pool[s], n, k)) \in Nat
        /\ Len(pool[s]) <= Len(Overwrite(pool[s], n, k))
        /\ n <= Len(Overwrite(pool[s], n, k))
        /\ Overwrite(pool[s], n, k)[n] = k
        /\ \A m \in 1 .. Len(pool[s]) :
             m # n => Overwrite(pool[s], n, k)[m] = pool[s][m]
    <3> HIDE DEF S
    <3> QED
      BY <1>4, <2>1, OverwriteFacts
  <2>3. QED
    BY <2>2
<1>6. CASE r # s
  BY SMTT(30), <1>1, <1>2, <1>3, <1>5, <1>6
     DEF RestartInv, ShapeOK, TypeOK, PoolAt
<1>7. CASE r = s
  <2>1. /\ Len(Append(log[s], k)) = n /\ Append(log[s], k)[n] = k
        /\ \A m \in 1 .. Len(log[s]) : Append(log[s], k)[m] = log[s][m]
    BY <1>1, AppendProperties
  <2>2. pool' \in [Server -> Seq(Key \cup {Torn})]
    BY <1>3, <1>5 DEF RestartInv, ShapeOK
  <2>3. /\ pool'[s] = Overwrite(pool[s], n, k) /\ log'[s] = Append(log[s], k)
    BY <1>3 DEF RestartInv, ShapeOK, TypeOK
  <2>4. ASSUME NEW m \in 1 .. Len(log[s]) PROVE pool'[s][m] = pool[s][m]
    BY <1>1, <1>2, <1>5, <2>3 DEF PoolAt
  <2>5. ASSUME NEW m \in 1 .. n PROVE pool'[s][m] = log'[s][m]
    BY <1>1, <1>2, <1>5, <2>1, <2>3, <2>4 DEF PoolAt
  <2>6. QED
    BY <1>5, <1>7, <2>1, <2>2, <2>3, <2>4, <2>5
<1>8. QED
  BY <1>6, <1>7

LEMMA EngineStep ==
  RestartInv /\ Engine => ShapeOK' /\ LifeInv' /\ PoolInv'
<1> SUFFICES ASSUME RestartInv, Engine
             PROVE  ShapeOK' /\ LifeInv' /\ PoolInv'
  OBVIOUS
<1>1. /\ Running /\ Next /\ TypeInv
      /\ UNCHANGED <<life, meta, rebuilt, restored, starts, saved, stale>>
      /\ life # "up" => UNCHANGED pc
  BY EngineIsNext DEF RestartInv, ShapeOK, LifeInv, TypeInv
<1>2. TypeInv'
  BY <1>1, TypeStep
<1>3. ShapeOK'
  <2>1. pool' \in [Server -> Seq(Key \cup {Torn})]
    BY EngineIsNext, PutPool DEF RestartInv, ShapeOK
  <2>2. QED
    BY <1>1, <1>2, <2>1 DEF TypeInv, RestartInv, ShapeOK
<1>4. LifeInv'
  BY <1>1, <1>2 DEF TypeInv, RestartInv, LifeInv, Running
<1>5. ASSUME NEW r \in Server PROVE PoolAt(r)'
  <2>1. /\ Len(log[r]) \in Nat /\ Len(result[r]) \in Nat /\ Len(pool[r]) \in Nat
        /\ Len(log'[r]) \in Nat /\ Len(result'[r]) \in Nat
        /\ meta.off[r] \in Nat /\ PoolAt(r)
    BY <1>1, <1>2, LenProperties
       DEF TypeInv, TypeOK, RestartInv, ShapeOK, PoolInv
  <2>2. /\ Len(log[r]) <= Len(log'[r]) /\ Len(result[r]) <= Len(result'[r])
    <3>1. ASSUME NEW s \in Server, NEW k \in Key, AppendLog(s, k)
          PROVE  Len(log[r]) <= Len(log'[r]) /\ result' = result
      BY <2>1, <3>1, AppendProperties
         DEF AppendLog, RestartInv, ShapeOK, TypeOK
    <3>2. ASSUME NEW s \in Server, HashInsert(s) \/ HashFull(s)
          PROVE  log' = log /\ Len(result[r]) <= Len(result'[r])
      <4>1. PICK v \in BOOLEAN : result' = [result EXCEPT ![s] = Append(result[s], v)]
        BY <3>2 DEF HashInsert, HashFull
      <4>2. result[s] \in Seq(BOOLEAN)
        BY DEF RestartInv, ShapeOK, TypeOK
      <4>3. Len(Append(result[s], v)) = Len(result[s]) + 1
        BY <4>2
      <4>4. r = s => result'[r] = Append(result[s], v)
        BY <4>1 DEF RestartInv, ShapeOK, TypeOK
      <4>5. r # s => result'[r] = result[r]
        BY <4>1 DEF RestartInv, ShapeOK, TypeOK
      <4>6. log' = log
        BY <3>2 DEF HashInsert, HashFull
      <4>7. QED
        BY <2>1, <4>3, <4>4, <4>5, <4>6
    <3>3. ASSUME NEW s \in Server, SeeRoom(s) \/ PushTask(s)
          PROVE  log' = log /\ result' = result
      BY <3>3 DEF SeeRoom, PushTask
    <3>4. ASSUME NEW b \in Drained, BackendStep(b)
          PROVE  log' = log /\ result' = result
      BY <3>4 DEF BackendStep, PopTask, IndexTask
    <3>5. QED
      BY <1>1, <2>1, <3>1, <3>2, <3>3, <3>4 DEF Next, ServerStep
  <2>3. /\ Len(log'[r]) <= Len(pool'[r])
        /\ \A n \in 1 .. Len(log'[r]) : pool'[r][n] = log'[r][n]
        /\ \A n \in 1 .. Len(log[r]) : pool'[r][n] = pool[r][n]
        /\ Len(pool[r]) <= Len(pool'[r])
    <3>1. CASE \E s \in Server, k \in Key : Put(s, k)
      BY <3>1, PutPool
    <3>2. CASE ~\E s \in Server, k \in Key : Put(s, k)
      <4>1. pool' = pool
        BY <3>2, EngineIsNext
      <4>2. log' = log
        BY <3>2 DEF Engine, WriteSignature, GoOn, Background, HashInsert,
                    HashFull, SeeRoom, PushTask, BackendStep, PopTask, IndexTask
      <4>3. QED
        BY <2>1, <4>1, <4>2 DEF PoolAt
    <3>3. QED
      BY <3>1, <3>2
  <2>4. meta.off[r] <= Len(log[r])
    BY <1>1, <2>1 DEF PoolAt
  <2>5. Len(pool'[r]) \in Nat
    BY <1>3, LenProperties DEF ShapeOK
  <2>6. \A n \in 1 .. meta.off[r] : pool'[r][n] \in Key
    <3> SUFFICES ASSUME NEW n \in 1 .. meta.off[r] PROVE pool'[r][n] \in Key
      OBVIOUS
    <3>1. n \in 1 .. Len(log[r])
      BY <2>1, <2>4
    <3>2. QED
      BY <2>1, <2>3, <3>1 DEF PoolAt
  <2>7. QED
    BY <1>1, <2>1, <2>2, <2>3, <2>4, <2>5, <2>6 DEF PoolAt
<1>6. QED
  BY <1>3, <1>4, <1>5 DEF PoolInv

(* Writing the address of a slot disturbs no signature and no used slot.   *)
LEMMA AddressTable ==
  ASSUME RestartInv, NEW s \in Server, WriteAddress(s), NEW r \in Server
  PROVE  /\ table' \in [Server -> Table]
         /\ UsedKept(table[r], table'[r])
         /\ \A b \in Bucket, i \in Slot :
              table'[r][b][i].sig = table[r][b][i].sig
<1>1. PICK k \in Key : k = log[s][Len(log[s])]
  <2>1. log[s] \in Seq(Key) /\ Len(log[s]) > 0
    BY DEF WriteAddress, RestartInv, ShapeOK, TypeOK, LifeInv, Running, Lengths
  <2>2. QED
    BY <2>1
<1>2. table \in [Server -> Table] /\ table[s] \in Table /\ Current(s) \in Int
  <2>1. Len(log[s]) \in Nat
    BY LenProperties DEF RestartInv, ShapeOK, TypeOK
  <2>2. QED
    BY <2>1 DEF RestartInv, ShapeOK, TypeOK, Table, Current
<1>3. PICK p \in Probe :
        /\ At(table[s], k, p).sig = 0
        /\ table' = [table EXCEPT ![s][BucketOf(k, p[2])][p[1]].off = Current(s)]
  BY <1>1 DEF WriteAddress, FirstFree, Free
<1>4. PICK c \in Bucket, j \in Slot :
        /\ table[s][c][j].sig = 0
        /\ table' = [table EXCEPT ![s][c][j].off = Current(s)]
  <2>1. /\ p[1] \in Slot /\ BucketOf(k, p[2]) \in Bucket
        /\ table[s][BucketOf(k, p[2])][p[1]].sig = 0
    BY <1>2, <1>3, AtType
  <2>2. QED
    BY <1>3, <2>1, Zenon
<1>5. table[s][c][j] \in SlotRecord
  BY <1>2 DEF Table
<1>6. [table[s][c][j] EXCEPT !.off = Current(s)] \in SlotRecord
  BY <1>2, <1>5 DEF SlotRecord
<1>7. table' = [table EXCEPT ![s] = [table[s] EXCEPT ![c] =
                  [table[s][c] EXCEPT ![j] = [table[s][c][j] EXCEPT !.off = Current(s)]]]]
  BY <1>4
<1>8. table' \in [Server -> Table]
  BY <1>2, <1>6, <1>7 DEF Table
<1>9. \A b \in Bucket, i \in Slot :
        table'[r][b][i] = IF r = s /\ b = c /\ i = j
                          THEN [table[s][c][j] EXCEPT !.off = Current(s)]
                          ELSE table[r][b][i]
  BY <1>2, <1>7 DEF Table
<1>10. [table[s][c][j] EXCEPT !.off = Current(s)].sig = 0
  BY <1>4, <1>5 DEF SlotRecord
<1>11. QED
  BY <1>4, <1>8, <1>9, <1>10 DEF UsedKept

(* What a used slot leads to is a place in the log.                        *)
LEMMA ReadType ==
  ASSUME RestartInv, NEW s \in Server, NEW k \in Key
  PROVE  Read(s, k) \in Offset \cup {None}
<1>1. CASE \E m \in Probe : Match(table[s], k, m)
  <2>1. PICK p \in Probe : FirstMatch(table[s], k, p)
    BY <1>1, FirstMatchExists
  <2>2. HashSearch(table[s], k) = At(table[s], k, p).off /\ Match(table[s], k, p)
    BY <2>1, SearchAnswer DEF FirstMatch
  <2>3. p[1] \in Slot /\ BucketOf(k, p[2]) \in Bucket /\ p[2] \in Seed
    BY AtType DEF RestartInv, ShapeOK, TypeOK, Table
  <2>4. Used(s, BucketOf(k, p[2]), p[1])
    BY <2>2, <2>3, BucketOfType DEF Match, At, Used
  <2>5. HashSearch(table[s], k) \in Offset
    BY <2>2, <2>3, <2>4 DEF At, RestartInv, SlotInv, SlotAt
  <2>6. QED
    BY <2>5 DEF Read
<1>2. CASE ~\E m \in Probe : Match(table[s], k, m)
  BY <1>2 DEF HashSearch, Read
<1>3. QED
  BY <1>1, <1>2

LEMMA AddressStep ==
  ASSUME RestartInv, NEW s \in Server, WriteAddress(s)
  PROVE  ShapeOK' /\ LifeInv' /\ PoolInv'
<1>1. table' \in [Server -> Table]
  BY AddressTable
<1>2. UNCHANGED <<log, result, pc, queue, worker, tree, life, pool, meta,
                  rebuilt, restored, starts, saved, stale>>
  BY DEF WriteAddress
<1>3. ShapeOK'
  BY <1>1, <1>2 DEF RestartInv, ShapeOK, TypeOK, Table
<1>4. LifeInv'
  BY <1>2 DEF RestartInv, LifeInv, Running, Lengths
<1>5. PoolInv'
  BY <1>2 DEF RestartInv, PoolInv, PoolAt, Running
<1>6. QED
  BY <1>3, <1>4, <1>5

LEMMA SaveStep ==
  RestartInv /\ (BeginSave \/ EndSave) => ShapeOK' /\ LifeInv' /\ PoolInv'
<1> SUFFICES ASSUME RestartInv PROVE
      BeginSave \/ EndSave => ShapeOK' /\ LifeInv' /\ PoolInv'
  OBVIOUS
<1>1. ASSUME BeginSave PROVE ShapeOK' /\ LifeInv' /\ PoolInv'
  <2>1. meta' \in [state : {"none", "torn", "whole"}, off : [Server -> 0 .. MaxLog]]
        /\ meta'.off = meta.off /\ meta'.state = "torn"
    BY <1>1 DEF BeginSave, RestartInv, ShapeOK
  <2>2. Running /\ life = "up" /\ life' = "saving"
    BY <1>1 DEF BeginSave, Running
  <2>3. ShapeOK'
    BY <1>1, <2>1, <2>2
       DEF BeginSave, store, RestartInv, ShapeOK, TypeOK, Life
  <2>4. LifeInv'
    BY <1>1, <2>1, <2>2 DEF BeginSave, store, RestartInv, LifeInv, Lengths, Running
  <2>5. PoolInv'
    BY <1>1, <2>1, <2>2 DEF BeginSave, store, RestartInv, PoolInv, PoolAt, Running
  <2>6. QED
    BY <2>3, <2>4, <2>5
<1>2. ASSUME EndSave PROVE ShapeOK' /\ LifeInv' /\ PoolInv'
  <2>1. Running /\ life = "saving" /\ life' = "off" /\ Lengths
        /\ \A s \in Server : pc[s] = "idle"
    BY <1>2 DEF EndSave, Running, RestartInv, LifeInv
  <2>2. \A s \in Server : /\ Len(log[s]) \in 0 .. MaxLog
                          /\ Len(log[s]) = Len(result[s])
    BY <2>1, LenProperties, SizeAssumption
       DEF Lengths, RestartInv, ShapeOK, TypeOK
  <2>3. /\ meta' \in [state : {"none", "torn", "whole"}, off : [Server -> 0 .. MaxLog]]
        /\ meta'.state = "whole" /\ \A s \in Server : meta'.off[s] = Len(log[s])
    BY <1>2, <2>2 DEF EndSave
  <2>4. saved' \in [Server -> [Key -> Offset \cup {None}]]
    BY <1>2, ReadType DEF EndSave
  <2>5. ShapeOK'
    BY <1>2, <2>1, <2>3, <2>4, EmptySeq
       DEF EndSave, Forget, RestartInv, ShapeOK, TypeOK, Life
  <2>6. LifeInv'
    BY <1>2, <2>1, <2>3 DEF EndSave, Forget, LifeInv, Running
  <2>7. ASSUME NEW s \in Server PROVE PoolAt(s)'
    <3>1. /\ PoolAt(s) /\ log[s] \in Seq(Key) /\ Len(pool[s]) \in Nat
          /\ log'[s] = << >> /\ pool' = pool /\ result' = result /\ ~Running'
      BY <1>2, <2>1, LenProperties
         DEF EndSave, Forget, RestartInv, PoolInv, ShapeOK, TypeOK, Running
    <3>2. \A n \in 1 .. Len(log[s]) : pool[s][n] \in Key
      BY <3>1 DEF PoolAt
    <3>3. QED
      BY <2>2, <2>3, <3>1, <3>2 DEF PoolAt
  <2>8. QED
    BY <2>5, <2>6, <2>7 DEF PoolInv
<1>3. QED
  BY <1>1, <1>2

(* A crash writes behind the log at most.                                  *)
LEMMA CrashPool ==
  ASSUME RestartInv, Crash, NEW r \in Server
  PROVE  /\ Running
         /\ pool' \in [Server -> Seq(Key \cup {Torn})]
         /\ Len(pool[r]) <= Len(pool'[r])
         /\ \A n \in 1 .. Len(log[r]) : pool'[r][n] = pool[r][n]
<1>1. Running
  BY DEF Crash, Running
<1>2. ASSUME NEW s \in Server
      PROVE  /\ Overwrite(pool[s], Len(log[s]) + 1, Torn) \in Seq(Key \cup {Torn})
             /\ Len(pool[s]) <= Len(Overwrite(pool[s], Len(log[s]) + 1, Torn))
             /\ \A n \in 1 .. Len(log[s]) :
                  Overwrite(pool[s], Len(log[s]) + 1, Torn)[n] = pool[s][n]
             /\ Len(pool[s]) \in Nat
  <2> DEFINE S == Key \cup {Torn}
             end == Len(log[s]) + 1
  <2>1. pool[s] \in Seq(S) /\ Torn \in S
    BY DEF RestartInv, ShapeOK
  <2>2. Len(log[s]) \in Nat /\ Len(pool[s]) \in Nat /\ Len(log[s]) <= Len(pool[s])
    BY <2>1, LenProperties DEF RestartInv, ShapeOK, TypeOK, PoolInv, PoolAt
  <2>3. /\ Overwrite(pool[s], end, Torn) \in Seq(S)
        /\ Len(pool[s]) <= Len(Overwrite(pool[s], end, Torn))
        /\ \A m \in 1 .. Len(pool[s]) :
             m # end => Overwrite(pool[s], end, Torn)[m] = pool[s][m]
    <3>1. end \in 1 .. Len(pool[s]) + 1
      BY <2>2
    <3> HIDE DEF S, end
    <3>2. QED
      BY <2>1, <3>1, OverwriteFacts
  <2>4. QED
    BY <2>2, <2>3
<1>3. PICK half \in SUBSET Server :
        pool' = [s \in Server |->
                   IF s \in half THEN Overwrite(pool[s], Len(log[s]) + 1, Torn)
                   ELSE pool[s]]
  BY DEF Crash
<1>4. \A s \in Server : pool[s] \in Seq(Key \cup {Torn})
  BY DEF RestartInv, ShapeOK
<1>5. QED
  BY <1>1, <1>2, <1>3, <1>4

LEMMA CrashStep ==
  RestartInv /\ Crash => ShapeOK' /\ LifeInv' /\ PoolInv'
<1> SUFFICES ASSUME RestartInv, Crash
             PROVE  ShapeOK' /\ LifeInv' /\ PoolInv'
  OBVIOUS
<1>1. /\ life' = "off" /\ ~Running'
      /\ UNCHANGED <<table, result, meta, starts, saved>> /\ Forget
  BY DEF Crash, Running
<1>2. stale' \in [Server -> SUBSET (Bucket \X Slot)]
  BY DEF Crash, RestartInv, ShapeOK
<1>3. pool' \in [Server -> Seq(Key \cup {Torn})]
  <2>1. CASE Server = {}
    BY <2>1 DEF Crash
  <2>2. CASE Server # {}
    BY <2>2, CrashPool
  <2>3. QED
    BY <2>1, <2>2
<1>4. ShapeOK'
  BY <1>1, <1>2, <1>3, EmptySeq
     DEF Forget, RestartInv, ShapeOK, TypeOK, Life
<1>5. LifeInv'
  BY <1>1 DEF Forget, RestartInv, LifeInv
<1>6. ASSUME NEW s \in Server PROVE PoolAt(s)'
  <2>1. /\ PoolAt(s) /\ Len(pool[s]) \in Nat /\ Len(pool'[s]) \in Nat
        /\ Len(log[s]) \in Nat /\ meta.off[s] \in Nat /\ log'[s] = << >>
    BY <1>1, <1>3, LenProperties
       DEF Forget, RestartInv, PoolInv, ShapeOK, TypeOK
  <2>2. /\ Len(pool[s]) <= Len(pool'[s]) /\ Running
        /\ \A n \in 1 .. Len(log[s]) : pool'[s][n] = pool[s][n]
    BY CrashPool
  <2>3. meta.off[s] <= Len(log[s])
    BY <2>1, <2>2 DEF PoolAt
  <2>4. \A n \in 1 .. meta.off[s] : pool'[s][n] \in Key
    BY <2>1, <2>2, <2>3 DEF PoolAt
  <2>5. QED
    BY <1>1, <2>1, <2>2, <2>4 DEF PoolAt
<1>7. QED
  BY <1>4, <1>5, <1>6 DEF PoolInv

LEMMA StartStep ==
  ASSUME RestartInv, StartNew \/ StartRestore \/ StartTorn
  PROVE  ShapeOK' /\ LifeInv' /\ PoolInv'
<1>0. starts' \in 0 .. MaxStart
  BY StartAssumption
     DEF RestartInv, ShapeOK, StartNew, StartRestore, StartTorn
<1>1. ASSUME StartNew PROVE ShapeOK' /\ LifeInv' /\ PoolInv'
  <2>1. /\ ~Running /\ Running' /\ life' = "up"
        /\ UNCHANGED <<log, pc, queue, worker, tree, pool, meta, rebuilt, restored,
                       saved>>
        /\ \A s \in Server : /\ log[s] = << >> /\ queue[s] = << >>
                             /\ pc[s] = "idle" /\ meta.off[s] = 0
                             /\ result'[s] = << >>
    BY <1>1 DEF StartNew, Running, RestartInv, LifeInv
  <2>2. /\ table' \in [Server -> [Bucket -> [Slot -> SlotRecord]]]
        /\ result' \in [Server -> Seq(BOOLEAN)]
        /\ stale' \in [Server -> SUBSET (Bucket \X Slot)]
    BY <1>1, EmptySeq DEF StartNew, SlotRecord
  <2>3. ShapeOK'
    BY <1>0, <2>1, <2>2 DEF RestartInv, ShapeOK, TypeOK, Life
  <2>4. LifeInv'
    BY <2>1, SizeAssumption DEF RestartInv, LifeInv, Lengths
  <2>5. PoolInv'
    BY <2>1 DEF RestartInv, PoolInv, PoolAt
  <2>6. QED
    BY <2>3, <2>4, <2>5
<1>2. ASSUME StartRestore PROVE ShapeOK' /\ LifeInv' /\ PoolInv'
  <2>1. /\ ~Running /\ Running' /\ life' = "restoring" /\ meta.state = "whole"
        /\ UNCHANGED <<table, pc, queue, worker, tree, pool, meta, rebuilt, restored,
                       saved, stale>>
        /\ \A s \in Server : queue[s] = << >> /\ pc[s] = "idle"
    BY <1>2 DEF StartRestore, Running, RestartInv, LifeInv
  <2>2. ASSUME NEW s \in Server
        PROVE  /\ log'[s] \in Seq(Key) /\ Len(log'[s]) = meta.off[s]
               /\ \A n \in 1 .. meta.off[s] : log'[s][n] = pool[s][n]
               /\ result'[s] \in Seq(BOOLEAN) /\ Len(result'[s]) = meta.off[s]
               /\ meta.off[s] \in 0 .. MaxLog
    <3>1. /\ meta.off[s] \in 0 .. MaxLog /\ PoolAt(s)
          /\ result[s] \in Seq(BOOLEAN) /\ Len(result[s]) \in Nat
      BY LenProperties DEF RestartInv, ShapeOK, TypeOK, PoolInv
    <3>2. /\ log'[s] = SubSeq(pool[s], 1, meta.off[s])
          /\ result'[s] = SubSeq(result[s], 1, meta.off[s])
      BY <1>2 DEF StartRestore
    <3>3. \A n \in 1 .. meta.off[s] : pool[s][n] \in Key
      BY <3>1 DEF PoolAt
    <3>4. \A n \in 1 .. meta.off[s] : result[s][n] \in BOOLEAN
      BY <3>1, ElementOfSeq, SizeAssumption DEF PoolAt
    <3>5. /\ log'[s] \in Seq(Key) /\ Len(log'[s]) = meta.off[s]
          /\ \A n \in 1 .. meta.off[s] : log'[s][n] = pool[s][n]
      BY <3>1, <3>2, <3>3, SubSeqProperties, SizeAssumption
    <3>6. result'[s] \in Seq(BOOLEAN) /\ Len(result'[s]) = meta.off[s]
      BY <3>1, <3>2, <3>4, SubSeqProperties, SizeAssumption
    <3>7. QED
      BY <3>1, <3>5, <3>6
  <2>3. /\ log' \in [Server -> Seq(Key)] /\ result' \in [Server -> Seq(BOOLEAN)]
    BY <1>2, <2>2 DEF StartRestore
  <2>4. ShapeOK'
    BY <1>0, <2>1, <2>3 DEF RestartInv, ShapeOK, TypeOK, Life
  <2>5. LifeInv'
    <3>1. Lengths'
      BY <2>1, <2>2, SizeAssumption DEF Lengths
    <3>2. QED
      BY <2>1, <3>1 DEF LifeInv
  <2>6. PoolInv'
    BY <2>1, <2>2 DEF RestartInv, PoolInv, PoolAt
  <2>7. QED
    BY <2>4, <2>5, <2>6
<1>3. ASSUME StartTorn PROVE ShapeOK' /\ LifeInv' /\ PoolInv'
  <2>1. /\ ~Running /\ ~Running' /\ life' = "ruined"
        /\ UNCHANGED <<log, table, result, pc, queue, worker, tree, pool, meta,
                       rebuilt, restored, saved, stale>>
    BY <1>3 DEF StartTorn, store, Running
  <2>2. QED
    BY <1>0, <1>3, <2>1 DEF StartTorn, RestartInv, ShapeOK, TypeOK,
                            LifeInv, PoolInv, PoolAt, Life
<1>4. QED
  BY <1>1, <1>2, <1>3

LEMMA RebuildStep ==
  ASSUME RestartInv, JoinAll \/ \E s \in Server : Rebuild(s)
  PROVE  ShapeOK' /\ LifeInv' /\ PoolInv'
<1>1. ASSUME JoinAll PROVE ShapeOK' /\ LifeInv' /\ PoolInv'
  <2>1. /\ Running /\ Running' /\ life = "restoring" /\ life' = "up"
        /\ UNCHANGED <<log, table, result, pc, queue, worker, tree, pool, meta,
                       rebuilt, restored, starts, saved, stale>>
    BY <1>1 DEF JoinAll, store, Running
  <2>2. QED
    BY <2>1 DEF RestartInv, ShapeOK, TypeOK, Life,
                LifeInv, PoolInv, PoolAt, Lengths
<1>2. ASSUME NEW s \in Server, Rebuild(s)
      PROVE  ShapeOK' /\ LifeInv' /\ PoolInv'
  <2>1. /\ Running /\ Running'
        /\ UNCHANGED <<log, table, result, pc, queue, worker, life, pool, meta,
                       indexed, starts, saved, stale>>
        /\ rebuilt' \in SUBSET Server
    BY <1>2 DEF Rebuild, Running, RestartInv, ShapeOK
  <2> DEFINE used == {bi \in Bucket \X Slot : Used(s, bi[1], bi[2])}
             Off(bi) == table[s][bi[1]][bi[2]].off
             new == {[slot |-> bi, off |-> Off(bi), key |-> pool[s][Off(bi) + 1]] :
                       bi \in used}
  <2>2. ASSUME NEW bi \in used
        PROVE  /\ bi \in Bucket \X Slot /\ Off(bi) \in Offset
               /\ pool[s][Off(bi) + 1] \in Key \cup {Torn}
    <3>1. PICK b \in Bucket, i \in Slot : bi = <<b, i>> /\ Used(s, b, i)
      BY <2>2
    <3>2. table[s][b][i].off \in Offset /\ table[s][b][i].off < Len(pool[s])
      BY <3>1 DEF RestartInv, SlotInv, SlotAt
    <3>3. pool[s] \in Seq(Key \cup {Torn}) /\ Len(pool[s]) \in Nat
      BY LenProperties DEF RestartInv, ShapeOK
    <3>4. table[s][b][i].off + 1 \in 1 .. Len(pool[s])
      BY <3>2, <3>3, SizeAssumption DEF Offset
    <3>5. pool[s][table[s][b][i].off + 1] \in Key \cup {Torn}
      BY <3>3, <3>4, ElementOfSeq
    <3>6. QED
      BY <3>1, <3>2, <3>5
  <2>3. /\ tree' = tree \cup {<<s, Off(bi)>> : bi \in used}
        /\ restored' = [restored EXCEPT ![s] = new]
    BY <1>2 DEF Rebuild
  <2>4. tree' \in SUBSET (Server \X Offset)
    BY <2>2, <2>3 DEF RestartInv, ShapeOK, TypeOK
  <2>5. new \in SUBSET Entry
    BY <2>2 DEF Entry
  <2>6. restored' \in [Server -> SUBSET Entry]
    <3> HIDE DEF new
    <3> QED
      BY <2>3, <2>5 DEF RestartInv, ShapeOK
  <2>7. ShapeOK'
    BY <2>1, <2>4, <2>6 DEF RestartInv, ShapeOK, TypeOK
  <2>8. LifeInv' /\ PoolInv'
    BY <2>1 DEF RestartInv, LifeInv, PoolInv, PoolAt, Lengths
  <2>9. QED
    BY <2>7, <2>8
<1>3. QED
  BY <1>1, <1>2

LEMMA ShapeStep ==
  RestartInv /\ [RestartNext]_rvars => ShapeOK' /\ LifeInv' /\ PoolInv'
<1>1. UNCHANGED rvars /\ RestartInv => ShapeOK' /\ LifeInv' /\ PoolInv'
  BY DEF rvars, RestartInv, ShapeOK, TypeOK, LifeInv, Lengths, PoolInv,
         PoolAt, Running
<1>2. QED
  BY <1>1, EngineStep, AddressStep, SaveStep, CrashStep, StartStep, RebuildStep
     DEF RestartNext, Engine

-----------------------------------------------------------------------------
(* What a step leaves alone: used slots, unless the tables are cleared, and *)
(* the records below the solid offset.                                      *)
Undisturbed(s) ==
  /\ UsedKept(table[s], table'[s])
  /\ stale[s] \subseteq stale'[s]
  /\ Len(pool[s]) <= Len(pool'[s]) /\ Len(pool'[s]) \in Nat
  /\ \A off \in Nat : off < Solid(s) => pool'[s][off + 1] = pool[s][off + 1]
  /\ \A b \in Bucket, i \in Slot :
       Used(s, b, i) /\ <<b, i>> \notin stale'[s] /\ table[s][b][i].off < Solid(s)
         => table[s][b][i].off < Solid(s)'

SameUsed(s) == \A b \in Bucket, i \in Slot : Used(s, b, i)' => Used(s, b, i)

LEMMA SolidType ==
  ASSUME RestartInv, NEW s \in Server
  PROVE  /\ Solid(s) \in Nat /\ meta.off[s] \in Nat /\ Len(log[s]) \in Nat
         /\ meta.off[s] <= Solid(s)
<1>1. Len(log[s]) \in Nat /\ meta.off[s] \in Nat /\ PoolAt(s)
  BY LenProperties DEF RestartInv, ShapeOK, TypeOK, PoolInv
<1>2. QED
  BY <1>1 DEF Solid, PoolAt

LEMMA EngineUndisturbed ==
  ASSUME RestartInv, Engine, NEW s \in Server
  PROVE  Undisturbed(s) /\ (SameUsed(s) \/ WriteSignature(s))
<1>0. Len(pool[s]) \in Nat /\ Len(pool'[s]) \in Nat
  BY LenProperties, ShapeStep DEF RestartInv, ShapeOK
<1>1. /\ Running /\ Next /\ TypeInv
      /\ UNCHANGED <<life, meta, rebuilt, restored, starts, saved, stale>>
  BY EngineIsNext DEF RestartInv, ShapeOK, LifeInv, TypeInv
<1>2. Running'
  BY <1>1 DEF Running
<1>3. Len(log[s]) \in Nat /\ Solid(s) = Len(log[s]) /\ Solid(s)' = Len(log'[s])
  BY <1>1, <1>2, SolidType DEF Solid
<1>4. ASSUME NEW r \in Server, NEW k \in Key, Put(r, k)
      PROVE  Undisturbed(s) /\ SameUsed(s)
  <2>1. \A off \in Nat : off < Solid(s) => pool'[s][off + 1] = pool[s][off + 1]
    BY <1>3, <1>4, PutPool
  <2>2. Len(log[s]) <= Len(log'[s]) /\ Len(log'[s]) \in Nat
    BY <1>3, <1>4, AppendProperties
       DEF Put, AppendLog, RestartInv, ShapeOK, TypeOK
  <2>3. table' = table /\ stale' = stale
    BY <1>4 DEF Put, AppendLog
  <2>4. Len(pool[s]) <= Len(pool'[s])
    BY <1>4, PutPool
  <2>5. \A b \in Bucket, i \in Slot :
          Used(s, b, i) => table[s][b][i].off \in Nat
    BY OffsetIsNat DEF RestartInv, SlotInv, SlotAt
  <2>6. QED
    BY <1>0, <1>3, <2>1, <2>2, <2>3, <2>4, <2>5
       DEF Undisturbed, SameUsed, UsedKept, Used
<1>5. ASSUME NEW r \in Server, WriteSignature(r)
      PROVE  /\ Undisturbed(s) /\ (SameUsed(s) \/ WriteSignature(s))
  <2>1. HashInsert(r) /\ log' = log /\ pool' = pool /\ stale' = stale
    BY <1>5 DEF WriteSignature, HashInsert
  <2>2. /\ log[r] \in Seq(Key) /\ Len(log[r]) > 0 /\ Len(log[r]) \in Nat
        /\ table[r] \in Table
    BY <1>1, <2>1, LenProperties
       DEF HashInsert, TypeInv, TypeOK, Lengths, Table
  <2>3. log[r][Len(log[r])] \in Key /\ Current(r) \in Int
    BY <2>2 DEF Current
  <2>4. PICK p \in Probe :
          /\ FirstFree(table[r], log[r][Len(log[r])], p)
          /\ table' = [table EXCEPT
                         ![r] = Fill(@, log[r][Len(log[r])], p, Current(r))]
    BY <2>1 DEF HashInsert
  <2>5. table \in [Server -> Table]
    BY <1>1 DEF TypeInv, TypeOK, Table
  <2>6. UsedKept(table[s], table'[s])
    <3>1. CASE r = s
      <4>1. table'[s] = Fill(table[s], log[r][Len(log[r])], p, Current(r))
        BY <2>4, <2>5, <3>1
      <4>2. QED
        BY <2>2, <2>3, <2>4, <3>1, <4>1, FillPlaces
    <3>2. CASE r # s
      BY <2>4, <2>5, <3>2 DEF UsedKept
    <3>3. QED
      BY <3>1, <3>2
  <2>7. r # s => SameUsed(s)
    BY <2>4, <2>5 DEF SameUsed, Used
  <2>8. QED
    BY <1>0, <1>3, <1>5, <2>1, <2>6, <2>7 DEF Undisturbed
<1>6. ASSUME UNCHANGED <<log, table, pool, stale>>
      PROVE  Undisturbed(s) /\ SameUsed(s)
  BY <1>0, <1>3, <1>6 DEF Undisturbed, SameUsed, UsedKept, Used
<1>7. ASSUME NEW r \in Server, GoOn(r) PROVE UNCHANGED <<log, table, pool, stale>>
  BY <1>7 DEF GoOn, HashFull, SeeRoom, PushTask
<1>8. ASSUME NEW b \in Drained, Background(b)
      PROVE  UNCHANGED <<log, table, pool, stale>>
  BY <1>8 DEF Background, BackendStep, PopTask, IndexTask
<1>9. QED
  BY <1>4, <1>5, <1>6, <1>7, <1>8 DEF Engine

LEMMA StepUndisturbed ==
  ASSUME RestartInv, [RestartNext]_rvars, ~StartNew, NEW s \in Server
  PROVE  Undisturbed(s) /\ (SameUsed(s) \/ WriteSignature(s))
<1>0. /\ Solid(s) \in Nat /\ meta.off[s] \in Nat /\ Len(log[s]) \in Nat
      /\ meta.off[s] <= Solid(s) /\ Len(pool[s]) \in Nat /\ Len(pool'[s]) \in Nat
  BY SolidType, LenProperties, ShapeStep DEF RestartInv, ShapeOK
<1>1. CASE Engine
  BY <1>1, EngineUndisturbed
<1>2. ASSUME NEW r \in Server, WriteAddress(r)
      PROVE  Undisturbed(s) /\ SameUsed(s)
  <2>1. UNCHANGED <<log, life, pool, meta, stale>>
    BY <1>2 DEF WriteAddress
  <2>2. QED
    BY <1>0, <1>2, <2>1, AddressTable DEF Undisturbed, SameUsed, Used, Solid, Running
<1>3. ASSUME EndSave PROVE Undisturbed(s) /\ SameUsed(s)
  <2>1. UNCHANGED <<table, pool, stale>> /\ Running /\ ~Running'
    BY <1>3 DEF EndSave, Running
  <2>2. Solid(s) = Len(log[s]) /\ Solid(s)' = Len(log[s])
    BY <1>3, <2>1 DEF EndSave, Solid
  <2>3. QED
    BY <1>0, <2>1, <2>2 DEF Undisturbed, SameUsed, UsedKept, Used
<1>4. ASSUME Crash PROVE Undisturbed(s) /\ SameUsed(s)
  <2>1. /\ Running /\ ~Running' /\ table' = table /\ meta' = meta
        /\ \A n \in 1 .. Len(log[s]) : pool'[s][n] = pool[s][n]
        /\ Len(pool[s]) <= Len(pool'[s])
    BY <1>4, CrashPool DEF Crash, Running
  <2>2. Solid(s) = Len(log[s]) /\ Solid(s)' = meta.off[s]
    BY <2>1 DEF Solid
  <2>3. /\ stale[s] \subseteq stale'[s]
        /\ \A b \in Bucket, i \in Slot :
             Used(s, b, i) /\ table[s][b][i].off >= meta.off[s] => <<b, i>> \in stale'[s]
    BY <1>4 DEF Crash
  <2>4. ASSUME NEW b \in Bucket, NEW i \in Slot, Used(s, b, i), <<b, i>> \notin stale'[s]
        PROVE  table[s][b][i].off < Solid(s)'
    <3>1. table[s][b][i].off \in Nat /\ ~(table[s][b][i].off >= meta.off[s])
      BY <2>3, <2>4, SizeAssumption DEF RestartInv, SlotInv, SlotAt, Offset
    <3>2. QED
      BY <1>0, <2>2, <3>1
  <2>5. QED
    BY <1>0, <2>1, <2>2, <2>3, <2>4 DEF Undisturbed, SameUsed, UsedKept, Used
<1>5. ASSUME StartRestore PROVE Undisturbed(s) /\ SameUsed(s)
  <2>1. UNCHANGED <<table, pool, stale, meta>> /\ ~Running /\ Running'
    BY <1>5 DEF StartRestore, Running
  <2>2. Len(log'[s]) = meta.off[s]
    <3>1. /\ meta.off[s] \in 0 .. MaxLog /\ PoolAt(s)
      BY DEF RestartInv, ShapeOK, PoolInv
    <3>2. \A n \in 1 .. meta.off[s] : pool[s][n] \in Key
      BY <3>1 DEF PoolAt
    <3>3. log'[s] = SubSeq(pool[s], 1, meta.off[s])
      BY <1>5 DEF StartRestore
    <3>4. QED
      BY <3>1, <3>2, <3>3, SubSeqProperties, SizeAssumption
  <2>3. Solid(s) = meta.off[s] /\ Solid(s)' = meta.off[s]
    BY <2>1, <2>2 DEF Solid
  <2>4. QED
    BY <1>0, <2>1, <2>3 DEF Undisturbed, SameUsed, UsedKept, Used
<1>6. ASSUME UNCHANGED <<log, table, pool, stale>>, meta'.off = meta.off,
             Running' <=> Running
      PROVE  Undisturbed(s) /\ SameUsed(s)
  BY <1>0, <1>6 DEF Undisturbed, SameUsed, UsedKept, Used, Solid
<1>7. ASSUME BeginSave \/ StartTorn \/ JoinAll \/ UNCHANGED rvars
      PROVE  /\ UNCHANGED <<log, table, pool, stale>> /\ meta'.off = meta.off
             /\ Running' <=> Running
  BY <1>7 DEF BeginSave, StartTorn, JoinAll, rvars, store, Running,
              RestartInv, ShapeOK
<1>8. ASSUME NEW r \in Server, Rebuild(r)
      PROVE  /\ UNCHANGED <<log, table, pool, stale>> /\ meta'.off = meta.off
             /\ Running' <=> Running
  BY <1>8 DEF Rebuild, Running
<1>9. QED
  BY <1>1, <1>2, <1>3, <1>4, <1>5, <1>6, <1>7, <1>8 DEF RestartNext, Engine

LEMMA SlotKept ==
  ASSUME RestartInv, NEW s \in Server, NEW b \in Bucket, NEW i \in Slot,
         Used(s, b, i), Undisturbed(s)
  PROVE  SlotAt(s, b, i)'
<1> DEFINE off == table[s][b][i].off
<1>1. table'[s][b][i] = table[s][b][i] /\ off \in Offset /\ off \in Nat
  BY OffsetIsNat DEF Undisturbed, UsedKept, Used, RestartInv, SlotInv, SlotAt
<1>2. PICK k \in Key, w \in Seed :
        /\ PlacedAt(table[s], k, b, i, w)
        /\ <<b, i>> \notin stale[s] => off < Solid(s) /\ pool[s][off + 1] = k
  BY DEF RestartInv, SlotInv, SlotAt
<1>3. PlacedAt(table'[s], k, b, i, w)
  BY <1>2, PlacedKept DEF Undisturbed, RestartInv, ShapeOK, TypeOK, Table
<1>4. <<b, i>> \notin stale'[s] => off < Solid(s)' /\ pool'[s][off + 1] = k
  BY <1>1, <1>2 DEF Undisturbed
<1>5. table'[s][b][i].off < Len(pool'[s])
  <2>1. Len(pool[s]) \in Nat /\ off < Len(pool[s])
    BY LenProperties DEF RestartInv, ShapeOK, SlotInv, SlotAt
  <2>2. QED
    BY <1>1, <2>1 DEF Undisturbed
<1>6. \E j \in Key, v \in Seed :
        /\ PlacedAt(table'[s], j, b, i, v)
        /\ <<b, i>> \notin stale'[s] =>
             /\ table'[s][b][i].off < Solid(s)'
             /\ pool'[s][table'[s][b][i].off + 1] = j
  BY <1>1, <1>3, <1>4
<1>7. QED
  BY <1>1, <1>5, <1>6 DEF SlotAt, PlacedAt, At, BucketOf

LEMMA SlotStep ==
  RestartInv /\ [RestartNext]_rvars => SlotInv'
<1> SUFFICES ASSUME RestartInv, [RestartNext]_rvars, NEW s \in Server,
                    NEW b \in Bucket, NEW i \in Slot, Used(s, b, i)'
             PROVE  SlotAt(s, b, i)'
  BY DEF SlotInv
<1>1. ~StartNew
  BY DEF StartNew, Used
<1>2. Undisturbed(s) /\ (SameUsed(s) \/ WriteSignature(s))
  BY <1>1, StepUndisturbed
<1>3. CASE Used(s, b, i)
  BY <1>2, <1>3, SlotKept
<1>4. CASE ~Used(s, b, i)
  <2>1. /\ WriteSignature(s) /\ HashInsert(s) /\ log' = log /\ pool' = pool
        /\ life = "up" /\ life' = life
    BY <1>2, <1>4 DEF SameUsed, WriteSignature, HashInsert
  <2>2. /\ Running /\ Running' /\ Lengths /\ table[s] \in Table
        /\ table \in [Server -> Table]
        /\ log[s] \in Seq(Key) /\ Len(log[s]) \in Nat /\ pc[s] = "hash"
    BY <2>1, LenProperties
       DEF Running, RestartInv, LifeInv, ShapeOK, TypeOK, Table, HashInsert
  <2>3. Len(log[s]) > 0 /\ Len(log[s]) <= MaxLog
    BY <2>2 DEF Lengths
  <2>4. PICK k \in Key : k = log[s][Len(log[s])]
    BY <2>2, <2>3
  <2>5. Current(s) = Len(log[s]) - 1 /\ Current(s) \in Offset
    BY <2>2, <2>3, SizeAssumption DEF Current, Offset
  <2>6. PICK p \in Probe : /\ FirstFree(table[s], k, p)
                           /\ table'[s] = Fill(table[s], k, p, Current(s))
    BY <2>1, <2>2, <2>4 DEF HashInsert
  <2>7. Current(s) \in Int
    BY <2>2, <2>5
  <2>8. PlacedAt(table'[s], k, BucketOf(k, p[2]), p[1], p[2])
    BY <2>2, <2>6, <2>7, FillPlaces
  <2>9. \A c \in Bucket, j \in Slot :
          table'[s][c][j] = IF c = BucketOf(k, p[2]) /\ j = p[1]
                            THEN [sig |-> Hash[p[2]][k], off |-> Current(s)]
                            ELSE table[s][c][j]
    BY <2>2, <2>6, <2>7, FillAt DEF Table
  <2>10. b = BucketOf(k, p[2]) /\ i = p[1]
    BY <1>4, <2>9 DEF Used
  <2>11. table'[s][b][i].off = Current(s)
    BY <2>9, <2>10
  <2>12. Solid(s)' = Len(log[s]) /\ pool'[s][Current(s) + 1] = k
    BY <2>1, <2>2, <2>3, <2>4, <2>5 DEF Solid, RestartInv, PoolInv, PoolAt
  <2>13. \E j \in Key, v \in Seed :
           /\ PlacedAt(table'[s], j, b, i, v)
           /\ <<b, i>> \notin stale'[s] =>
                /\ table'[s][b][i].off < Solid(s)'
                /\ pool'[s][table'[s][b][i].off + 1] = j
    <3>1. p[2] \in Seed
      BY DEF Probe
    <3>2. Current(s) < Len(log[s])
      BY <2>2, <2>5
    <3>3. QED
      BY <2>8, <2>10, <2>11, <2>12, <3>1, <3>2
  <2>14. Current(s) < Len(pool'[s])
    <3>1. PoolAt(s) /\ Len(pool[s]) \in Nat
      BY LenProperties DEF RestartInv, PoolInv, ShapeOK
    <3>2. QED
      BY <2>1, <2>2, <2>3, <2>5, <3>1 DEF PoolAt
  <2>15. QED
    BY <2>5, <2>11, <2>13, <2>14 DEF SlotAt, PlacedAt, At, BucketOf
<1>5. QED
  BY <1>3, <1>4

LEMMA StaleStep ==
  RestartInv /\ [RestartNext]_rvars => StaleInv'
<1> SUFFICES ASSUME RestartInv, [RestartNext]_rvars, NEW s \in Server,
                    NEW b \in Bucket, NEW i \in Slot, <<b, i>> \in stale'[s]
             PROVE  Used(s, b, i)'
  BY DEF StaleInv
<1>1. ~StartNew
  BY DEF StartNew
<1>2. Used(s, b, i) => Used(s, b, i)'
  <2>1. UsedKept(table[s], table'[s])
    BY <1>1, StepUndisturbed DEF Undisturbed
  <2>2. QED
    BY <2>1 DEF UsedKept, Used
<1>3. CASE Crash
  <2>1. <<b, i>> \in stale[s] \/ Used(s, b, i)
    BY <1>3 DEF Crash
  <2>2. QED
    BY <1>2, <2>1 DEF RestartInv, StaleInv
<1>4. CASE ~Crash
  <2>1. stale' = stale
    <3>1. Engine => stale' = stale
      BY EngineIsNext
    <3>2. ASSUME \/ BeginSave \/ EndSave \/ StartRestore \/ StartTorn \/ JoinAll
                 \/ \E r \in Server : WriteAddress(r) \/ Rebuild(r)
                 \/ UNCHANGED rvars
          PROVE  stale' = stale
      BY <3>2 DEF BeginSave, EndSave, StartRestore, StartTorn, JoinAll,
                  WriteAddress, Rebuild, rvars
    <3>3. QED
      BY <1>1, <1>4, <3>1, <3>2 DEF RestartNext, Engine
  <2>2. QED
    BY <1>2, <2>1 DEF RestartInv, StaleInv
<1>5. QED
  BY <1>3, <1>4

(* A reading below the saved offset stays what it is.                      *)
LEMMA ReadKept ==
  ASSUME RestartInv, [RestartNext]_rvars, ~StartNew, NEW s \in Server,
         NEW k \in Key, CollisionFree(k), Read(s, k) # None,
         Read(s, k) < meta.off[s]
  PROVE  Read(s, k)' = Read(s, k)
<1> DEFINE off == HashSearch(table[s], k)
<1>1. off # 0 /\ pool[s][off + 1] = k /\ Read(s, k) = off
  BY DEF Read
<1>2. /\ Undisturbed(s) /\ table[s] \in Table /\ table'[s] \in Table
  BY StepUndisturbed, ShapeStep DEF RestartInv, ShapeOK, TypeOK, Table
<1>3. PICK m \in Probe : Match(table[s], k, m)
  BY <1>1 DEF HashSearch
<1>4. PICK p \in Probe : FirstMatch(table[s], k, p)
  BY <1>3, FirstMatchExists
<1>5. off = At(table[s], k, p).off /\ Match(table[s], k, p)
  BY <1>4, SearchAnswer DEF FirstMatch
<1>6. /\ p[1] \in Slot /\ BucketOf(k, p[2]) \in Bucket /\ p[2] \in Seed
      /\ At(table[s], k, p) = table[s][BucketOf(k, p[2])][p[1]]
  BY <1>2, AtType
<1>7. Used(s, BucketOf(k, p[2]), p[1])
  BY <1>5, <1>6, BucketOfType DEF Match, Used
<1>8. SlotAt(s, BucketOf(k, p[2]), p[1])
  BY <1>6, <1>7 DEF RestartInv, SlotInv
<1>9. PICK w \in Seed : PlacedAt(table[s], k, BucketOf(k, p[2]), p[1], w)
  <2>1. PICK j \in Key, w \in Seed :
          PlacedAt(table[s], j, BucketOf(k, p[2]), p[1], w)
    BY <1>8 DEF SlotAt
  <2>2. Hash[w][j] = Hash[p[2]][k]
    BY <1>5, <1>6, <2>1 DEF PlacedAt, Match
  <2>3. j = k
    BY <1>6, <2>2 DEF CollisionFree
  <2>4. QED
    BY <2>1, <2>3
<1>10. HashSearch(table'[s], k) = off
  BY <1>2, <1>4, <1>9, SearchKept DEF Undisturbed
<1>11. off \in Nat /\ off < Solid(s)
  <2>1. off \in Nat
    BY <1>5, <1>6, <1>8, SizeAssumption DEF SlotAt, Offset
  <2>2. QED
    BY <1>1, <2>1, SolidType
<1>12. pool'[s][off + 1] = k
  BY <1>1, <1>2, <1>11 DEF Undisturbed
<1>13. HashSearch(table[s], k)' = HashSearch(table'[s], k)
  BY DEF HashSearch, Match, FirstMatch, At, BucketOf
<1>14. QED
  BY <1>1, <1>10, <1>12, <1>13 DEF Read

LEMMA SavedStep ==
  RestartInv /\ [RestartNext]_rvars => SavedIsDurable'
<1> SUFFICES ASSUME RestartInv, [RestartNext]_rvars, NEW s \in Server,
                    NEW k \in Key, CollisionFree(k),
                    saved'[s][k] # None, saved'[s][k] < meta'.off[s]
             PROVE  Read(s, k)' = saved'[s][k]
  BY DEF SavedIsDurable, CollisionFree
<1>1. CASE EndSave
  <2>1. saved'[s][k] = Read(s, k) /\ table' = table /\ pool' = pool
    BY <1>1 DEF EndSave
  <2>2. Read(s, k)' = Read(s, k)
    BY <2>1 DEF Read, HashSearch, Match, FirstMatch, At, BucketOf
  <2>3. QED
    BY <2>1, <2>2
<1>2. CASE StartNew
  BY <1>2 DEF StartNew, RestartInv, LifeInv
<1>3. CASE ~EndSave /\ ~StartNew
  <2>1. saved' = saved /\ meta'.off = meta.off
    <3>1. ASSUME Engine PROVE saved' = saved /\ meta' = meta
      BY <3>1, EngineIsNext
    <3>2. ASSUME BeginSave PROVE saved' = saved /\ meta'.off = meta.off
      BY <3>2 DEF BeginSave, RestartInv, ShapeOK
    <3>3. ASSUME \/ Crash \/ StartRestore \/ StartTorn \/ JoinAll
                 \/ \E r \in Server : WriteAddress(r) \/ Rebuild(r)
                 \/ UNCHANGED rvars
          PROVE  saved' = saved /\ meta' = meta
      BY <3>3 DEF Crash, StartRestore, StartTorn, JoinAll, WriteAddress,
                  Rebuild, rvars
    <3>4. QED
      BY <1>3, <3>1, <3>2, <3>3 DEF RestartNext, Engine
  <2>2. Read(s, k) = saved[s][k]
    BY <2>1 DEF RestartInv, SavedIsDurable
  <2>3. QED
    BY <1>3, <2>1, <2>2, ReadKept
<1>4. QED
  BY <1>1, <1>2, <1>3

-----------------------------------------------------------------------------
LEMMA RestartInvariant == RestartSpec => []RestartInv
<1>1. RestartInv /\ [RestartNext]_rvars => RestartInv'
  BY ShapeStep, SlotStep, StaleStep, SavedStep DEF RestartInv
<1>2. QED
  BY <1>1, RestartInitInv, PTL DEF RestartSpec

(* What a search found when the store was closed it finds ever after       *)
(* (hikv.h save and restore, plog.h append, hashtable.h insert).           *)
THEOREM SavedStaysReadable == RestartSpec => []SavedIsDurable
  BY RestartInvariant, PTL DEF RestartInv

(* No crash leaves a slot that leads astray, but to a record that the      *)
(* restored offsets have given up (hashtable.h insert, plog.h append).     *)
THEOREM SlotsSurvive == RestartSpec => []SlotsSurviveCrash
<1>1. RestartInv => SlotsSurviveCrash
  BY ZenonT(30) DEF RestartInv, SlotInv, SlotAt, PlacedAt, SlotsSurviveCrash
<1>2. QED
  BY <1>1, RestartInvariant, PTL

-----------------------------------------------------------------------------
(* What range scans see after a restart: the tree that restore builds from *)
(* the hash table, and the pipeline that goes on from the saved offsets.   *)

Fresh(s, b, i) == Used(s, b, i) /\ <<b, i>> \notin stale[s]

HasSlot(s, off) ==
  \E b \in Bucket, i \in Slot : Fresh(s, b, i) /\ table[s][b][i].off = off

(* The records of partition s whose answer is known and still stands.      *)
Tried(s) == IF Running THEN Len(result[s]) ELSE meta.off[s]

(* Of these, the ones with a slot that is not stale are those the hash     *)
(* table has accepted, and each of them has one.                           *)
AnswersAt(s) ==
  /\ \A off \in Offset : HasSlot(s, off) <=> off < Tried(s) /\ result[s][off + 1]
  /\ \A b, c \in Bucket, i, j \in Slot :
       Fresh(s, b, i) /\ Fresh(s, c, j) /\ table[s][b][i].off = table[s][c][j].off
         => b = c /\ i = j

(* Outside a session nothing is on its way to the tree.                    *)
RestAt(s) ==
  /\ s \in Drained => worker[s] = None
  /\ indexed[s] = << >>
  /\ ~Running => s \notin rebuilt /\ restored[s] = {}

(* The entries that restore makes of a partition are its used slots.       *)
RestoredAt(s) ==
  /\ \A e \in restored[s] :
       \E b \in Bucket, i \in Slot :
         /\ Used(s, b, i) /\ e.slot = <<b, i>>
         /\ e.off = table[s][b][i].off /\ e.key = pool[s][e.off + 1]
  /\ \A b \in Bucket, i \in Slot :
       Used(s, b, i) => \E e \in restored[s] : e.slot = <<b, i>>

RebuildingAt(s) ==
  /\ Len(log[s]) = meta.off[s] /\ queue[s] = << >>
  /\ s \in rebuilt => RestoredAt(s)

(* In a session the entries of the slots that are not stale are the saved  *)
(* records that were accepted, and the others follow in order.             *)
Sound(s) == {e \in restored[s] : e.slot \notin stale[s]}

SoundAt(s) ==
  /\ \A e \in Sound(s) :
       /\ e.off < meta.off[s] /\ result[s][e.off + 1]
       /\ e.key = log[s][e.off + 1]
       /\ \A f \in Sound(s) : f.off = e.off => f = e
  /\ \A off \in Offset :
       off < meta.off[s] /\ result[s][off + 1] => \E e \in Sound(s) : e.off = off

IndexedAt(s) ==
  /\ indexed[s] \in Seq(Offset \X Key)
  /\ Len(indexed[s]) = Indexed(s) - meta.off[s]
  /\ \A i \in 1 .. Len(indexed[s]) :
       indexed[s][i] = <<meta.off[s] + i - 1, log[s][meta.off[s] + i]>>

SessionAt(s) ==
  QueueAt(s) /\ meta.off[s] <= Indexed(s) /\ SoundAt(s) /\ IndexedAt(s)

TreeAt(s) ==
  /\ AnswersAt(s)
  /\ ~InSession => RestAt(s)
  /\ life = "restoring" => RebuildingAt(s)
  /\ InSession => SessionAt(s)

TreeInv ==
  /\ indexed = [s \in Server |-> indexed[s]]
  /\ \A s \in Server : TreeAt(s)

LEMMA TreeInit == RestartInit => TreeInv
<1> SUFFICES ASSUME RestartInit PROVE TreeInv
  OBVIOUS
<1>0. indexed = [s \in Server |-> indexed[s]]
  BY DEF RestartInit
<1> SUFFICES ASSUME NEW s \in Server PROVE TreeAt(s)
  BY <1>0 DEF TreeInv
<1>1. /\ life = "off" /\ ~Running /\ ~InSession /\ meta.off[s] = 0
      /\ rebuilt = {} /\ restored[s] = {} /\ indexed[s] = << >>
      /\ \A b \in Bucket, i \in Slot : table[s][b][i].sig = 0
      /\ s \in Drained => worker[s] = None
  BY DEF RestartInit, Init, Running, InSession, Drained
<1>2. AnswersAt(s)
  <2>1. /\ \A off \in Offset : ~HasSlot(s, off)
        /\ \A off \in Offset : ~(off < 0)
    <3>1. \A off \in Offset : ~HasSlot(s, off)
      BY <1>1 DEF HasSlot, Fresh, Used
    <3>2. \A off \in Offset : ~(off < 0)
      BY OffsetIsNat
    <3>3. QED
      BY <3>1, <3>2
  <2>2. QED
    BY <1>1, <2>1 DEF AnswersAt, Tried, Fresh, Used
<1>3. QED
  BY <1>1, <1>2 DEF TreeAt, RestAt

-----------------------------------------------------------------------------
(* Slots and answers.                                                      *)

LEMMA SlotsFixed ==
  ASSUME NEW s \in Server, Undisturbed(s), SameUsed(s), stale'[s] = stale[s]
  PROVE  /\ \A b \in Bucket, i \in Slot :
              /\ Fresh(s, b, i)' <=> Fresh(s, b, i)
              /\ Fresh(s, b, i) => table'[s][b][i] = table[s][b][i]
         /\ \A off : HasSlot(s, off)' <=> HasSlot(s, off)
<1>1. \A b \in Bucket, i \in Slot :
        /\ Fresh(s, b, i)' <=> Fresh(s, b, i)
        /\ Fresh(s, b, i) => table'[s][b][i] = table[s][b][i]
  BY DEF Undisturbed, UsedKept, SameUsed, Used, Fresh
<1>2. QED
  BY <1>1 DEF HasSlot

(* A signature makes a slot of the record that is being put.               *)
LEMMA SlotTaken ==
  ASSUME RestartInv, NEW s \in Server, WriteSignature(s)
  PROVE  \E d \in Bucket, l \in Slot :
           /\ ~Fresh(s, d, l) /\ Fresh(s, d, l)' /\ table'[s][d][l].off = Current(s)
           /\ \A b \in Bucket, i \in Slot :
                ~(b = d /\ i = l) => /\ Fresh(s, b, i)' <=> Fresh(s, b, i)
                                    /\ table'[s][b][i] = table[s][b][i]
<1>1. /\ HashInsert(s) /\ table[s] \in Table /\ table \in [Server -> Table]
      /\ log[s] \in Seq(Key) /\ Len(log[s]) \in Nat /\ Len(log[s]) > 0
      /\ stale' = stale
  BY LenProperties
     DEF WriteSignature, HashInsert, Running, Lengths, RestartInv, LifeInv,
         ShapeOK, TypeOK, Table
<1>2. PICK k \in Key : k = log[s][Len(log[s])]
  BY <1>1
<1>3. Current(s) \in Int
  BY <1>1 DEF Current
<1>4. PICK p \in Probe : /\ FirstFree(table[s], k, p)
                         /\ table'[s] = Fill(table[s], k, p, Current(s))
  BY <1>1, <1>2 DEF HashInsert
<1>5. /\ p[1] \in Slot /\ p[2] \in Seed /\ BucketOf(k, p[2]) \in Bucket
      /\ table[s][BucketOf(k, p[2])][p[1]].sig = 0 /\ Hash[p[2]][k] # 0
  BY <1>1, <1>4, AtType, BucketOfType DEF FirstFree, Free
<1>6. \A c \in Bucket, j \in Slot :
        table'[s][c][j] = IF c = BucketOf(k, p[2]) /\ j = p[1]
                          THEN [sig |-> Hash[p[2]][k], off |-> Current(s)]
                          ELSE table[s][c][j]
  BY <1>1, <1>3, <1>4, FillAt DEF Table
<1>7. ~Used(s, BucketOf(k, p[2]), p[1]) /\ <<BucketOf(k, p[2]), p[1]>> \notin stale[s]
  BY <1>5 DEF Used, RestartInv, StaleInv
<1>8. \A c \in Bucket, j \in Slot :
        IF c = BucketOf(k, p[2]) /\ j = p[1]
        THEN ~Fresh(s, c, j) /\ Fresh(s, c, j)' /\ table'[s][c][j].off = Current(s)
        ELSE (Fresh(s, c, j)' <=> Fresh(s, c, j)) /\ table'[s][c][j] = table[s][c][j]
  BY <1>1, <1>5, <1>6, <1>7 DEF Used, Fresh
<1>9. QED
  BY <1>5, <1>8

LEMMA ResultTypes ==
  ASSUME RestartInv, NEW s \in Server
  PROVE  /\ result[s] \in Seq(BOOLEAN) /\ Len(result[s]) \in Nat
         /\ Len(log[s]) \in Nat /\ meta.off[s] \in Nat /\ Tried(s) \in Nat
         /\ meta.off[s] <= Tried(s) /\ meta.off[s] <= Len(result[s])
         /\ Tried(s) <= Len(result[s])
         /\ Running => /\ Len(result[s]) <= Len(log[s])
                       /\ pc[s] = "hash" => Len(result[s]) = Current(s)
                       /\ pc[s] # "hash" => Len(result[s]) = Len(log[s])
<1>1. /\ result[s] \in Seq(BOOLEAN) /\ Len(result[s]) \in Nat
      /\ Len(log[s]) \in Nat /\ meta.off[s] \in Nat /\ PoolAt(s)
  BY LenProperties DEF RestartInv, ShapeOK, TypeOK, PoolInv
<1>2. Running => Len(result[s]) = IF pc[s] = "hash" THEN Len(log[s]) - 1
                                                   ELSE Len(log[s])
  BY DEF RestartInv, LifeInv, Lengths
<1>3. QED
  BY <1>1, <1>2, SMTT(30) DEF Tried, PoolAt, Current

(* One more answer.                                                        *)
LEMMA Answered ==
  ASSUME NEW q \in Seq(BOOLEAN), NEW v \in BOOLEAN
  PROVE  /\ Len(Append(q, v)) = Len(q) + 1 /\ Append(q, v)[Len(q) + 1] = v
         /\ \A n \in 1 .. Len(q) : Append(q, v)[n] = q[n]
<1> DEFINE S == BOOLEAN
<1>1. q \in Seq(S) /\ v \in S
  OBVIOUS
<1> HIDE DEF S
<1>2. QED
  BY <1>1, AppendProperties

(* The answers that stand do not change, but for a new one: no.            *)
SameAnswers(s) ==
  \A off \in Offset :
    off < Tried(s)' /\ result'[s][off + 1] <=> off < Tried(s) /\ result[s][off + 1]

LEMMA AnswersKept ==
  ASSUME RestartInv, [RestartNext]_rvars, ~StartNew, ~Crash, NEW s \in Server,
         ~WriteSignature(s)
  PROVE  SameAnswers(s)
<1>0. /\ result[s] \in Seq(BOOLEAN) /\ Len(result[s]) \in Nat
      /\ Len(log[s]) \in Nat /\ meta.off[s] \in Nat /\ Tried(s) \in Nat
      /\ meta.off[s] <= Tried(s) /\ Tried(s) <= Len(result[s])
      /\ Running => Len(result[s]) <= Len(log[s])
      /\ Running /\ pc[s] # "hash" => Len(result[s]) = Len(log[s])
  BY ResultTypes
<1>1. ASSUME Running, Running', result'[s] = result[s] PROVE SameAnswers(s)
  BY <1>1 DEF SameAnswers, Tried
<1>2. ASSUME GoOn(s), HashFull(s) PROVE SameAnswers(s)
  <2>1. result'[s] = Append(result[s], FALSE) /\ Running /\ Running'
    BY <1>2 DEF GoOn, HashFull, Running, RestartInv, ShapeOK, TypeOK
  <2>2. /\ Len(result'[s]) = Len(result[s]) + 1
        /\ result'[s][Len(result[s]) + 1] = FALSE
        /\ \A n \in 1 .. Len(result[s]) : result'[s][n] = result[s][n]
    BY ZenonT(60), <1>0, <2>1, Answered
  <2>3. Tried(s) = Len(result[s]) /\ Tried(s)' = Len(result[s]) + 1
    BY <2>1, <2>2 DEF Tried
  <2>4. ASSUME NEW off \in Offset
        PROVE  off < Tried(s)' /\ result'[s][off + 1]
                 <=> off < Tried(s) /\ result[s][off + 1]
    <3>1. off \in Nat
      BY SizeAssumption DEF Offset
    <3>2. CASE off < Len(result[s])
      <4>1. result'[s][off + 1] = result[s][off + 1]
        BY <1>0, <2>2, <3>1, <3>2
      <4>2. off < Tried(s) /\ off < Tried(s)'
        BY <1>0, <2>3, <3>1, <3>2
      <4>3. QED
        BY <4>1, <4>2
    <3>3. CASE off = Len(result[s])
      <4>1. result'[s][off + 1] = FALSE /\ ~(off < Tried(s))
        BY <1>0, <2>2, <2>3, <3>3
      <4>2. QED
        BY <4>1
    <3>4. CASE off > Len(result[s])
      <4>1. ~(off < Tried(s)) /\ ~(off < Tried(s)')
        BY <1>0, <2>3, <3>1, <3>4
      <4>2. QED
        BY <4>1
    <3>5. QED
      BY <1>0, <3>1, <3>2, <3>3, <3>4
  <2>5. QED
    BY <2>4 DEF SameAnswers
<1>3. CASE Engine
  <2>1. Running /\ Running'
    BY <1>3, EngineIsNext DEF Running
  <2>2. CASE GoOn(s) /\ HashFull(s)
    BY <1>2, <2>2
  <2>3. CASE ~(GoOn(s) /\ HashFull(s))
    <3>1. result'[s] = result[s]
      <4>1. ASSUME NEW r \in Server, NEW k \in Key, Put(r, k)
            PROVE  result' = result
        BY <4>1 DEF Put, AppendLog
      <4>2. ASSUME NEW r \in Server \ {s}, WriteSignature(r) \/ GoOn(r)
            PROVE  result'[s] = result[s]
        BY <4>2 DEF WriteSignature, GoOn, HashInsert, HashFull, SeeRoom,
                    PushTask, RestartInv, ShapeOK, TypeOK
      <4>3. GoOn(s) => result' = result
        BY <2>3 DEF GoOn, SeeRoom, PushTask
      <4>4. ASSUME NEW b \in Drained, Background(b) PROVE result' = result
        BY <4>4 DEF Background, BackendStep, PopTask, IndexTask
      <4>5. QED
        BY <1>3, <4>1, <4>2, <4>3, <4>4 DEF Engine
    <3>2. QED
      BY <1>1, <2>1, <3>1
  <2>4. QED
    BY <2>2, <2>3
<1>4. CASE \/ BeginSave \/ JoinAll
           \/ \E r \in Server : WriteAddress(r) \/ Rebuild(r)
  <2>1. result' = result /\ Running /\ Running'
    BY <1>4 DEF BeginSave, JoinAll, WriteAddress, Rebuild, store, Running
  <2>2. QED
    BY <1>1, <2>1
<1>5. CASE EndSave
  <2>1. /\ Running /\ ~Running' /\ result' = result /\ pc[s] = "idle"
        /\ meta'.off[s] = Len(log[s])
    BY <1>5 DEF EndSave, Running, RestartInv, LifeInv
  <2>2. Tried(s)' = Tried(s)
    BY <1>0, <2>1 DEF Tried
  <2>3. QED
    BY <2>1, <2>2 DEF SameAnswers
<1>6. CASE StartRestore
  <2>1. /\ ~Running /\ Running' /\ meta' = meta
        /\ result'[s] = SubSeq(result[s], 1, meta.off[s])
    BY <1>6 DEF StartRestore, Running
  <2>2. \A n \in 1 .. meta.off[s] : result[s][n] \in BOOLEAN
    BY <1>0, ElementOfSeq
  <2>3. /\ Len(result'[s]) = meta.off[s]
        /\ \A n \in 1 .. meta.off[s] : result'[s][n] = result[s][n]
    BY <1>0, <2>1, <2>2, SubSeqProperties
  <2>4. Tried(s) = meta.off[s] /\ Tried(s)' = meta.off[s]
    BY <2>1, <2>3 DEF Tried
  <2>5. \A off \in Offset : off < Tried(s) => result'[s][off + 1] = result[s][off + 1]
    BY <1>0, <2>3, <2>4, SizeAssumption DEF Offset
  <2>6. QED
    BY <2>4, <2>5 DEF SameAnswers
<1>7. CASE StartTorn \/ UNCHANGED rvars
  <2>1. result' = result /\ meta' = meta /\ (Running' <=> Running)
    BY <1>7 DEF StartTorn, store, rvars, Running
  <2>2. QED
    BY <2>1 DEF SameAnswers, Tried
<1>8. QED
  BY <1>3, <1>4, <1>5, <1>6, <1>7 DEF RestartNext, Engine

(* After a crash the answers below the saved offsets still stand.          *)
LEMMA AnswersCrash ==
  ASSUME RestartInv, Crash, NEW s \in Server, AnswersAt(s)
  PROVE  AnswersAt(s)'
<1>1. /\ Running /\ ~Running'
      /\ UNCHANGED <<table, result, meta>>
      /\ \A b \in Bucket, i \in Slot :
           <<b, i>> \in stale'[s] <=>
             \/ <<b, i>> \in stale[s]
             \/ Used(s, b, i) /\ table[s][b][i].off >= meta.off[s]
  BY DEF Crash, Running
<1>2. /\ Tried(s) = Len(result[s]) /\ Tried(s)' = meta.off[s]
      /\ meta.off[s] \in Nat /\ Tried(s) \in Nat /\ meta.off[s] <= Tried(s)
  BY <1>1, ResultTypes DEF Tried
<1>3. \A b \in Bucket, i \in Slot :
        Fresh(s, b, i)' <=> Fresh(s, b, i) /\ table[s][b][i].off < meta.off[s]
  <2> SUFFICES ASSUME NEW b \in Bucket, NEW i \in Slot
               PROVE  Fresh(s, b, i)' <=> Fresh(s, b, i) /\ table[s][b][i].off < meta.off[s]
    OBVIOUS
  <2>1. CASE ~Used(s, b, i)
    BY <1>1, <2>1 DEF Fresh, Used
  <2>2. CASE Used(s, b, i)
    <3>1. table[s][b][i].off \in Nat
      BY <2>2, OffsetIsNat DEF RestartInv, SlotInv, SlotAt
    <3>2. (table[s][b][i].off >= meta.off[s]) <=> ~(table[s][b][i].off < meta.off[s])
      BY <1>2, <3>1
    <3>3. Used(s, b, i)'
      BY <1>1, <2>2 DEF Used
    <3>4. QED
      BY <1>1, <2>2, <3>2, <3>3 DEF Fresh
  <2>3. QED
    BY <2>1, <2>2
<1>4. ASSUME NEW off \in Offset
      PROVE  HasSlot(s, off)' <=> off < Tried(s)' /\ result'[s][off + 1]
  <2>1. HasSlot(s, off)' <=> HasSlot(s, off) /\ off < meta.off[s]
    BY <1>1, <1>3 DEF HasSlot
  <2>2. HasSlot(s, off) <=> off < Tried(s) /\ result[s][off + 1]
    BY DEF AnswersAt
  <2>3. off < meta.off[s] => off < Tried(s)
    BY <1>2, OffsetIsNat
  <2>4. QED
    BY <1>1, <1>2, <2>1, <2>2, <2>3
<1>5. QED
  BY <1>1, <1>3, <1>4 DEF AnswersAt

LEMMA AnswersStep ==
  ASSUME RestartInv, [RestartNext]_rvars, NEW s \in Server, AnswersAt(s)
  PROVE  AnswersAt(s)'
<1>1. CASE StartNew
  <2>1. /\ Running' /\ result'[s] = << >>
        /\ \A b \in Bucket, i \in Slot : ~Used(s, b, i)'
    BY <1>1 DEF StartNew, Running, Used
  <2>2. /\ \A off \in Offset : ~HasSlot(s, off)'
        /\ \A off \in Offset : ~(off < Tried(s)')
    <3>1. \A off \in Offset : ~HasSlot(s, off)'
      BY <2>1 DEF HasSlot, Fresh
    <3>2. Tried(s)' = 0
      BY <2>1, EmptySeq DEF Tried
    <3>3. \A off \in Offset : ~(off < 0)
      BY OffsetIsNat
    <3>4. QED
      BY <3>1, <3>2, <3>3
  <2>3. QED
    BY <2>1, <2>2 DEF AnswersAt, Fresh
<1>2. CASE WriteSignature(s)
  <2>1. /\ ~StartNew /\ Running /\ Running' /\ pc[s] = "hash"
        /\ result'[s] = Append(result[s], TRUE)
    BY <1>2 DEF WriteSignature, HashInsert, Running, StartNew, RestartInv,
                ShapeOK, TypeOK
  <2>2. /\ result[s] \in Seq(BOOLEAN) /\ Len(result[s]) \in Nat
        /\ Len(result[s]) = Current(s)
    BY <2>1, ResultTypes
  <2>3. /\ Len(result'[s]) = Len(result[s]) + 1
        /\ result'[s][Len(result[s]) + 1] = TRUE
        /\ \A n \in 1 .. Len(result[s]) : result'[s][n] = result[s][n]
    BY ZenonT(60), <2>1, <2>2, Answered
  <2>4. Tried(s) = Len(result[s]) /\ Tried(s)' = Len(result[s]) + 1
    BY <2>1, <2>3 DEF Tried
  <2>5. PICK d \in Bucket, l \in Slot :
          /\ ~Fresh(s, d, l) /\ Fresh(s, d, l)' /\ table'[s][d][l].off = Current(s)
          /\ \A b \in Bucket, i \in Slot :
               ~(b = d /\ i = l) => /\ Fresh(s, b, i)' <=> Fresh(s, b, i)
                                   /\ table'[s][b][i] = table[s][b][i]
    BY <1>2, SlotTaken
  <2>6. ASSUME NEW off \in Offset
        PROVE  HasSlot(s, off)' <=> off < Tried(s)' /\ result'[s][off + 1]
    <3>1. off \in Nat
      BY OffsetIsNat
    <3>2. HasSlot(s, off)' <=> HasSlot(s, off) \/ off = Len(result[s])
      BY <2>2, <2>5 DEF HasSlot
    <3>3. HasSlot(s, off) <=> off < Len(result[s]) /\ result[s][off + 1]
      BY <2>4 DEF AnswersAt
    <3>4. CASE off < Len(result[s])
      <4>1. result'[s][off + 1] = result[s][off + 1]
        BY <2>2, <2>3, <3>1, <3>4
      <4>2. off # Len(result[s]) /\ off < Tried(s)'
        BY <2>2, <2>4, <3>1, <3>4
      <4>3. QED
        BY <3>2, <3>3, <3>4, <4>1, <4>2
    <3>5. CASE off = Len(result[s])
      <4>1. result'[s][off + 1] = TRUE /\ off < Tried(s)'
        BY <2>2, <2>3, <2>4, <3>5
      <4>2. QED
        BY <3>2, <3>5, <4>1
    <3>6. CASE off > Len(result[s])
      <4>1. off # Len(result[s]) /\ ~(off < Tried(s)') /\ ~(off < Len(result[s]))
        BY <2>2, <2>4, <3>1, <3>6
      <4>2. QED
        BY <3>2, <3>3, <4>1
    <3>7. QED
      BY <2>2, <3>1, <3>4, <3>5, <3>6
  <2>7. ASSUME NEW b \in Bucket, NEW c \in Bucket, NEW i \in Slot, NEW j \in Slot,
               Fresh(s, b, i)', Fresh(s, c, j)',
               table'[s][b][i].off = table'[s][c][j].off
        PROVE  b = c /\ i = j
    <3>1. ASSUME NEW e \in Bucket, NEW m \in Slot, Fresh(s, e, m)'
          PROVE  (e = d /\ m = l) <=> table'[s][e][m].off = Current(s)
      <4>1. ASSUME ~(e = d /\ m = l) PROVE table'[s][e][m].off # Current(s)
        <5>1. Fresh(s, e, m) /\ table'[s][e][m] = table[s][e][m]
          BY <2>5, <3>1, <4>1
        <5>2. table[s][e][m].off \in Offset
          BY <5>1 DEF Fresh, RestartInv, SlotInv, SlotAt
        <5>3. HasSlot(s, table[s][e][m].off)
          BY <5>1 DEF HasSlot
        <5>4. table[s][e][m].off < Len(result[s])
          BY <2>4, <5>2, <5>3 DEF AnswersAt
        <5>5. QED
          BY <2>2, <5>1, <5>2, <5>4, OffsetIsNat
      <4>2. QED
        BY <2>5, <4>1
    <3>2. CASE b = d /\ i = l
      BY <2>7, <3>1, <3>2
    <3>3. CASE c = d /\ j = l
      BY <2>7, <3>1, <3>3
    <3>4. CASE ~(b = d /\ i = l) /\ ~(c = d /\ j = l)
      BY <2>5, <2>7, <3>4 DEF AnswersAt
    <3>5. QED
      BY <3>2, <3>3, <3>4
  <2>8. QED
    BY <2>6, <2>7 DEF AnswersAt
<1>3. CASE Crash
  BY <1>3, AnswersCrash
<1>4. CASE ~StartNew /\ ~WriteSignature(s) /\ ~Crash
  <2>1. Undisturbed(s) /\ SameUsed(s) /\ SameAnswers(s)
    BY <1>4, StepUndisturbed, AnswersKept
  <2>2. stale' = stale
    <3>1. Engine => stale' = stale
      BY EngineIsNext
    <3>2. ASSUME \/ BeginSave \/ EndSave \/ StartRestore \/ StartTorn \/ JoinAll
                 \/ \E r \in Server : WriteAddress(r) \/ Rebuild(r)
                 \/ UNCHANGED rvars
          PROVE  stale' = stale
      BY <3>2 DEF BeginSave, EndSave, StartRestore, StartTorn, JoinAll,
                  WriteAddress, Rebuild, rvars
    <3>3. QED
      BY <1>4, <3>1, <3>2 DEF RestartNext, Engine
  <2>3. /\ \A b \in Bucket, i \in Slot :
             /\ Fresh(s, b, i)' <=> Fresh(s, b, i)
             /\ Fresh(s, b, i) => table'[s][b][i] = table[s][b][i]
        /\ \A off : HasSlot(s, off)' <=> HasSlot(s, off)
    BY <2>1, <2>2, SlotsFixed
  <2>4. ASSUME NEW off \in Offset
        PROVE  HasSlot(s, off)' <=> off < Tried(s)' /\ result'[s][off + 1]
    <3>1. HasSlot(s, off) <=> off < Tried(s) /\ result[s][off + 1]
      BY DEF AnswersAt
    <3>2. off < Tried(s)' /\ result'[s][off + 1]
            <=> off < Tried(s) /\ result[s][off + 1]
      BY <2>1 DEF SameAnswers
    <3>3. QED
      BY <2>3, <3>1, <3>2
  <2>5. ASSUME NEW b \in Bucket, NEW c \in Bucket, NEW i \in Slot, NEW j \in Slot,
               Fresh(s, b, i)', Fresh(s, c, j)',
               table'[s][b][i].off = table'[s][c][j].off
        PROVE  b = c /\ i = j
    BY <2>3, <2>5 DEF AnswersAt
  <2>6. QED
    BY <2>4, <2>5 DEF AnswersAt
<1>5. QED
  BY <1>1, <1>2, <1>3, <1>4

-----------------------------------------------------------------------------
(* The tree.                                                               *)

(* The parts of the state that the sessions' invariants depend on.         *)
SameSession(s) ==
  /\ result'[s] = result[s] /\ log'[s] = log[s] /\ queue'[s] = queue[s]
  /\ pc'[s] = pc[s] /\ meta'.off[s] = meta.off[s] /\ stale'[s] = stale[s]
  /\ restored'[s] = restored[s] /\ indexed'[s] = indexed[s]
  /\ s \in Drained => worker'[s] = worker[s]

LEMMA SessionFrame ==
  ASSUME NEW s \in Server, SessionAt(s), SameSession(s)
  PROVE  SessionAt(s)'
<1>1. /\ log'[s] = log[s] /\ queue'[s] = queue[s]
      /\ pc'[s] = "idle" <=> pc[s] = "idle"
      /\ s \in Drained => worker'[s] = worker[s]
  BY DEF SameSession
<1>2. QueueAt(s)' /\ Indexed(s)' = Indexed(s)
  BY <1>1, QueueFrame DEF SessionAt
<1>3. SoundAt(s)'
  BY DEF SessionAt, SoundAt, Sound, SameSession
<1>4. IndexedAt(s)' /\ meta'.off[s] <= Indexed(s)'
  BY <1>2 DEF SessionAt, IndexedAt, SameSession
<1>5. QED
  BY <1>2, <1>3, <1>4 DEF SessionAt

(* The backend inserts a record of its own log, or another thread steps.   *)
LEMMA EngineEntry ==
  ASSUME RestartInv, Engine, NEW s \in Server, indexed = [r \in Server |-> indexed[r]]
  PROVE  /\ indexed' = [r \in Server |-> indexed'[r]]
         /\ IF s \in Drained /\ IndexTask(s)
            THEN indexed'[s] = Append(indexed[s], <<worker[s], log[s][worker[s] + 1]>>)
            ELSE indexed'[s] = indexed[s]
<1>1. worker \in [Backend -> Offset \cup {None}]
  BY DEF RestartInv, ShapeOK, TypeOK
<1>2. s \in Drained /\ IndexTask(s) => /\ s \in Backend /\ worker[s] # None
                                       /\ worker'[s] = None
  BY <1>1 DEF IndexTask, Drained
<1>3. ASSUME \/ \E r \in Server, k \in Key : Put(r, k)
             \/ \E r \in Server : WriteSignature(r) \/ GoOn(r)
      PROVE  indexed' = indexed /\ worker' = worker
  BY <1>3 DEF Put, AppendLog, WriteSignature, GoOn, HashInsert, HashFull, SeeRoom,
              PushTask
<1>4. ASSUME NEW b \in Drained, PopTask(b), indexed' = indexed
      PROVE  /\ indexed' = indexed /\ ~(s \in Drained /\ IndexTask(s))
  <2>1. /\ worker[b] = None /\ worker' = [worker EXCEPT ![b] = Head(queue[b])]
    BY <1>4 DEF PopTask
  <2>2. s # b /\ s \in Backend => worker'[s] = worker[s]
    BY <1>1, <2>1
  <2>3. QED
    BY <1>2, <1>4, <2>1, <2>2
<1>5. ASSUME NEW b \in Drained, IndexTask(b),
             indexed' = [indexed EXCEPT ![b] =
                           Append(@, <<worker[b], log[b][worker[b] + 1]>>)]
      PROVE  /\ indexed' = [r \in Server |-> indexed'[r]]
             /\ s = b => indexed'[s] = Append(indexed[s], <<worker[s], log[s][worker[s] + 1]>>)
             /\ s # b => indexed'[s] = indexed[s] /\ ~(s \in Drained /\ IndexTask(s))
  <2>1. b \in Server /\ b \in Backend
    BY DEF Drained
  <2>2. worker[b] # None /\ worker' = [worker EXCEPT ![b] = None]
    BY <1>5 DEF IndexTask
  <2>3. s # b /\ s \in Backend => worker'[s] = worker[s]
    BY <1>1, <2>2
  <2>4. QED
    BY <1>2, <1>5, <2>1, <2>3
<1>6. ASSUME NEW b \in Drained, Background(b)
      PROVE  \/ PopTask(b) /\ indexed' = indexed
             \/ /\ IndexTask(b)
                /\ indexed' = [indexed EXCEPT ![b] =
                                 Append(@, <<worker[b], log[b][worker[b] + 1]>>)]
  BY <1>6 DEF Background
<1>7. CASE \/ \E r \in Server, k \in Key : Put(r, k)
           \/ \E r \in Server : WriteSignature(r) \/ GoOn(r)
  BY <1>2, <1>3, <1>7
<1>8. ASSUME NEW b \in Drained, Background(b)
      PROVE  /\ indexed' = [r \in Server |-> indexed'[r]]
             /\ IF s \in Drained /\ IndexTask(s)
                THEN indexed'[s] = Append(indexed[s], <<worker[s], log[s][worker[s] + 1]>>)
                ELSE indexed'[s] = indexed[s]
  <2>1. CASE PopTask(b) /\ indexed' = indexed
    BY <1>4, <2>1
  <2>2. CASE ~(PopTask(b) /\ indexed' = indexed)
    <3>1. /\ IndexTask(b)
          /\ indexed' = [indexed EXCEPT ![b] =
                           Append(@, <<worker[b], log[b][worker[b] + 1]>>)]
      BY <1>6, <1>8, <2>2
    <3>2. QED
      BY <1>5, <3>1
  <2>3. QED
    BY <2>1, <2>2
<1>9. QED
  BY <1>7, <1>8 DEF Engine

(* Logs and answers of a running engine only grow.                         *)
LEMMA EngineGrows ==
  ASSUME RestartInv, Engine, NEW s \in Server
  PROVE  /\ \A n \in 1 .. Len(result[s]) : result'[s][n] = result[s][n]
         /\ \A n \in 1 .. Len(log[s]) : log'[s][n] = log[s][n]
<1>1. Next /\ TypeInv
  BY EngineIsNext DEF RestartInv, ShapeOK, LifeInv, TypeInv
<1>2. /\ result \in [Server -> Seq(BOOLEAN)] /\ log \in [Server -> Seq(Key)]
      /\ result[s] \in Seq(BOOLEAN) /\ log[s] \in Seq(Key)
  BY <1>1 DEF TypeInv, TypeOK
<1>3. ASSUME NEW r \in Server, HashInsert(r)
      PROVE  /\ result'[s] = IF r = s THEN Append(result[s], TRUE) ELSE result[s]
             /\ log' = log
  BY <1>2, <1>3 DEF HashInsert
<1>4. ASSUME NEW r \in Server, HashFull(r)
      PROVE  /\ result'[s] = IF r = s THEN Append(result[s], FALSE) ELSE result[s]
             /\ log' = log
  BY <1>2, <1>4 DEF HashFull
<1>5. ASSUME NEW r \in Server, NEW k \in Key, AppendLog(r, k)
      PROVE  /\ log'[s] = IF r = s THEN Append(log[s], k) ELSE log[s]
             /\ result' = result
  BY <1>2, <1>5 DEF AppendLog
<1>6. ASSUME \/ \E r \in Server : SeeRoom(r) \/ PushTask(r)
             \/ \E b \in Drained : BackendStep(b)
      PROVE  result' = result /\ log' = log
  BY <1>6 DEF SeeRoom, PushTask, BackendStep, PopTask, IndexTask
<1>7. \/ result'[s] = result[s]
      \/ \E v \in BOOLEAN : result'[s] = Append(result[s], v)
  BY <1>1, <1>3, <1>4, <1>5, <1>6 DEF Next, ServerStep
<1>8. log'[s] = log[s] \/ \E k \in Key : log'[s] = Append(log[s], k)
  BY <1>1, <1>3, <1>4, <1>5, <1>6 DEF Next, ServerStep
<1>9. \A n \in 1 .. Len(result[s]) : result'[s][n] = result[s][n]
  <2>1. CASE result'[s] = result[s]
    BY <2>1
  <2>2. CASE result'[s] # result[s]
    <3>1. PICK v \in BOOLEAN : result'[s] = Append(result[s], v)
      BY <1>7, <2>2
    <3>2. \A n \in 1 .. Len(result[s]) : Append(result[s], v)[n] = result[s][n]
      BY ZenonT(60), <1>2, Answered
    <3>3. QED
      BY ZenonT(60), <3>1, <3>2
  <2>3. QED
    BY <2>1, <2>2
<1>10. \A n \in 1 .. Len(log[s]) : log'[s][n] = log[s][n]
  BY <1>2, <1>8, AppendProperties
<1>11. QED
  BY <1>9, <1>10

(* A step of the running engine.                                           *)
LEMMA EngineSession ==
  ASSUME RestartInv, Engine, NEW s \in Server, SessionAt(s),
         indexed = [r \in Server |-> indexed[r]]
  PROVE  SessionAt(s)'
<1>1. /\ Running /\ Next /\ TypeInv /\ UNCHANGED <<meta, stale, restored>>
  BY EngineIsNext DEF RestartInv, ShapeOK, LifeInv, TypeInv
<1>2. /\ Indexed(s) \in Int /\ meta.off[s] \in Nat /\ Len(log[s]) \in Nat
      /\ meta.off[s] <= Len(result[s]) /\ Len(result[s]) \in Nat
      /\ Len(result[s]) <= Len(log[s])
  BY <1>1, CountTypes, ResultTypes
<1>3. QueueAt(s)' /\ (SameTree(s) \/ OneMore(s))
  BY <1>1, QueueStep DEF SessionAt
<1>4. /\ \A n \in 1 .. Len(result[s]) : result'[s][n] = result[s][n]
      /\ \A n \in 1 .. Len(log[s]) : log'[s][n] = log[s][n]
  BY EngineGrows
<1>5. ASSUME NEW off \in Offset, off < meta.off[s]
      PROVE  result'[s][off + 1] = result[s][off + 1] /\ log'[s][off + 1] = log[s][off + 1]
  BY <1>2, <1>4, <1>5, OffsetIsNat
<1>6. SoundAt(s)'
  <2>1. Sound(s)' = Sound(s) /\ meta'.off[s] = meta.off[s]
    BY <1>1 DEF Sound
  <2>2. \A e \in Sound(s) : e.off \in Offset
    BY DEF Sound, RestartInv, ShapeOK, Entry
  <2>3. SoundAt(s)
    BY DEF SessionAt
  <2>4. QED
    BY <1>5, <2>1, <2>2, <2>3 DEF SoundAt
<1>7. Indexed(s) <= Len(log[s]) /\ (Busy(s) => Indexed(s) + 1 <= Len(log[s]))
  <2>1. /\ Len(queue[s]) \in Nat /\ Acked(s) \in Int /\ Popped(s) \in Int
    BY <1>1, CountTypes
  <2>2. Acked(s) <= Len(log[s])
    BY <1>2 DEF Acked
  <2>3. Popped(s) <= Len(log[s])
    BY <1>2, <2>1, <2>2 DEF Popped
  <2>4. QED
    BY <1>2, <2>1, <2>3 DEF Indexed
<1>8. CASE s \in Drained /\ IndexTask(s)
  <2>1. Busy(s) /\ worker[s] = Indexed(s) /\ log' = log
    BY <1>8 DEF IndexTask, Busy, SessionAt, QueueAt
  <2>2. indexed'[s] = Append(indexed[s], <<Indexed(s), log[s][Indexed(s) + 1]>>)
    BY <1>8, <2>1, EngineEntry
  <2>3. Indexed(s)' = Indexed(s) + 1
    <3>1. ~Busy(s)'
      BY <1>1, <1>8 DEF IndexTask, Busy, Drained, TypeInv, TypeOK
    <3>2. Popped(s)' = Popped(s)
      BY <1>8 DEF IndexTask, Popped, Acked
    <3>3. Popped(s) \in Int
      BY <1>1, CountTypes
    <3>4. QED
      BY <2>1, <3>1, <3>2, <3>3 DEF Indexed
  <2>4. Indexed(s) \in Offset /\ log[s][Indexed(s) + 1] \in Key
    <3>1. worker[s] \in Offset
      BY <1>1, <1>8 DEF IndexTask, Drained, TypeInv, TypeOK
    <3>2. Indexed(s) + 1 \in 1 .. Len(log[s])
      BY <1>2, <1>7, <2>1, <3>1, OffsetIsNat
    <3>3. log[s] \in Seq(Key)
      BY <1>1 DEF TypeInv, TypeOK
    <3>4. QED
      BY <2>1, <3>1, <3>2, <3>3, ElementOfSeq
  <2>5. PICK x \in Offset \X Key : x = <<Indexed(s), log[s][Indexed(s) + 1]>>
    BY <2>4
  <2>6. /\ indexed[s] \in Seq(Offset \X Key) /\ Len(indexed[s]) \in Nat
        /\ Len(indexed[s]) = Indexed(s) - meta.off[s]
        /\ \A i \in 1 .. Len(indexed[s]) :
             indexed[s][i] = <<meta.off[s] + i - 1, log[s][meta.off[s] + i]>>
    BY LenProperties DEF SessionAt, IndexedAt
  <2>7. /\ indexed'[s] \in Seq(Offset \X Key)
        /\ Len(indexed'[s]) = Len(indexed[s]) + 1
        /\ indexed'[s][Len(indexed[s]) + 1] = x
        /\ \A i \in 1 .. Len(indexed[s]) : indexed'[s][i] = indexed[s][i]
    <3> DEFINE S == Offset \X Key
    <3>1. indexed[s] \in Seq(S) /\ x \in S /\ indexed'[s] = Append(indexed[s], x)
      BY <2>2, <2>5, <2>6
    <3>2. /\ Append(indexed[s], x) \in Seq(S)
          /\ Len(Append(indexed[s], x)) = Len(indexed[s]) + 1
          /\ Append(indexed[s], x)[Len(indexed[s]) + 1] = x
          /\ \A i \in 1 .. Len(indexed[s]) : Append(indexed[s], x)[i] = indexed[s][i]
      <4> HIDE DEF S
      <4> QED
        BY <3>1, AppendProperties
    <3>3. QED
      BY <3>1, <3>2
  <2>8. ASSUME NEW i \in 1 .. Len(indexed'[s])
        PROVE  indexed'[s][i] = <<meta.off[s] + i - 1, log[s][meta.off[s] + i]>>
    <3>1. CASE i = Len(indexed[s]) + 1
      <4>1. meta.off[s] + i - 1 = Indexed(s) /\ meta.off[s] + i = Indexed(s) + 1
        <5>1. /\ Len(indexed[s]) \in Nat /\ Len(indexed[s]) = Indexed(s) - meta.off[s]
              /\ Indexed(s) \in Int /\ meta.off[s] \in Nat
          BY <1>2, <2>6
        <5>2. QED
          BY <3>1, <5>1
      <4>2. indexed'[s][i] = <<Indexed(s), log[s][Indexed(s) + 1]>>
        BY <2>5, <2>7, <3>1
      <4>3. QED
        BY <4>1, <4>2
    <3>2. CASE i # Len(indexed[s]) + 1
      <4>1. i \in 1 .. Len(indexed[s])
        BY <2>6, <2>7, <3>2
      <4>2. QED
        BY <2>6, <2>7, <4>1
    <3>3. QED
      BY <3>1, <3>2
  <2>9. IndexedAt(s)' /\ meta'.off[s] <= Indexed(s)'
    <3>1. meta' = meta /\ log' = log /\ meta.off[s] <= Indexed(s)
      BY <1>1, <2>1 DEF SessionAt
    <3>2. Len(indexed'[s]) = Indexed(s)' - meta'.off[s]
      BY <1>2, <2>3, <2>6, <2>7, <3>1
    <3>3. meta'.off[s] <= Indexed(s)'
      BY <1>2, <2>3, <3>1
    <3>4. \A i \in 1 .. Len(indexed'[s]) :
            indexed'[s][i] = <<meta'.off[s] + i - 1, log'[s][meta'.off[s] + i]>>
      BY <2>8, <3>1
    <3>5. QED
      BY <2>7, <3>2, <3>3, <3>4 DEF IndexedAt
  <2>10. QED
    BY <1>3, <1>6, <2>9 DEF SessionAt
<1>9. CASE ~(s \in Drained /\ IndexTask(s))
  <2>1. indexed'[s] = indexed[s]
    BY <1>9, EngineEntry
  <2>2. Indexed(s)' = Indexed(s)
    BY <1>3, <1>9 DEF SameTree, OneMore
  <2>3. /\ indexed[s] \in Seq(Offset \X Key) /\ Len(indexed[s]) \in Nat
        /\ Len(indexed[s]) = Indexed(s) - meta.off[s]
        /\ \A i \in 1 .. Len(indexed[s]) :
             indexed[s][i] = <<meta.off[s] + i - 1, log[s][meta.off[s] + i]>>
    BY LenProperties DEF SessionAt, IndexedAt
  <2>4. ASSUME NEW i \in 1 .. Len(indexed[s])
        PROVE  log'[s][meta.off[s] + i] = log[s][meta.off[s] + i]
    <3>1. meta.off[s] + i \in 1 .. Len(log[s])
      BY <1>2, <1>7, <2>3
    <3>2. QED
      BY <1>4, <3>1
  <2>5. IndexedAt(s)' /\ meta'.off[s] <= Indexed(s)'
    BY <1>1, <2>1, <2>2, <2>3, <2>4 DEF IndexedAt, SessionAt
  <2>6. QED
    BY <1>3, <1>6, <2>5 DEF SessionAt
<1>10. QED
  BY <1>8, <1>9

(* The end of restore: every partition's slots are in the tree.            *)
LEMMA JoinSession ==
  ASSUME RestartInv, NEW s \in Server, JoinAll, TreeAt(s)
  PROVE  SessionAt(s)'
<1>1. /\ Running /\ s \in rebuilt /\ life = "restoring" /\ ~InSession
      /\ UNCHANGED <<log, result, pc, queue, worker, meta, stale, restored, indexed>>
  BY DEF JoinAll, store, Running, InSession
<1>2. /\ AnswersAt(s) /\ RebuildingAt(s) /\ RestoredAt(s) /\ RestAt(s) /\ pc[s] = "idle"
      /\ s \in Drained => worker[s] = None
  BY <1>1 DEF TreeAt, RebuildingAt, RestAt, RestartInv, LifeInv
<1>3. /\ meta.off[s] \in Nat /\ Len(result[s]) = meta.off[s]
      /\ Tried(s) = meta.off[s] /\ Len(log[s]) = meta.off[s]
  BY <1>1, <1>2, ResultTypes DEF RebuildingAt, Tried
<1>4. ~Busy(s) /\ Indexed(s) = meta.off[s] /\ Len(queue[s]) = 0
  BY <1>2, <1>3 DEF Busy, Indexed, Popped, Acked, RebuildingAt
<1>5. QueueAt(s)
  BY <1>4 DEF QueueAt
<1>6. ASSUME NEW e \in Sound(s)
      PROVE  \E b \in Bucket, i \in Slot :
               /\ Fresh(s, b, i) /\ e.slot = <<b, i>> /\ e.off = table[s][b][i].off
               /\ e.off \in Offset /\ e.off < meta.off[s] /\ result[s][e.off + 1]
               /\ e.key = log[s][e.off + 1] /\ e \in Entry
  <2>1. PICK b \in Bucket, i \in Slot :
          /\ Used(s, b, i) /\ e.slot = <<b, i>>
          /\ e.off = table[s][b][i].off /\ e.key = pool[s][e.off + 1]
    BY <1>2 DEF Sound, RestoredAt
  <2>2. Fresh(s, b, i) /\ e.off \in Offset /\ e \in Entry
    <3>1. e \in restored[s] /\ e.slot \notin stale[s]
      BY DEF Sound
    <3>2. restored[s] \subseteq Entry
      BY DEF RestartInv, ShapeOK
    <3>3. e \in Entry
      BY <3>1, <3>2
    <3>4. e.off \in Offset
      BY <3>3 DEF Entry
    <3>5. QED
      BY <2>1, <3>1, <3>3, <3>4 DEF Fresh
  <2>3. e.off < meta.off[s] /\ result[s][e.off + 1]
    BY <1>2, <1>3, <2>1, <2>2 DEF AnswersAt, HasSlot
  <2>4. e.off + 1 \in 1 .. Len(log[s])
    <3>1. e.off \in Nat /\ e.off < meta.off[s]
      BY <2>2, <2>3, OffsetIsNat
    <3>2. QED
      BY <1>3, <3>1
  <2>5. log[s][e.off + 1] = pool[s][e.off + 1]
    BY <2>4 DEF RestartInv, PoolInv, PoolAt
  <2>6. QED
    BY <2>1, <2>2, <2>3, <2>5
<1>7. SoundAt(s)
  <2>1. ASSUME NEW e \in Sound(s), NEW f \in Sound(s), f.off = e.off
        PROVE  f = e
    <3>1. PICK b \in Bucket, i \in Slot :
            /\ Fresh(s, b, i) /\ e.slot = <<b, i>> /\ e.off = table[s][b][i].off
            /\ e.key = log[s][e.off + 1] /\ e \in Entry
      BY <1>6
    <3>2. PICK c \in Bucket, j \in Slot :
            /\ Fresh(s, c, j) /\ f.slot = <<c, j>> /\ f.off = table[s][c][j].off
            /\ f.key = log[s][f.off + 1] /\ f \in Entry
      BY <1>6
    <3>3. b = c /\ i = j
      BY <1>2, <2>1, <3>1, <3>2 DEF AnswersAt
    <3>4. e.slot = f.slot /\ e.off = f.off /\ e.key = f.key
      BY <2>1, <3>1, <3>2, <3>3
    <3>5. QED
      BY <3>1, <3>2, <3>4 DEF Entry
  <2>2. ASSUME NEW off \in Offset, off < meta.off[s], result[s][off + 1]
        PROVE  \E e \in Sound(s) : e.off = off
    <3>1. HasSlot(s, off)
      BY <1>2, <1>3, <2>2 DEF AnswersAt
    <3>2. PICK b \in Bucket, i \in Slot : Fresh(s, b, i) /\ table[s][b][i].off = off
      BY <3>1 DEF HasSlot
    <3>3. PICK e \in restored[s] : e.slot = <<b, i>>
      BY <1>2, <3>2 DEF RestoredAt, Fresh
    <3>4. e \in Sound(s)
      BY <3>2, <3>3 DEF Sound, Fresh
    <3>5. e.off = off
      BY <1>6, <3>2, <3>3, <3>4
    <3>6. QED
      BY <3>4, <3>5
  <2>3. QED
    BY <1>6, <2>1, <2>2 DEF SoundAt
<1>8. IndexedAt(s)
  BY <1>2, <1>3, <1>4, EmptySeq DEF RestAt, IndexedAt
<1>9. SessionAt(s)
  BY <1>3, <1>4, <1>5, <1>7, <1>8 DEF SessionAt
<1>10. SameSession(s)
  BY <1>1 DEF SameSession
<1>11. QED
  BY <1>9, <1>10, SessionFrame

(* A new store begins with nothing saved.                                  *)
LEMMA NewSession ==
  ASSUME RestartInv, NEW s \in Server, StartNew, TreeAt(s)
  PROVE  SessionAt(s)'
<1>1. /\ ~Running /\ life = "off" /\ ~InSession /\ meta.off[s] = 0 /\ log[s] = << >>
      /\ queue[s] = << >> /\ pc[s] = "idle"
      /\ UNCHANGED <<log, pc, queue, worker, meta, restored, indexed>>
  BY DEF StartNew, Running, InSession, RestartInv, LifeInv
<1>2. (s \in Drained => worker[s] = None) /\ restored[s] = {} /\ indexed[s] = << >>
  BY <1>1 DEF TreeAt, RestAt
<1>3. ~Busy(s)' /\ Indexed(s)' = 0 /\ Len(queue'[s]) = 0
  BY <1>1, <1>2 DEF Busy, Indexed, Popped, Acked
<1>4. SoundAt(s)'
  <2>1. \A off \in Offset : ~(off < 0)
    BY OffsetIsNat
  <2>2. QED
    BY <1>1, <1>2, <2>1 DEF SoundAt, Sound
<1>5. IndexedAt(s)'
  BY <1>1, <1>2, <1>3, EmptySeq DEF IndexedAt
<1>6. QED
  BY <1>1, <1>3, <1>4, <1>5 DEF SessionAt, QueueAt

LEMMA TreeStep == RestartInv /\ TreeInv /\ [RestartNext]_rvars => TreeInv'
<1> SUFFICES ASSUME RestartInv, TreeInv, [RestartNext]_rvars PROVE TreeInv'
  OBVIOUS
<1>0. indexed' = [r \in Server |-> indexed'[r]]
  <2>1. indexed = [r \in Server |-> indexed[r]]
    BY DEF TreeInv
  <2>2. CASE Engine
    <3>1. CASE Server = {}
      <4>1. ~Engine
        BY <3>1 DEF Engine, Drained
      <4>2. QED
        BY <2>2, <4>1
    <3>2. CASE Server # {}
      BY <2>1, <2>2, <3>2, EngineEntry
    <3>3. QED
      BY <3>1, <3>2
  <2>3. CASE EndSave \/ Crash
    BY <2>3 DEF EndSave, Crash, Forget
  <2>4. ASSUME \/ BeginSave \/ StartNew \/ StartRestore \/ StartTorn \/ JoinAll
               \/ \E r \in Server : WriteAddress(r) \/ Rebuild(r)
               \/ UNCHANGED rvars
        PROVE  indexed' = indexed
    BY <2>4 DEF BeginSave, StartNew, StartRestore, StartTorn, JoinAll, WriteAddress,
                Rebuild, rvars
  <2>5. QED
    BY <2>1, <2>2, <2>3, <2>4 DEF RestartNext, Engine
<1> SUFFICES ASSUME NEW s \in Server PROVE TreeAt(s)'
  BY <1>0 DEF TreeInv
<1>1. TreeAt(s) /\ AnswersAt(s)'
  BY AnswersStep DEF TreeInv, TreeAt
<1>2. CASE Engine
  <2>1. InSession /\ life' = life
    BY <1>2 DEF Engine, Put, WriteSignature, GoOn, Background, InSession
  <2>2. InSession' /\ life' # "restoring"
    BY <2>1 DEF InSession
  <2>3. QED
    BY <1>1, <1>2, <2>1, <2>2, EngineSession DEF TreeAt, TreeInv
<1>3. CASE BeginSave \/ \E r \in Server : WriteAddress(r)
  <2>1. InSession /\ InSession' /\ life' # "restoring" /\ SameSession(s)
    BY <1>3 DEF BeginSave, WriteAddress, store, SameSession, RestartInv,
                ShapeOK, InSession
  <2>2. QED
    BY <1>1, <2>1, SessionFrame DEF TreeAt
<1>4. CASE EndSave \/ Crash
  <2>1. life' = "off" /\ Forget
    BY <1>4 DEF EndSave, Crash
  <2>2. RestAt(s)'
    BY <2>1 DEF Forget, RestAt, Drained
  <2>3. ~InSession'
    BY <2>1 DEF InSession
  <2>4. QED
    BY <1>1, <2>1, <2>2, <2>3 DEF TreeAt
<1>5. CASE StartNew
  <2>1. life' = "up" /\ InSession'
    BY <1>5 DEF StartNew, InSession
  <2>2. QED
    BY <1>1, <1>5, <2>1, NewSession DEF TreeAt
<1>6. CASE StartRestore
  <2>1. /\ life = "off" /\ ~Running /\ life' = "restoring" /\ Running'
        /\ ~InSession /\ ~InSession'
        /\ UNCHANGED <<worker, rebuilt, restored, indexed, queue, meta>>
        /\ queue[s] = << >>
    BY <1>6 DEF StartRestore, Running, InSession, RestartInv, LifeInv
  <2>2. RestAt(s)
    BY <1>1, <2>1 DEF TreeAt
  <2>3. Len(log'[s]) = meta.off[s]
    <3>1. /\ meta.off[s] \in 0 .. MaxLog /\ PoolAt(s)
      BY DEF RestartInv, ShapeOK, PoolInv
    <3>2. \A n \in 1 .. meta.off[s] : pool[s][n] \in Key
      BY <3>1 DEF PoolAt
    <3>3. log'[s] = SubSeq(pool[s], 1, meta.off[s])
      BY <1>6 DEF StartRestore
    <3>4. QED
      BY <3>1, <3>2, <3>3, SubSeqProperties, SizeAssumption
  <2>4. RestAt(s)' /\ RebuildingAt(s)'
    BY <2>1, <2>2, <2>3 DEF RestAt, RebuildingAt
  <2>5. QED
    BY <1>1, <2>1, <2>4 DEF TreeAt
<1>7. ASSUME NEW r \in Server, Rebuild(r) PROVE TreeAt(s)'
  <2>1. /\ life = "restoring" /\ life' = life /\ Running /\ Running'
        /\ ~InSession /\ ~InSession'
        /\ UNCHANGED <<log, table, queue, worker, pool, meta, indexed, stale>>
        /\ s \in rebuilt' <=> s \in rebuilt \/ s = r
    BY <1>7 DEF Rebuild, Running, InSession
  <2>2. RestAt(s) /\ RebuildingAt(s)
    BY <1>1, <2>1 DEF TreeAt
  <2>3. CASE s # r
    <3>1. restored'[s] = restored[s]
      BY <1>7, <2>3 DEF Rebuild, RestartInv, ShapeOK
    <3>2. RebuildingAt(s)'
      BY <2>1, <2>2, <2>3, <3>1 DEF RebuildingAt, RestoredAt, Used
    <3>3. QED
      BY <1>1, <2>1, <2>2, <3>2 DEF TreeAt, RestAt
  <2>4. CASE s = r
    <3> DEFINE used == {bi \in Bucket \X Slot : Used(s, bi[1], bi[2])}
               Off(bi) == table[s][bi[1]][bi[2]].off
               Ent(bi) == [slot |-> bi, off |-> Off(bi), key |-> pool[s][Off(bi) + 1]]
    <3>1. restored'[s] = {Ent(bi) : bi \in used}
      BY <1>7, <2>4 DEF Rebuild, RestartInv, ShapeOK
    <3>2. ASSUME NEW e \in restored'[s]
          PROVE  \E b \in Bucket, i \in Slot :
                   /\ Used(s, b, i) /\ e.slot = <<b, i>>
                   /\ e.off = table[s][b][i].off /\ e.key = pool[s][e.off + 1]
      <4>1. PICK bi \in used : e = Ent(bi)
        BY <3>1
      <4>2. PICK b \in Bucket, i \in Slot : bi = <<b, i>> /\ Used(s, b, i)
        BY <4>1
      <4>3. e.slot = <<b, i>> /\ e.off = table[s][b][i].off
            /\ e.key = pool[s][table[s][b][i].off + 1]
        BY <4>1, <4>2
      <4>4. QED
        BY <4>2, <4>3
    <3>3. ASSUME NEW b \in Bucket, NEW i \in Slot, Used(s, b, i)
          PROVE  \E e \in restored'[s] : e.slot = <<b, i>>
      <4>1. <<b, i>> \in used
        BY <3>3
      <4>2. Ent(<<b, i>>) \in restored'[s] /\ Ent(<<b, i>>).slot = <<b, i>>
        BY <3>1, <4>1
      <4>3. QED
        BY <4>2
    <3>4. RestoredAt(s)'
      BY <2>1, <3>2, <3>3 DEF RestoredAt, Used
    <3>5. RebuildingAt(s)'
      BY <2>1, <2>2, <3>4 DEF RebuildingAt
    <3>6. QED
      BY <1>1, <2>1, <2>2, <3>5 DEF TreeAt, RestAt
  <2>5. QED
    BY <2>3, <2>4
<1>8. CASE JoinAll
  <2>1. life' = "up" /\ InSession'
    BY <1>8 DEF JoinAll, InSession
  <2>2. QED
    BY <1>1, <1>8, <2>1, JoinSession DEF TreeAt
<1>9. CASE StartTorn
  <2>1. /\ life = "off" /\ life' = "ruined" /\ ~Running /\ ~Running'
        /\ ~InSession /\ ~InSession'
        /\ UNCHANGED <<worker, rebuilt, restored, indexed>>
    BY <1>9 DEF StartTorn, store, Running, InSession
  <2>2. QED
    BY <1>1, <2>1 DEF TreeAt, RestAt
<1>10. CASE UNCHANGED rvars
  <2>1. /\ life' = life /\ (InSession' <=> InSession) /\ SameSession(s)
        /\ UNCHANGED <<table, pool, rebuilt>> /\ (Running' <=> Running)
    BY <1>10 DEF rvars, InSession, SameSession, Running
  <2>2. InSession => SessionAt(s)'
    BY <1>1, <2>1, SessionFrame DEF TreeAt
  <2>3. RestAt(s) => RestAt(s)'
    BY <2>1 DEF RestAt, SameSession
  <2>4. RebuildingAt(s) => RebuildingAt(s)'
    BY <2>1 DEF RebuildingAt, RestoredAt, SameSession, Used
  <2>5. QED
    BY <1>1, <2>1, <2>2, <2>3, <2>4 DEF TreeAt
<1>11. QED
  BY <1>2, <1>3, <1>4, <1>5, <1>6, <1>7, <1>8, <1>9, <1>10 DEF RestartNext, Engine

LEMMA TreeInvariant == RestartSpec => []TreeInv
<1>1. TreeInv /\ RestartInv /\ [RestartNext]_rvars => TreeInv'
  BY TreeStep
<1>2. QED
  BY <1>1, TreeInit, RestartInvariant, PTL DEF RestartSpec

(* Whatever sequence of saves, crashes and starts, every variable keeps    *)
(* its type: restore takes no record for a key that is none, and builds    *)
(* the tree from offsets of the log only (hikv.h restore).                 *)
THEOREM RestartTypeCorrect == RestartSpec => []RestartTypeOK
<1>1. RestartInv /\ TreeInv => RestartTypeOK
  <2> SUFFICES ASSUME RestartInv, TreeInv PROVE RestartTypeOK
    OBVIOUS
  <2>1. ASSUME NEW s \in Server PROVE indexed[s] \in Seq(Offset \X Key)
    BY EmptySeq DEF TreeInv, TreeAt, RestAt, SessionAt, IndexedAt
  <2>2. indexed \in [Server -> Seq(Offset \X Key)]
    BY <2>1 DEF TreeInv
  <2>3. QED
    BY <2>2 DEF RestartInv, ShapeOK, RestartTypeOK
<1>2. QED
  BY <1>1, TreeInvariant, RestartInvariant, PTL

(* After any number of restarts and crashes the tree has one entry, under  *)
(* its own key, of every saved record that the hash table had accepted,    *)
(* and otherwise only those of stale slots (hikv.h bt_restore_by_ht_ptn).  *)
THEOREM AcceptedAreScanned == RestartSpec => []ScansResumeAccepted
<1>1. TreeInv => ScansResumeAccepted
  BY DEF TreeInv, TreeAt, SessionAt, SoundAt, Sound, ScansResumeAccepted
<1>2. QED
  BY <1>1, TreeInvariant, PTL

(* And the records put since are inserted in the order of the puts, each   *)
(* once and under its own key, also where they replace lost ones           *)
(* (threadpool.cc worker_thread, hikv.h restore).                          *)
THEOREM SessionConserved == RestartSpec => []SessionInOrder
<1>1. TreeInv => SessionInOrder
  BY DEF TreeInv, TreeAt, SessionAt, QueueAt, IndexedAt, SessionInOrder
<1>2. QED
  BY <1>1, TreeInvariant, PTL

-----------------------------------------------------------------------------
(* The steps of a session, with the two writes of an insert taken as one.  *)

LEMMA TidyAt ==
  ASSUME NEW s \in Server, NEW b \in Bucket, NEW i \in Slot
  PROVE  Tidy[s][b][i] = IF table[s][b][i].sig # 0 THEN table[s][b][i]
                         ELSE [sig |-> 0, off |-> 0]
  BY DEF Tidy, Used

(* The instance's operators on tables are HiKV's own.                      *)
LEMMA SameSets ==
  /\ Atomic!Server = Server /\ Atomic!Backend = Backend /\ Atomic!Drained = Drained
  /\ Atomic!Probe = Probe /\ Atomic!None = None
  BY DEF Atomic!Server, Server, Atomic!Backend, Backend, Atomic!Drained, Drained,
         Atomic!Probe, Probe, Atomic!Slot, Slot, Atomic!Seed, Seed, Atomic!None, None

LEMMA SameProbes ==
  ASSUME NEW tab, NEW k, NEW p
  PROVE  /\ Atomic!Free(tab, k, p) <=> Free(tab, k, p)
         /\ Atomic!FirstFree(tab, k, p) <=> FirstFree(tab, k, p)
<1>1. \A q : Atomic!Free(tab, k, q) <=> Free(tab, k, q)
  BY DEF Atomic!Free, Free, Atomic!At, At, Atomic!BucketOf, BucketOf
<1>2. QED
  BY <1>1, SameSets DEF Atomic!FirstFree, FirstFree, Atomic!Before, Before

LEMMA SameFill ==
  ASSUME NEW tab, NEW k, NEW p, NEW off
  PROVE  Atomic!Fill(tab, k, p, off) = Fill(tab, k, p, off)
  BY DEF Atomic!Fill, Fill, Atomic!BucketOf, BucketOf

(* A slot is free in the tidy table when it is.                            *)
LEMMA TidyFree ==
  ASSUME NEW s \in Server, NEW k \in Key, NEW p \in Probe
  PROVE  /\ Free(Tidy[s], k, p) <=> Free(table[s], k, p)
         /\ FirstFree(Tidy[s], k, p) <=> FirstFree(table[s], k, p)
<1>1. ASSUME NEW q \in Probe PROVE Free(Tidy[s], k, q) <=> Free(table[s], k, q)
  <2>1. q[1] \in Slot /\ q[2] \in Seed
    BY DEF Probe
  <2>2. BucketOf(k, q[2]) \in Bucket
    BY <2>1, BucketOfType
  <2>3. (At(Tidy[s], k, q).sig = 0) <=> (At(table[s], k, q).sig = 0)
    BY <2>1, <2>2, TidyAt DEF At
  <2>4. QED
    BY <2>3 DEF Free
<1>2. QED
  BY <1>1 DEF FirstFree

(* The table seen by a step that leaves all signatures and used slots.     *)
LEMMA TidySame ==
  ASSUME \A r \in Server, b \in Bucket, i \in Slot :
           /\ table'[r][b][i].sig = table[r][b][i].sig
           /\ table[r][b][i].sig # 0 => table'[r][b][i] = table[r][b][i]
  PROVE  Tidy' = Tidy
  BY DEF Tidy, Used

LEMMA AddressIsNothing ==
  ASSUME RestartInv, NEW s \in Server, WriteAddress(s)
  PROVE  UNCHANGED (Atomic!vars)
<1>1. \A r \in Server : /\ UsedKept(table[r], table'[r])
                        /\ \A b \in Bucket, i \in Slot :
                             table'[r][b][i].sig = table[r][b][i].sig
  BY AddressTable
<1>2. Tidy' = Tidy
  BY <1>1, TidySame DEF UsedKept
<1>3. QED
  BY <1>2 DEF Atomic!vars, WriteAddress

LEMMA SignatureIsInsert ==
  ASSUME RestartInv, NEW s \in Server, HashInsert(s)
  PROVE  Atomic!HashInsert(s)
<1>0. PICK k \in Key : k = log[s][Len(log[s])]
  <2>1. log[s] \in Seq(Key) /\ Len(log[s]) > 0
    BY DEF HashInsert, RestartInv, ShapeOK, TypeOK, LifeInv, Running, Lengths
  <2>2. QED
    BY <2>1
<1>1. /\ pc[s] = "hash" /\ result' = [result EXCEPT ![s] = Append(@, TRUE)]
      /\ pc' = [pc EXCEPT ![s] = "room"] /\ UNCHANGED <<log, queue, worker, tree>>
  BY DEF HashInsert
<1>2. PICK p \in Probe : /\ FirstFree(table[s], k, p)
                         /\ table' = [table EXCEPT ![s] = Fill(@, k, p, Current(s))]
  BY <1>0 DEF HashInsert
<1>3. Tidy' = [Tidy EXCEPT ![s] = Fill(@, k, p, Current(s))]
  <2>1. PICK c \in Int : c = Current(s)
    <3>1. Len(log[s]) \in Nat
      BY LenProperties DEF RestartInv, ShapeOK, TypeOK
    <3>2. Current(s) \in Int
      BY <3>1 DEF Current
    <3>3. QED
      BY <3>2
  <2>2. table \in [Server -> Table]
    BY DEF RestartInv, ShapeOK, TypeOK, Table
  <2>3. \A r \in Server, b \in Bucket, i \in Slot :
          table'[r][b][i] = IF r = s /\ b = BucketOf(k, p[2]) /\ i = p[1]
                            THEN [sig |-> Hash[p[2]][k], off |-> c] ELSE table[r][b][i]
    <3>1. \A r \in Server : table'[r] = IF r = s THEN Fill(table[s], k, p, c) ELSE table[r]
      BY <1>2, <2>1, <2>2
    <3>2. \A b \in Bucket, i \in Slot :
            Fill(table[s], k, p, c)[b][i] =
              IF b = BucketOf(k, p[2]) /\ i = p[1]
              THEN [sig |-> Hash[p[2]][k], off |-> c] ELSE table[s][b][i]
      BY <2>2, FillAt DEF Table
    <3>3. QED
      BY <3>1, <3>2
  <2>4. Tidy \in [Server -> Table]
    <3>1. \A r \in Server, b \in Bucket, i \in Slot : table[r][b][i] \in SlotRecord
      BY <2>2 DEF Table
    <3>2. [sig |-> 0, off |-> 0] \in SlotRecord
      BY DEF SlotRecord
    <3>3. \A r \in Server, b \in Bucket, i \in Slot :
            (IF Used(r, b, i) THEN table[r][b][i] ELSE [sig |-> 0, off |-> 0]) \in SlotRecord
      BY <3>1, <3>2
    <3>4. QED
      BY <3>3 DEF Tidy, Table
  <2>5. PICK f : f = Fill(Tidy[s], k, p, c)
    OBVIOUS
  <2>6. f \in [Bucket -> [Slot -> SlotRecord]]
    BY <2>1, <2>4, <2>5, FillType DEF Table
  <2>7. \A b \in Bucket, i \in Slot :
          f[b][i] = IF b = BucketOf(k, p[2]) /\ i = p[1]
                    THEN [sig |-> Hash[p[2]][k], off |-> c] ELSE Tidy[s][b][i]
    BY <2>1, <2>4, <2>5, FillAt DEF Table
  <2>8. [sig |-> Hash[p[2]][k], off |-> c].sig # 0
    BY HashAssumption DEF Probe
  <2>9. PICK g : g = [Tidy EXCEPT ![s] = f]
    OBVIOUS
  <2>10. \A r \in Server, b \in Bucket, i \in Slot :
           g[r][b][i] = IF table'[r][b][i].sig # 0 THEN table'[r][b][i]
                        ELSE [sig |-> 0, off |-> 0]
    BY <2>3, <2>4, <2>7, <2>8, <2>9, TidyAt
  <2>11. g = [r \in Server |-> [b \in Bucket |-> [i \in Slot |-> g[r][b][i]]]]
    BY <2>4, <2>6, <2>9 DEF Table
  <2>12. Tidy' = g
    BY <2>10, <2>11 DEF Tidy, Used
  <2>13. QED
    BY <2>1, <2>5, <2>9, <2>12
<1>4. /\ Atomic!FirstFree(Tidy[s], k, p) /\ Atomic!Current(s) = Current(s)
      /\ Atomic!Fill(Tidy[s], k, p, Current(s)) = Fill(Tidy[s], k, p, Current(s))
  BY <1>2, TidyFree, SameProbes, SameFill DEF Atomic!Current, Current
<1>5. QED
  BY <1>0, <1>1, <1>2, <1>3, <1>4, SameSets DEF Atomic!HashInsert

LEMMA FullIsFull ==
  ASSUME RestartInv, NEW s \in Server, HashFull(s)
  PROVE  Atomic!HashFull(s)
<1>0. PICK k \in Key : k = log[s][Len(log[s])]
  <2>1. log[s] \in Seq(Key) /\ Len(log[s]) > 0
    BY DEF HashFull, RestartInv, ShapeOK, TypeOK, LifeInv, Running, Lengths
  <2>2. QED
    BY <2>1
<1>1. \A p \in Probe : ~Atomic!Free(Tidy[s], k, p)
  BY <1>0, TidyFree, SameProbes DEF HashFull
<1>2. Tidy' = Tidy
  BY TidySame DEF HashFull
<1>3. QED
  BY <1>0, <1>1, <1>2, SameSets DEF HashFull, Atomic!HashFull

LEMMA EngineIsAtomic ==
  ASSUME RestartInv, Engine
  PROVE  Atomic!Next
<1>1. ASSUME NEW s \in Server, NEW k \in Key, Put(s, k) PROVE Atomic!Next
  <2>1. AppendLog(s, k) /\ Tidy' = Tidy
    BY <1>1, TidySame DEF Put, AppendLog
  <2>2. Atomic!AppendLog(s, k)
    BY <2>1 DEF AppendLog, Atomic!AppendLog
  <2>3. QED
    BY <2>2, SameSets DEF Atomic!Next
<1>2. ASSUME NEW s \in Server, WriteSignature(s) PROVE Atomic!Next
  BY <1>2, SignatureIsInsert, SameSets DEF WriteSignature, Atomic!Next, Atomic!ServerStep
<1>3. ASSUME NEW s \in Server, GoOn(s) PROVE Atomic!Next
  <2>1. CASE HashFull(s)
    BY <2>1, FullIsFull, SameSets DEF Atomic!Next, Atomic!ServerStep
  <2>2. CASE SeeRoom(s) \/ PushTask(s)
    <3>1. Tidy' = Tidy
      BY <2>2, TidySame DEF SeeRoom, PushTask
    <3>2. Atomic!SeeRoom(s) \/ Atomic!PushTask(s)
      BY <2>2, <3>1 DEF SeeRoom, PushTask, Atomic!SeeRoom, Atomic!PushTask,
                        Current, Atomic!Current
    <3>3. QED
      BY <3>2, SameSets DEF Atomic!Next, Atomic!ServerStep
  <2>3. QED
    BY <1>3, <2>1, <2>2 DEF GoOn
<1>4. ASSUME NEW b \in Drained, Background(b) PROVE Atomic!Next
  <2>1. BackendStep(b) /\ Tidy' = Tidy
    BY <1>4, TidySame DEF Background, BackendStep, PopTask, IndexTask
  <2>2. Atomic!BackendStep(b)
    BY <2>1, SameSets DEF BackendStep, Atomic!BackendStep, PopTask, Atomic!PopTask,
                          IndexTask, Atomic!IndexTask
  <2>3. QED
    BY <2>2, SameSets DEF Atomic!Next
<1>5. QED
  BY <1>1, <1>2, <1>3, <1>4 DEF Engine

LEMMA SessionStep ==
  ASSUME RestartInv, [RestartNext]_rvars, InSession, InSession'
  PROVE  [Atomic!Next]_(Atomic!vars)
<1>1. CASE Engine
  BY <1>1, EngineIsAtomic
<1>2. CASE \E s \in Server : WriteAddress(s)
  BY <1>2, AddressIsNothing
<1>3. CASE BeginSave \/ UNCHANGED rvars
  <2>1. UNCHANGED <<log, table, result, pc, queue, worker, tree>>
    BY <1>3 DEF BeginSave, store, rvars
  <2>2. Tidy' = Tidy
    BY <2>1, TidySame
  <2>3. QED
    BY <2>1, <2>2 DEF Atomic!vars
<1>4. ~EndSave /\ ~Crash /\ ~StartNew /\ ~StartRestore /\ ~StartTorn /\ ~JoinAll
  BY DEF InSession, EndSave, Crash, StartNew, StartRestore, StartTorn, JoinAll
<1>5. \A s \in Server : ~Rebuild(s)
  BY DEF InSession, Rebuild
<1>6. QED
  BY <1>1, <1>2, <1>3, <1>4, <1>5 DEF RestartNext, Engine

(* What crashes leave in the tables and logs does not show in a session:   *)
(* each of its steps is one of the engine, whose insert takes its slot at  *)
(* once, or none (hashtable.h insert, hikv.h restore).                     *)
THEOREM InsertsAreAtomic == RestartSpec => SessionIsAtomic
  BY RestartInvariant, SessionStep, PTL DEF RestartSpec, SessionIsAtomic
=============================================================================
