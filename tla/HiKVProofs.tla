----------------------------- MODULE HiKVProofs -----------------------------
(***************************************************************************)
(* Safety of HiKV for every number of threads, keys, buckets and slots.    *)
(***************************************************************************)
EXTENDS HiKV, SequenceTheorems, TLAPS

(* A key's buckets exist.                                                  *)
LEMMA BucketOfType ==
  ASSUME NEW k \in Key, NEW w \in Seed
  PROVE  BucketOf(k, w) \in Bucket /\ Hash[w][k] \in Nat /\ Hash[w][k] # 0
<1>1. Hash[w][k] \in Nat \ {0}
  BY HashAssumption
<1>2. QED
  BY <1>1, SizeAssumption DEF BucketOf, Bucket

-----------------------------------------------------------------------------
(* The lengths that TypeOK and QueueBounded depend on: a thread inside     *)
(* insert has a record in its log, results and records are counted alike,  *)
(* and between add_task's check and its push the queue has room.           *)
Lengths ==
  \A s \in Server :
    /\ Len(log[s]) <= MaxLog
    /\ pc[s] # "idle" => Len(log[s]) > 0
    /\ Len(result[s]) = IF pc[s] = "hash" THEN Len(log[s]) - 1 ELSE Len(log[s])
    /\ Len(queue[s]) <= MaxQueue
    /\ pc[s] = "push" => Len(queue[s]) < MaxQueue

TypeInv == TypeOK /\ Lengths

LEMMA TypeInit == Init => TypeInv
  BY SizeAssumption, HashAssumption, EmptySeq
     DEF Init, TypeInv, TypeOK, Lengths, Server, Backend, Bucket, Slot,
         SlotRecord, Offset, None

LEMMA FillType ==
  ASSUME NEW tab \in [Bucket -> [Slot -> SlotRecord]], NEW k \in Key,
         NEW p \in Probe, NEW off \in Int
  PROVE  Fill(tab, k, p, off) \in [Bucket -> [Slot -> SlotRecord]]
<1>1. p[1] \in Slot /\ p[2] \in Seed
  BY DEF Probe
<1>2. BucketOf(k, p[2]) \in Bucket /\ Hash[p[2]][k] \in Nat
  BY <1>1, BucketOfType
<1>3. [sig |-> Hash[p[2]][k], off |-> off] \in SlotRecord
  BY <1>2 DEF SlotRecord
<1>4. QED
  BY <1>1, <1>2, <1>3 DEF Fill

LEMMA TypeStep == TypeInv /\ [Next]_vars => TypeInv'
<1> SUFFICES ASSUME TypeInv, [Next]_vars PROVE TypeInv'
  OBVIOUS
<1> USE SizeAssumption DEF TypeInv
<1>1. ASSUME NEW s \in Server, NEW k \in Key, AppendLog(s, k) PROVE TypeInv'
  <2>1. TypeOK'
    BY <1>1 DEF AppendLog, TypeOK
  <2>2. Lengths'
    BY <1>1 DEF AppendLog, TypeOK, Lengths
  <2>3. QED
    BY <2>1, <2>2
<1>2. ASSUME NEW s \in Server, HashInsert(s) PROVE TypeInv'
  <2>1. log[s] \in Seq(Key) /\ Len(log[s]) > 0
    BY <1>2 DEF HashInsert, TypeOK, Lengths
  <2>2. log[s][Len(log[s])] \in Key /\ Current(s) \in Int
    BY <2>1 DEF Current
  <2>3. table' \in [Server -> [Bucket -> [Slot -> SlotRecord]]]
    <3>1. PICK p \in Probe :
            table' = [table EXCEPT
                        ![s] = Fill(@, log[s][Len(log[s])], p, Current(s))]
      BY <1>2 DEF HashInsert
    <3>2. Fill(table[s], log[s][Len(log[s])], p, Current(s))
            \in [Bucket -> [Slot -> SlotRecord]]
      BY <2>2, FillType DEF TypeOK
    <3>3. QED
      BY <3>1, <3>2 DEF TypeOK
  <2>4. TypeOK'
    BY <1>2, <2>3 DEF HashInsert, TypeOK
  <2>5. Lengths'
    BY <1>2, <2>1 DEF HashInsert, TypeOK, Lengths
  <2>6. QED
    BY <2>4, <2>5
<1>3. ASSUME NEW s \in Server, HashFull(s) PROVE TypeInv'
  <2>1. TypeOK'
    BY <1>3 DEF HashFull, TypeOK
  <2>2. Lengths'
    BY <1>3 DEF HashFull, TypeOK, Lengths
  <2>3. QED
    BY <2>1, <2>2
<1>4. ASSUME NEW s \in Server, SeeRoom(s) PROVE TypeInv'
  BY <1>4 DEF SeeRoom, TypeOK, Lengths
<1>5. ASSUME NEW s \in Server, PushTask(s) PROVE TypeInv'
  <2>1. Current(s) \in Offset
    <3>1. Len(log[s]) \in Nat /\ Len(log[s]) > 0 /\ Len(log[s]) <= MaxLog
      BY <1>5, LenProperties DEF PushTask, Lengths, TypeOK
    <3>2. QED
      BY <3>1 DEF Current, Offset
  <2>2. TypeOK'
    BY <1>5, <2>1 DEF PushTask, TypeOK
  <2>3. Lengths'
    BY <1>5, <2>1 DEF PushTask, TypeOK, Lengths
  <2>4. QED
    BY <2>2, <2>3
<1>6. ASSUME NEW b \in Drained, PopTask(b) PROVE TypeInv'
  <2>1. b \in Server /\ b \in Backend
    BY DEF Drained
  <2>2. /\ Head(queue[b]) \in Offset
        /\ Tail(queue[b]) \in Seq(Offset)
        /\ Len(Tail(queue[b])) = Len(queue[b]) - 1
    BY <1>6, <2>1, HeadTailProperties DEF PopTask, TypeOK
  <2>3. TypeOK'
    BY <1>6, <2>1, <2>2 DEF PopTask, TypeOK
  <2>4. Lengths'
    BY <1>6, <2>1, <2>2 DEF PopTask, TypeOK, Lengths
  <2>5. QED
    BY <2>3, <2>4
<1>7. ASSUME NEW b \in Drained, IndexTask(b) PROVE TypeInv'
  <2>1. b \in Server /\ worker[b] \in Offset
    BY <1>7 DEF Drained, IndexTask, TypeOK
  <2>2. TypeOK'
    <3>1. <<b, worker[b]>> \in Server \X Offset
      BY <2>1
    <3>2. tree' \in SUBSET (Server \X Offset)
      BY <1>7, <3>1 DEF IndexTask, TypeOK
    <3>3. worker' \in [Backend -> Offset \cup {None}]
      BY <1>7 DEF IndexTask, TypeOK
    <3>4. QED
      BY <1>7, <3>2, <3>3 DEF IndexTask, TypeOK
  <2>3. Lengths'
    BY <1>7 DEF IndexTask, TypeOK, Lengths
  <2>4. QED
    BY <2>2, <2>3
<1>8. CASE UNCHANGED vars
  BY <1>8 DEF vars, TypeOK, Lengths
<1>9. QED
  BY <1>1, <1>2, <1>3, <1>4, <1>5, <1>6, <1>7, <1>8
     DEF Next, ServerStep, BackendStep

LEMMA TypeInvariant == Spec => []TypeInv
  BY TypeInit, TypeStep, PTL DEF Spec

(* Every variable keeps its type: in particular only offsets of written    *)
(* records are ever queued or put into the tree.                           *)
THEOREM TypeCorrect == Spec => []TypeOK
  BY TypeInvariant, PTL DEF TypeInv

(* add_task's limit holds for every queue although the size is read before *)
(* the push.                                                               *)
THEOREM QueueNeverOverflows == Spec => []QueueBounded
<1>1. TypeInv => QueueBounded
  BY DEF TypeInv, Lengths, QueueBounded
<1>2. QED
  BY <1>1, TypeInvariant, PTL

-----------------------------------------------------------------------------
(* Conservation.  PipelineInOrder is inductive once the types and lengths  *)
(* are known.                                                              *)

LEMMA PipelineInit == Init => PipelineInOrder
  BY SizeAssumption
     DEF Init, PipelineInOrder, PipelineAt, Indexed, Popped, Acked, Busy,
         None, Offset, Drained, Server, Backend

LEMMA CountTypes ==
  ASSUME TypeInv, NEW s \in Server
  PROVE  /\ Len(log[s]) \in Nat
         /\ Len(queue[s]) \in Nat
         /\ Acked(s) \in Int
         /\ Popped(s) \in Int
         /\ Indexed(s) \in Int
<1>1. Len(log[s]) \in Nat /\ Len(queue[s]) \in Nat
  BY LenProperties DEF TypeInv, TypeOK
<1>2. Acked(s) \in Int
  BY <1>1 DEF Acked
<1>3. Popped(s) \in Int
  BY <1>1, <1>2 DEF Popped
<1>4. Indexed(s) \in Int
  BY <1>3 DEF Indexed
<1>5. QED
  BY <1>1, <1>2, <1>3, <1>4

(* The part of the pipeline between insert and the tree.                   *)
QueueAt(s) ==
  /\ \A i \in 1 .. Len(queue[s]) : queue[s][i] = Popped(s) + i - 1
  /\ Busy(s) => worker[s] = Indexed(s)

(* What the records of partition s in the tree do in a step.               *)
SameTree(s) ==
  /\ Indexed(s)' = Indexed(s)
  /\ \A off \in Offset : <<s, off>> \in tree' <=> <<s, off>> \in tree

OneMore(s) ==
  /\ s \in Drained /\ IndexTask(s)
  /\ Indexed(s)' = Indexed(s) + 1
  /\ \A off \in Offset :
       <<s, off>> \in tree' <=> <<s, off>> \in tree \/ off = Indexed(s)

(* A step that does not touch the queue of thread s keeps its order.       *)
LEMMA QueueFrame ==
  ASSUME NEW s \in Server, QueueAt(s),
         log'[s] = log[s], queue'[s] = queue[s],
         pc'[s] = "idle" <=> pc[s] = "idle",
         s \in Drained => worker'[s] = worker[s]
  PROVE  QueueAt(s)' /\ Indexed(s)' = Indexed(s)
<1>1. Acked(s)' = Acked(s)
  BY DEF Acked
<1>2. Popped(s)' = Popped(s)
  BY <1>1 DEF Popped
<1>3. Busy(s)' <=> Busy(s)
  BY DEF Busy
<1>4. Indexed(s)' = Indexed(s)
  BY <1>2, <1>3 DEF Indexed
<1>5. Busy(s)' => worker'[s] = worker[s]
  BY <1>3 DEF Busy
<1>6. QED
  BY <1>2, <1>3, <1>4, <1>5 DEF QueueAt

(* Every step keeps the order; the records in the tree stay what they are, *)
(* or the next one joins them.                                             *)
LEMMA QueueStep ==
  ASSUME TypeInv, [Next]_vars, NEW r \in Server, QueueAt(r)
  PROVE  QueueAt(r)' /\ (SameTree(r) \/ OneMore(r))
<1>a. /\ Len(log[r]) \in Nat /\ Len(queue[r]) \in Nat
      /\ Acked(r) \in Int /\ Popped(r) \in Int /\ Indexed(r) \in Int
  BY CountTypes
<1>1. ASSUME NEW s \in Server, NEW k \in Key, AppendLog(s, k)
      PROVE  QueueAt(r)' /\ SameTree(r)
  <2>1. CASE r # s
    BY <1>1, <2>1, QueueFrame DEF SameTree, AppendLog, TypeInv, TypeOK
  <2>2. CASE r = s
    <3>1. Len(log'[r]) = Len(log[r]) + 1
      BY <1>1, <2>2 DEF AppendLog, TypeInv, TypeOK
    <3>2. Acked(r)' = Acked(r)
      BY <1>a, <1>1, <2>2, <3>1 DEF AppendLog, Acked, TypeInv, TypeOK
    <3>3. Popped(r)' = Popped(r) /\ (Busy(r)' <=> Busy(r))
      BY <1>1, <3>2 DEF AppendLog, Popped, Busy
    <3>4. Indexed(r)' = Indexed(r)
      BY <3>3 DEF Indexed
    <3>5. QED
      BY <1>1, <3>3, <3>4 DEF AppendLog, QueueAt, SameTree
  <2>3. QED
    BY <2>1, <2>2
<1>2. ASSUME NEW s \in Server, HashInsert(s) \/ HashFull(s) \/ SeeRoom(s)
      PROVE  QueueAt(r)' /\ SameTree(r)
  <2>1. UNCHANGED <<log, queue, worker, tree>>
    BY <1>2 DEF HashInsert, HashFull, SeeRoom
  <2>2. pc[s] # "idle" /\ pc'[s] # "idle" /\ (r # s => pc'[r] = pc[r])
    BY <1>2 DEF HashInsert, HashFull, SeeRoom, TypeInv, TypeOK
  <2>3. QED
    BY <2>1, <2>2, QueueFrame DEF SameTree
<1>3. ASSUME NEW s \in Server, PushTask(s)
      PROVE  QueueAt(r)' /\ SameTree(r)
  <2>1. CASE r # s
    BY <1>3, <2>1, QueueFrame DEF SameTree, PushTask, TypeInv, TypeOK
  <2>2. CASE r = s
    <3>1. Acked(r)' = Acked(r) + 1 /\ Current(r) = Acked(r)
      BY <1>a, <1>3, <2>2 DEF PushTask, Acked, Current, TypeInv, TypeOK
    <3>2. queue[r] \in Seq(Offset) /\ queue'[r] = Append(queue[r], Current(r))
      BY <1>3, <2>2 DEF PushTask, TypeInv, TypeOK
    <3>3. /\ Len(queue'[r]) = Len(queue[r]) + 1
          /\ \A i \in 1 .. Len(queue[r]) : queue'[r][i] = queue[r][i]
          /\ queue'[r][Len(queue[r]) + 1] = Current(r)
      BY <3>2
    <3>4. Popped(r)' = Popped(r) /\ (Busy(r)' <=> Busy(r))
      BY <1>a, <1>3, <3>1, <3>3 DEF PushTask, Popped, Busy
    <3>5. Indexed(r)' = Indexed(r)
      BY <3>4 DEF Indexed
    <3>6. Current(r) = Popped(r) + (Len(queue[r]) + 1) - 1
      BY <1>a, <3>1 DEF Popped
    <3>7. ASSUME NEW i \in 1 .. Len(queue'[r])
          PROVE  queue'[r][i] = Popped(r)' + i - 1
      <4>1. CASE i = Len(queue[r]) + 1
        BY <3>3, <3>4, <3>6, <4>1
      <4>2. CASE i # Len(queue[r]) + 1
        <5>1. i \in 1 .. Len(queue[r])
          BY <1>a, <3>3, <4>2
        <5>2. queue[r][i] = Popped(r) + i - 1
          BY <5>1 DEF QueueAt
        <5>3. QED
          BY <3>3, <3>4, <5>1, <5>2
      <4>3. QED
        BY <4>1, <4>2
    <3>8. QED
      BY <1>3, <3>4, <3>5, <3>7 DEF PushTask, QueueAt, SameTree
  <2>3. QED
    BY <2>1, <2>2
<1>4. ASSUME NEW b \in Drained, PopTask(b)
      PROVE  QueueAt(r)' /\ SameTree(r)
  <2>0. b \in Server /\ b \in Backend
    BY DEF Drained
  <2>1. CASE r # b
    BY <1>4, <2>0, <2>1, QueueFrame DEF SameTree, PopTask, TypeInv, TypeOK
  <2>2. CASE r = b
    <3>1. /\ queue[r] \in Seq(Offset) /\ queue[r] # << >>
          /\ queue'[r] = Tail(queue[r]) /\ worker'[r] = Head(queue[r])
          /\ worker[r] = None
      BY <1>4, <2>0, <2>2 DEF PopTask, TypeInv, TypeOK
    <3>2. /\ Len(queue[r]) > 0
          /\ Head(queue[r]) = queue[r][1] /\ Head(queue[r]) \in Offset
          /\ Len(queue'[r]) = Len(queue[r]) - 1
          /\ \A i \in 1 .. Len(queue[r]) - 1 : queue'[r][i] = queue[r][i + 1]
      BY <1>a, <3>1, HeadTailProperties
    <3>3. Popped(r)' = Popped(r) + 1
      <4>1. Acked(r)' = Acked(r)
        BY <1>4 DEF PopTask, Acked
      <4>2. QED
        BY <1>a, <3>2, <4>1 DEF Popped
    <3>4. ~Busy(r) /\ Busy(r)'
      BY <2>0, <2>2, <3>1, <3>2 DEF Busy, None, Offset
    <3>5. Indexed(r)' = Indexed(r) /\ Indexed(r) = Popped(r)
      BY <1>a, <3>3, <3>4 DEF Indexed
    <3>6. worker'[r] = Indexed(r)'
      <4>1. 1 \in 1 .. Len(queue[r])
        BY <1>a, <3>2
      <4>2. queue[r][1] = Popped(r) + 1 - 1
        BY <4>1 DEF QueueAt
      <4>3. QED
        BY <1>a, <3>1, <3>2, <3>5, <4>2
    <3>7. ASSUME NEW i \in 1 .. Len(queue'[r])
          PROVE  queue'[r][i] = Popped(r)' + i - 1
      <4>1. i + 1 \in 1 .. Len(queue[r]) /\ i \in 1 .. Len(queue[r]) - 1
        BY <1>a, <3>2
      <4>2. queue[r][i + 1] = Popped(r) + (i + 1) - 1
        BY <4>1 DEF QueueAt
      <4>3. QED
        BY <1>a, <3>2, <3>3, <4>1, <4>2
    <3>8. QED
      BY <1>4, <3>5, <3>6, <3>7 DEF PopTask, QueueAt, SameTree
  <2>3. QED
    BY <2>1, <2>2
<1>5. ASSUME NEW b \in Drained, IndexTask(b)
      PROVE  QueueAt(r)' /\ (SameTree(r) \/ OneMore(r))
  <2>0. b \in Server /\ b \in Backend
    BY DEF Drained
  <2>1. CASE r # b
    <3>1. \A off \in Offset : <<r, off>> \in tree' <=> <<r, off>> \in tree
      BY <1>5, <2>1 DEF IndexTask
    <3>2. r \in Drained => worker'[r] = worker[r]
      BY <1>5, <2>1 DEF IndexTask, TypeInv, TypeOK, Drained
    <3>3. QED
      BY <1>5, <3>1, <3>2, QueueFrame DEF SameTree, IndexTask
  <2>2. CASE r = b
    <3>1. Busy(r) /\ ~Busy(r)'
      BY <1>5, <2>0, <2>2 DEF IndexTask, Busy, TypeInv, TypeOK
    <3>2. worker[r] = Indexed(r)
      BY <3>1 DEF QueueAt
    <3>3. Popped(r)' = Popped(r)
      BY <1>5 DEF IndexTask, Popped, Acked
    <3>4. Indexed(r)' = Indexed(r) + 1
      BY <1>a, <3>1, <3>3 DEF Indexed
    <3>5. OneMore(r)
      BY <1>5, <2>2, <3>2, <3>4 DEF IndexTask, OneMore
    <3>6. queue'[r] = queue[r]
      BY <1>5 DEF IndexTask
    <3>7. QED
      BY <3>1, <3>3, <3>5, <3>6 DEF QueueAt
  <2>3. QED
    BY <2>1, <2>2
<1>6. CASE UNCHANGED vars
  BY <1>6, QueueFrame DEF SameTree, vars
<1>7. QED
  BY <1>1, <1>2, <1>3, <1>4, <1>5, <1>6 DEF Next, ServerStep, BackendStep

LEMMA PipelineStep == TypeInv /\ PipelineInOrder /\ [Next]_vars => PipelineInOrder'
<1> SUFFICES ASSUME TypeInv, PipelineInOrder, [Next]_vars, NEW s \in Server
             PROVE  PipelineAt(s)'
  BY DEF PipelineInOrder
<1>1. PipelineAt(s) /\ Indexed(s) \in Int
  BY CountTypes DEF PipelineInOrder
<1>2. QueueAt(s)' /\ (SameTree(s) \/ OneMore(s))
  BY <1>1, QueueStep DEF PipelineAt, QueueAt
<1>3. CASE SameTree(s)
  BY <1>1, <1>2, <1>3 DEF PipelineAt, QueueAt, SameTree
<1>4. CASE OneMore(s)
  <2>1. \A off \in Offset : off < Indexed(s)' <=> off < Indexed(s) \/ off = Indexed(s)
    BY <1>1, <1>4, SizeAssumption DEF OneMore, Offset
  <2>2. \A off \in Offset : <<s, off>> \in tree' <=> off < Indexed(s)'
    BY <1>1, <1>4, <2>1 DEF OneMore, PipelineAt
  <2>3. 0 <= Indexed(s)'
    BY <1>1, <1>4 DEF OneMore, PipelineAt
  <2>4. QED
    BY <1>2, <2>2, <2>3 DEF PipelineAt, QueueAt
<1>5. QED
  BY <1>2, <1>3, <1>4

(* No record is lost, doubled or overtaken between insert and the tree,    *)
(* for any number of server and backend threads.                           *)
THEOREM PipelineConserved == Spec => []PipelineInOrder
  BY PipelineInit, PipelineStep, TypeInvariant, PTL DEF Spec
-----------------------------------------------------------------------------
(* The hash table.                                                         *)

LEMMA FillAt ==
  ASSUME NEW tab \in [Bucket -> [Slot -> SlotRecord]], NEW k \in Key,
         NEW p \in Probe, NEW off \in Int, NEW b \in Bucket, NEW i \in Slot
  PROVE  Fill(tab, k, p, off)[b][i] =
           IF b = BucketOf(k, p[2]) /\ i = p[1]
           THEN [sig |-> Hash[p[2]][k], off |-> off] ELSE tab[b][i]
<1>1. p[1] \in Slot /\ p[2] \in Seed
  BY DEF Probe
<1>2. BucketOf(k, p[2]) \in Bucket
  BY <1>1, BucketOfType
<1>3. QED
  BY <1>1, <1>2 DEF Fill

LEMMA TableInit == Init => TableMatchesLog
<1> SUFFICES ASSUME Init, NEW s \in Server
             PROVE  SlotsLead(s) /\ OneSlotEach(s) /\ AcceptedHasSlot(s)
  BY DEF TableMatchesLog
<1>1. \A b \in Bucket, i \in Slot : ~Used(s, b, i)
  BY DEF Init, Used
<1>2. Len(result[s]) = 0
  BY DEF Init
<1>3. QED
  BY <1>1, <1>2 DEF SlotsLead, OneSlotEach, AcceptedHasSlot

(* The three parts look at a record's key, result and slots only.          *)
LEMMA TableFrame ==
  ASSUME NEW s \in Server,
         SlotsLead(s) /\ OneSlotEach(s) /\ AcceptedHasSlot(s),
         table'[s] = table[s], Len(result[s]) \in Nat,
         Len(result'[s]) \in {Len(result[s]), Len(result[s]) + 1},
         \A n \in 1 .. Len(result[s]) :
           result'[s][n] = result[s][n] /\ log'[s][n] = log[s][n],
         Len(result'[s]) = Len(result[s]) + 1 => ~result'[s][Len(result'[s])]
  PROVE  (SlotsLead(s) /\ OneSlotEach(s) /\ AcceptedHasSlot(s))'
<1>1. \A b \in Bucket, i \in Slot : Used(s, b, i)' <=> Used(s, b, i)
  BY DEF Used
<1>2. SlotsLead(s)'
  <2> SUFFICES ASSUME NEW b \in Bucket, NEW i \in Slot, Used(s, b, i)'
               PROVE  LET off == table'[s][b][i].off IN
                      /\ off \in 0 .. Len(result'[s]) - 1
                      /\ result'[s][off + 1]
                      /\ \E w \in Seed :
                           /\ table'[s][b][i].sig = Hash[w][log'[s][off + 1]]
                           /\ b = BucketOf(log'[s][off + 1], w)
    BY DEF SlotsLead, BucketOf
  <2> DEFINE off == table[s][b][i].off
  <2>1. /\ off \in 0 .. Len(result[s]) - 1
        /\ result[s][off + 1]
        /\ \E w \in Seed : /\ table[s][b][i].sig = Hash[w][log[s][off + 1]]
                           /\ b = BucketOf(log[s][off + 1], w)
    BY <1>1 DEF SlotsLead
  <2>2. off + 1 \in 1 .. Len(result[s])
    BY <2>1
  <2>3. result'[s][off + 1] = result[s][off + 1] /\ log'[s][off + 1] = log[s][off + 1]
    BY <2>2
  <2>4. off \in 0 .. Len(result'[s]) - 1
    BY <2>1
  <2>5. QED
    BY <2>1, <2>3, <2>4
<1>3. OneSlotEach(s)'
  BY <1>1 DEF OneSlotEach
<1>4. AcceptedHasSlot(s)'
  <2> SUFFICES ASSUME NEW n \in 1 .. Len(result'[s]), result'[s][n]
               PROVE  \E b \in Bucket, i \in Slot :
                        Used(s, b, i)' /\ table'[s][b][i].off = n - 1
    BY DEF AcceptedHasSlot
  <2>1. n \in 1 .. Len(result[s])
    OBVIOUS
  <2>2. result[s][n]
    BY <2>1
  <2>3. QED
    BY <1>1, <2>1, <2>2 DEF AcceptedHasSlot
<1>5. QED
  BY <1>2, <1>3, <1>4

(* The slot that HashInsert fills is free, so that no record loses its own.*)
LEMMA TableInsert ==
  ASSUME TypeInv, NEW s \in Server, HashInsert(s),
         SlotsLead(s) /\ OneSlotEach(s) /\ AcceptedHasSlot(s)
  PROVE  (SlotsLead(s) /\ OneSlotEach(s) /\ AcceptedHasSlot(s))'
<1>k. PICK k \in Key : k = log[s][Len(log[s])]
  BY DEF HashInsert, TypeInv, TypeOK, Lengths
<1>n. PICK new \in Nat : new = Len(result[s])
  BY LenProperties DEF TypeInv, TypeOK
<1>1. /\ log[s] \in Seq(Key) /\ result[s] \in Seq(BOOLEAN)
      /\ Len(log[s]) \in Nat /\ new \in Nat /\ new + 1 = Len(log[s])
      /\ Current(s) = new /\ k \in Key
      /\ table[s] \in [Bucket -> [Slot -> SlotRecord]]
      /\ k = log[s][new + 1]
  BY <1>k, <1>n, LenProperties DEF HashInsert, TypeInv, TypeOK, Lengths, Current
<1>2. PICK p \in Probe :
        /\ FirstFree(table[s], k, p)
        /\ table'[s] = Fill(table[s], k, p, new)
  BY <1>k, <1>1 DEF HashInsert, TypeInv, TypeOK
<1> DEFINE B == BucketOf(k, p[2])
           I == p[1]
<1>3. /\ p[2] \in Seed /\ B \in Bucket /\ I \in Slot
      /\ Hash[p[2]][k] # 0 /\ table[s][B][I].sig = 0
  BY <1>1, <1>2, BucketOfType DEF Probe, FirstFree, Free, At
<1>4. \A b \in Bucket, i \in Slot :
        table'[s][b][i] = IF b = B /\ i = I
                          THEN [sig |-> Hash[p[2]][k], off |-> new]
                          ELSE table[s][b][i]
  BY <1>1, <1>2, FillAt
<1>5. /\ Used(s, B, I)' /\ ~Used(s, B, I) /\ table'[s][B][I].off = new
      /\ table'[s][B][I].sig = Hash[p[2]][k]
      /\ \A b \in Bucket, i \in Slot : ~(b = B /\ i = I) =>
           /\ table'[s][b][i] = table[s][b][i]
           /\ Used(s, b, i)' <=> Used(s, b, i)
  <2>1. table'[s][B][I] = [sig |-> Hash[p[2]][k], off |-> new]
    BY <1>3, <1>4
  <2>2. Used(s, B, I)' /\ ~Used(s, B, I)
    BY <1>3, <2>1 DEF Used
  <2>3. ASSUME NEW b \in Bucket, NEW i \in Slot, ~(b = B /\ i = I)
        PROVE  table'[s][b][i] = table[s][b][i]
    BY <1>4, <2>3
  <2>4. ASSUME NEW b \in Bucket, NEW i \in Slot, ~(b = B /\ i = I)
        PROVE  Used(s, b, i)' <=> Used(s, b, i)
    BY <2>3, <2>4 DEF Used
  <2>5. QED
    BY <2>1, <2>2, <2>3, <2>4
<1>6. /\ log' = log /\ Len(result'[s]) = new + 1 /\ result'[s][new + 1] = TRUE
      /\ \A n \in 1 .. new : result'[s][n] = result[s][n]
  BY <1>n, <1>1 DEF HashInsert, TypeInv, TypeOK
<1>7. \A b \in Bucket, i \in Slot :
        Used(s, b, i) => table[s][b][i].off \in 0 .. new - 1
  BY <1>n DEF SlotsLead
<1>8. SlotsLead(s)'
  <2> SUFFICES ASSUME NEW b \in Bucket, NEW i \in Slot, Used(s, b, i)'
               PROVE  LET off == table'[s][b][i].off IN
                      /\ off \in 0 .. Len(result'[s]) - 1
                      /\ result'[s][off + 1]
                      /\ \E w \in Seed :
                           /\ table'[s][b][i].sig = Hash[w][log'[s][off + 1]]
                           /\ b = BucketOf(log'[s][off + 1], w)
    BY DEF SlotsLead, BucketOf
  <2>1. CASE b = B /\ i = I
    <3>1. table'[s][b][i].off = new /\ new \in 0 .. Len(result'[s]) - 1
      BY <1>1, <1>5, <1>6, <2>1
    <3>2. result'[s][new + 1] /\ log'[s][new + 1] = k
      BY <1>1, <1>6
    <3>3. table'[s][b][i].sig = Hash[p[2]][k] /\ b = BucketOf(k, p[2])
      BY <1>5, <2>1
    <3>4. QED
      BY <1>3, <3>1, <3>2, <3>3
  <2>2. CASE ~(b = B /\ i = I)
    <3> DEFINE off == table[s][b][i].off
    <3>1. table'[s][b][i] = table[s][b][i] /\ Used(s, b, i)
      BY <1>5, <2>2
    <3>2. /\ off \in 0 .. new - 1 /\ result[s][off + 1]
          /\ \E w \in Seed : /\ table[s][b][i].sig = Hash[w][log[s][off + 1]]
                             /\ b = BucketOf(log[s][off + 1], w)
      BY <1>n, <3>1 DEF SlotsLead
    <3>3. off + 1 \in 1 .. new /\ off \in 0 .. Len(result'[s]) - 1
      BY <1>1, <1>6, <3>2
    <3>4. QED
      BY <1>6, <3>1, <3>2, <3>3
  <2>3. QED
    BY <2>1, <2>2
<1>9. OneSlotEach(s)'
  <2> SUFFICES ASSUME NEW b1 \in Bucket, NEW b2 \in Bucket,
                      NEW i1 \in Slot, NEW i2 \in Slot,
                      Used(s, b1, i1)', Used(s, b2, i2)',
                      table'[s][b1][i1].off = table'[s][b2][i2].off
               PROVE  b1 = b2 /\ i1 = i2
    BY DEF OneSlotEach
  <2>1. CASE b1 = B /\ i1 = I
    BY <1>1, <1>5, <1>7, <2>1
  <2>2. CASE b2 = B /\ i2 = I
    BY <1>1, <1>5, <1>7, <2>2
  <2>3. CASE ~(b1 = B /\ i1 = I) /\ ~(b2 = B /\ i2 = I)
    BY <1>5, <2>3 DEF OneSlotEach
  <2>4. QED
    BY <2>1, <2>2, <2>3
<1>10. AcceptedHasSlot(s)'
  <2> SUFFICES ASSUME NEW n \in 1 .. Len(result'[s]), result'[s][n]
               PROVE  \E b \in Bucket, i \in Slot :
                        Used(s, b, i)' /\ table'[s][b][i].off = n - 1
    BY DEF AcceptedHasSlot
  <2>1. CASE n = new + 1
    <3>1. Used(s, B, I)' /\ table'[s][B][I].off = n - 1
      BY <1>1, <1>5, <2>1
    <3>2. QED
      BY <1>3, <3>1
  <2>2. CASE n # new + 1
    <3>1. n \in 1 .. new /\ result[s][n]
      BY <1>1, <1>6, <2>2
    <3>2. PICK b \in Bucket, i \in Slot :
            Used(s, b, i) /\ table[s][b][i].off = n - 1
      BY <1>n, <3>1 DEF AcceptedHasSlot
    <3>3. ~(b = B /\ i = I)
      BY <1>5, <3>2
    <3>4. QED
      BY <1>5, <3>2, <3>3
  <2>3. QED
    BY <2>1, <2>2
<1>11. QED
  BY <1>8, <1>9, <1>10

LEMMA TableStep == TypeInv /\ TableMatchesLog /\ [Next]_vars => TableMatchesLog'
<1> SUFFICES ASSUME TypeInv, TableMatchesLog, [Next]_vars, NEW r \in Server
             PROVE  (SlotsLead(r) /\ OneSlotEach(r) /\ AcceptedHasSlot(r))'
  BY DEF TableMatchesLog
<1>0. /\ SlotsLead(r) /\ OneSlotEach(r) /\ AcceptedHasSlot(r)
      /\ log[r] \in Seq(Key) /\ result[r] \in Seq(BOOLEAN)
      /\ Len(log[r]) \in Nat /\ Len(result[r]) \in Nat
      /\ Len(result[r]) <= Len(log[r])
  BY LenProperties DEF TableMatchesLog, TypeInv, TypeOK, Lengths
<1>1. ASSUME NEW s \in Server, NEW k \in Key, AppendLog(s, k)
      PROVE  (SlotsLead(r) /\ OneSlotEach(r) /\ AcceptedHasSlot(r))'
  <2>1. \A n \in 1 .. Len(log[r]) : log'[r][n] = log[r][n]
    BY <1>0, <1>1 DEF AppendLog, TypeInv, TypeOK
  <2>2. \A n \in 1 .. Len(result[r]) : log'[r][n] = log[r][n]
    BY <1>0, <2>1
  <2>3. QED
    BY <1>0, <1>1, <2>2, TableFrame DEF AppendLog
<1>2. ASSUME NEW s \in Server, HashInsert(s)
      PROVE  (SlotsLead(r) /\ OneSlotEach(r) /\ AcceptedHasSlot(r))'
  <2>1. CASE r = s
    BY <1>0, <1>2, <2>1, TableInsert
  <2>2. CASE r # s
    <3>1. table'[r] = table[r] /\ result'[r] = result[r] /\ log'[r] = log[r]
      BY <1>2, <2>2 DEF HashInsert, TypeInv, TypeOK
    <3>2. QED
      BY <1>0, <3>1, TableFrame
  <2>3. QED
    BY <2>1, <2>2
<1>3. ASSUME NEW s \in Server, HashFull(s)
      PROVE  (SlotsLead(r) /\ OneSlotEach(r) /\ AcceptedHasSlot(r))'
  <2>1. CASE r = s
    <3>1. /\ Len(result'[r]) = Len(result[r]) + 1
          /\ ~result'[r][Len(result[r]) + 1]
          /\ \A n \in 1 .. Len(result[r]) : result'[r][n] = result[r][n]
      BY <1>0, <1>3, <2>1 DEF HashFull, TypeInv, TypeOK
    <3>2. QED
      BY <1>0, <1>3, <3>1, TableFrame DEF HashFull
  <2>2. CASE r # s
    <3>1. table'[r] = table[r] /\ result'[r] = result[r] /\ log'[r] = log[r]
      BY <1>3, <2>2 DEF HashFull, TypeInv, TypeOK
    <3>2. QED
      BY <1>0, <3>1, TableFrame
  <2>3. QED
    BY <2>1, <2>2
<1>4. ASSUME UNCHANGED <<log, table, result>>
      PROVE  (SlotsLead(r) /\ OneSlotEach(r) /\ AcceptedHasSlot(r))'
  BY <1>0, <1>4, TableFrame
<1>5. ASSUME NEW s \in Server, SeeRoom(s) \/ PushTask(s)
      PROVE  UNCHANGED <<log, table, result>>
  BY <1>5 DEF SeeRoom, PushTask
<1>6. ASSUME NEW b \in Drained, BackendStep(b)
      PROVE  UNCHANGED <<log, table, result>>
  BY <1>6 DEF BackendStep, PopTask, IndexTask
<1>7. CASE UNCHANGED vars
  BY <1>4, <1>7 DEF vars
<1>8. QED
  BY <1>1, <1>2, <1>3, <1>4, <1>5, <1>6, <1>7 DEF Next, ServerStep

(* What insert answered, what the hash table holds and what the log holds  *)
(* agree, for every hash function that avoids zero and every table size.   *)
THEOREM TableAgreesWithLog == Spec => []TableMatchesLog
  BY TableInit, TableStep, TypeInvariant, PTL DEF Spec
=============================================================================
