-------------------------------- MODULE HiKV --------------------------------
(***************************************************************************)
(* The HiKV storage engine of bufferevent_single/Hikv: one log partition   *)
(* and one hash-table partition per server thread, and one B+-tree shared  *)
(* by all of them.  A server thread inserts a record into its own log and  *)
(* its own hash table and hands the record's address to the task queue     *)
(* that carries its own number; the backend thread of that number pops     *)
(* the address and inserts it into the B+-tree (HIKV_ASYNC).               *)
(*                                                                         *)
(* A record is known by its place in the log, so a value needs no name of  *)
(* its own: two records of one key stand for two values.  The tree is the  *)
(* set of addresses it holds.                                              *)
(***************************************************************************)
EXTENDS Integers, Sequences

CONSTANTS
  NumServer,   \* num_server_thread: server threads, and partitions
  NumBackend,  \* num_backend_thread: backend threads, and polled queues
  Key,         \* the 64-byte keys
  Hash,        \* Hash[w][k]: CityHash64WithSeed(k) with seed w (SEED1, SEED2)
  NumBucket,   \* buckets of one hash-table partition
  NumSlot,     \* NUM_SLOT, the slots of one bucket
  MaxQueue,    \* the queue length add_task waits below (1 << 16)
  MaxLog       \* bound: the records put into one partition

Server  == 0 .. NumServer - 1
Backend == 0 .. NumBackend - 1
Seed    == {1, 2}
Bucket  == 0 .. NumBucket - 1
Slot    == 0 .. NumSlot - 1

ASSUME SizeAssumption ==
  /\ NumServer \in Nat
  /\ NumBackend \in Nat
  /\ NumBucket \in Nat \ {0}
  /\ NumSlot \in Nat \ {0}
  /\ MaxQueue \in Nat \ {0}
  /\ MaxLog \in Nat

(* A signature of zero marks a free slot.  The code does not exclude that  *)
(* a key hashes to zero; it happens to one 64-bit hash in 2^64.            *)
ASSUME HashAssumption == Hash \in [Seed -> [Key -> Nat \ {0}]]

VARIABLES
  log,     \* log[s]: the keys of the records appended to partition s
  table,   \* table[s][b][i]: signature and log offset in slot i of bucket b
  result,  \* result[s][n]: what hash_table::insert returned for record n
  pc,      \* pc[s]: where server thread s is in hikv::insert
  queue,   \* queue[s]: the log offsets waiting in s_tbb_queue[s]
  worker,  \* worker[b]: the offset backend b has popped, or None
  tree     \* the addresses <<s, offset>> in the B+-tree

vars == <<log, table, result, pc, queue, worker, tree>>

None == -1  \* no offset

(* The queues some backend thread polls.                                   *)
Drained == Server \cap Backend

Offset == 0 .. MaxLog - 1

-----------------------------------------------------------------------------
(* The hash table.  insert and search walk the slots i = 0, 1, ... and at  *)
(* each look at bucket 1 and then at bucket 2: a probe is <<i, w>>.        *)

Probe == Slot \X Seed

Before(p, q) == p[1] < q[1] \/ (p[1] = q[1] /\ p[2] < q[2])

BucketOf(k, w) == Hash[w][k] % NumBucket

At(tab, k, p) == tab[BucketOf(k, p[2])][p[1]]

(* The second bucket is skipped when it is the first one again.            *)
Free(tab, k, p) ==
  /\ At(tab, k, p).sig = 0
  /\ p[2] = 2 => BucketOf(k, 1) # BucketOf(k, 2)

Match(tab, k, p) == At(tab, k, p).sig = Hash[p[2]][k]

FirstFreeByBucket(tab, k, p) ==  \* mistake: all of bucket 1, then bucket 2
  /\ Free(tab, k, p)
  /\ \A q \in Probe :
       q[2] < p[2] \/ (q[2] = p[2] /\ q[1] < p[1]) => ~Free(tab, k, q)

FirstFree(tab, k, p) ==
  Free(tab, k, p) /\ \A q \in Probe : Before(q, p) => ~Free(tab, k, q)

FirstMatch(tab, k, p) ==
  Match(tab, k, p) /\ \A q \in Probe : Before(q, p) => ~Match(tab, k, q)

FillSeed1(tab, k, p, off) ==  \* mistake: bucket 2 gets the signature of seed 1
  [tab EXCEPT ![BucketOf(k, p[2])][p[1]] =
     [sig |-> Hash[1][k], off |-> off]]

Fill(tab, k, p, off) ==
  [tab EXCEPT ![BucketOf(k, p[2])][p[1]] =
     [sig |-> Hash[p[2]][k], off |-> off]]

(* hash_table::search: the offset stored with the first matching signature *)
(* and 0 when there is none.                                               *)
HashSearchLast(tab, k) ==  \* mistake: no break at the first match
  IF \E p \in Probe : Match(tab, k, p)
  THEN At(tab, k, CHOOSE p \in Probe :
         /\ Match(tab, k, p)
         /\ \A q \in Probe : Before(p, q) => ~Match(tab, k, q)).off
  ELSE 0

HashSearch(tab, k) ==
  IF \E p \in Probe : Match(tab, k, p)
  THEN At(tab, k, CHOOSE p \in Probe : FirstMatch(tab, k, p)).off
  ELSE 0

(* hikv::search takes an offset of 0 for "not found" and compares the key  *)
(* of the record it is led to.                                             *)
Search(s, k) ==
  LET off == HashSearch(table[s], k)
  IN  IF off # 0 /\ log[s][off + 1] = k THEN off ELSE None

-----------------------------------------------------------------------------
Init ==
  /\ log    = [s \in Server |-> << >>]
  /\ table  = [s \in Server |->
                 [b \in Bucket |-> [i \in Slot |-> [sig |-> 0, off |-> 0]]]]
  /\ result  = [s \in Server |-> << >>]
  /\ pc     = [s \in Server |-> "idle"]
  /\ queue  = [s \in Server |-> << >>]
  /\ worker = [b \in Backend |-> None]
  /\ tree   = {}

(* The record server thread s is inserting: the last one of its log.       *)
CurrentAfterMove(s) == Len(log[s])  \* mistake: address taken after the move

Current(s) == Len(log[s]) - 1

(* insert, first call: plog::append writes the record and moves the        *)
(* partition's offset.  Nothing checks the partition's size.               *)
AppendLog(s, k) ==
  /\ pc[s] = "idle"
  /\ Len(log[s]) < MaxLog
  /\ log' = [log EXCEPT ![s] = Append(@, k)]
  /\ pc'  = [pc EXCEPT ![s] = "hash"]
  /\ UNCHANGED <<table, result, queue, worker, tree>>

(* insert, second call: hash_table::insert takes the first free probe.     *)
HashInsert(s) ==
  LET k == log[s][Len(log[s])] IN
  /\ pc[s] = "hash"
  /\ \E p \in Probe :
       /\ FirstFree(table[s], k, p)
       /\ table' = [table EXCEPT ![s] = Fill(@, k, p, Current(s))]
  /\ result' = [result EXCEPT ![s] = Append(@, TRUE)]
  /\ pc'    = [pc EXCEPT ![s] = "room"]
  /\ UNCHANGED <<log, queue, worker, tree>>

(* ... or finds both buckets full and returns false; insert goes on.       *)
HashFull(s) ==
  /\ pc[s] = "hash"
  /\ \A p \in Probe : ~Free(table[s], log[s][Len(log[s])], p)
  /\ result' = [result EXCEPT ![s] = Append(@, FALSE)]
  /\ pc'    = [pc EXCEPT ![s] = "room"]
  /\ UNCHANGED <<log, table, queue, worker, tree>>

(* insert, third call: add_task spins until the queue has room ...         *)
SeeRoomOneTooMany(s) ==  \* mistake: waits only above the limit
  /\ pc[s] = "room"
  /\ Len(queue[s]) <= MaxQueue
  /\ pc' = [pc EXCEPT ![s] = "push"]
  /\ UNCHANGED <<log, table, result, queue, worker, tree>>

SeeRoomWhenFull(s) ==  \* mistake: waits while there is room
  /\ pc[s] = "room"
  /\ Len(queue[s]) >= MaxQueue
  /\ pc' = [pc EXCEPT ![s] = "push"]
  /\ UNCHANGED <<log, table, result, queue, worker, tree>>

SeeRoom(s) ==
  /\ pc[s] = "room"
  /\ Len(queue[s]) < MaxQueue
  /\ pc' = [pc EXCEPT ![s] = "push"]
  /\ UNCHANGED <<log, table, result, queue, worker, tree>>

(* ... and then pushes the task.  insert returns and the client is told.   *)
PushAccepted(s) ==  \* mistake: a record the hash table refused is not queued
  /\ pc[s] = "push"
  /\ queue' = IF result[s][Len(log[s])]
              THEN [queue EXCEPT ![s] = Append(@, Current(s))]
              ELSE queue
  /\ pc'    = [pc EXCEPT ![s] = "idle"]
  /\ UNCHANGED <<log, table, result, worker, tree>>

PushTask(s) ==
  /\ pc[s] = "push"
  /\ queue' = [queue EXCEPT ![s] = Append(@, Current(s))]
  /\ pc'    = [pc EXCEPT ![s] = "idle"]
  /\ UNCHANGED <<log, table, result, worker, tree>>

(* thread_pool_task_handler: the queue is not empty, try_pop ...           *)
PopNewest(b) ==  \* mistake: a stack for a queue
  /\ worker[b] = None
  /\ queue[b] # << >>
  /\ worker' = [worker EXCEPT ![b] = queue[b][Len(queue[b])]]
  /\ queue'  = [queue EXCEPT ![b] = SubSeq(@, 1, Len(@) - 1)]
  /\ UNCHANGED <<log, table, result, pc, tree>>

PopTask(b) ==
  /\ worker[b] = None
  /\ queue[b] # << >>
  /\ worker' = [worker EXCEPT ![b] = Head(queue[b])]
  /\ queue'  = [queue EXCEPT ![b] = Tail(@)]
  /\ UNCHANGED <<log, table, result, pc, tree>>

(* ... and btree_insert of the address and of the key read through it.     *)
IndexTask(b) ==
  /\ worker[b] # None
  /\ tree'   = tree \cup {<<b, worker[b]>>}
  /\ worker' = [worker EXCEPT ![b] = None]
  /\ UNCHANGED <<log, table, result, pc, queue>>

ServerStep(s) == HashInsert(s) \/ HashFull(s) \/ SeeRoom(s) \/ PushTask(s)

BackendStep(b) == PopTask(b) \/ IndexTask(b)

Next ==
  \/ \E s \in Server, k \in Key : AppendLog(s, k)
  \/ \E s \in Server : ServerStep(s)
  \/ \E b \in Drained : BackendStep(b)

Spec == Init /\ [][Next]_vars

(* A client need not send another request; a thread that is in a call goes *)
(* on, and a backend thread polls its queue for ever.                      *)
Fairness ==
  /\ \A s \in Server : WF_vars(ServerStep(s))
  /\ \A b \in Drained : WF_vars(BackendStep(b))

FairSpec == Spec /\ Fairness

-----------------------------------------------------------------------------
(* What is where.                                                          *)

SlotRecord == [sig : Nat, off : Int]

TypeOK ==
  /\ log    \in [Server -> Seq(Key)]
  /\ table  \in [Server -> [Bucket -> [Slot -> SlotRecord]]]
  /\ result \in [Server -> Seq(BOOLEAN)]
  /\ pc     \in [Server -> {"idle", "hash", "room", "push"}]
  /\ queue  \in [Server -> Seq(Offset)]
  /\ worker \in [Backend -> Offset \cup {None}]
  /\ tree   \in SUBSET (Server \X Offset)

(* The puts of thread s that have returned.                                *)
Acked(s) == IF pc[s] = "idle" THEN Len(log[s]) ELSE Len(log[s]) - 1

Popped(s) == Acked(s) - Len(queue[s])

Busy(s) == s \in Drained /\ worker[s] # None

Indexed(s) == IF Busy(s) THEN Popped(s) - 1 ELSE Popped(s)

(* Conservation: every record whose put has returned is in exactly one of  *)
(* the tree, the hands of the backend thread, and the queue, and these     *)
(* three hold, in this order, consecutive stretches of the log.  Nothing   *)
(* is lost, doubled or overtaken between insert and the tree, and the tree *)
(* never holds the address of a record that is still being put             *)
(* (hikv.h insert, threadpool.cc add_task and task handler).               *)
PipelineAt(s) ==
  /\ 0 <= Indexed(s)
  /\ \A i \in 1 .. Len(queue[s]) : queue[s][i] = Popped(s) + i - 1
  /\ Busy(s) => worker[s] = Indexed(s)
  /\ \A off \in Offset : <<s, off>> \in tree <=> off < Indexed(s)

PipelineInOrder == \A s \in Server : PipelineAt(s)

(* The queue never grows past the limit although add_task reads the size   *)
(* before it pushes: only thread s pushes to queue s (threadpool.cc        *)
(* add_task, called with the server thread's own number).                  *)
QueueBounded == \A s \in Server : Len(queue[s]) <= MaxQueue

Used(s, b, i) == table[s][b][i].sig # 0

(* A used slot leads to a record that the table has accepted, and holds    *)
(* the signature, in the bucket, of one of the seeds for that record's key.*)
SlotsLead(s) ==
  \A b \in Bucket, i \in Slot : Used(s, b, i) =>
    LET off == table[s][b][i].off IN
    /\ off \in 0 .. Len(result[s]) - 1
    /\ result[s][off + 1]
    /\ \E w \in Seed : /\ table[s][b][i].sig = Hash[w][log[s][off + 1]]
                       /\ b = BucketOf(log[s][off + 1], w)

(* No record has two slots.                                                *)
OneSlotEach(s) ==
  \A b1, b2 \in Bucket, i1, i2 \in Slot :
    /\ Used(s, b1, i1) /\ Used(s, b2, i2)
    /\ table[s][b1][i1].off = table[s][b2][i2].off
    => b1 = b2 /\ i1 = i2

(* Every accepted record has a slot.                                       *)
AcceptedHasSlot(s) ==
  \A n \in 1 .. Len(result[s]) : result[s][n] =>
    \E b \in Bucket, i \in Slot :
      Used(s, b, i) /\ table[s][b][i].off = n - 1

(* The hash table and the log agree, record by record, on what insert has  *)
(* answered (hashtable.h insert, hikv.h insert).                           *)
TableMatchesLog ==
  \A s \in Server : SlotsLead(s) /\ OneSlotEach(s) /\ AcceptedHasSlot(s)

(* No other key shares a hash with k.                                      *)
CollisionFree(k) ==
  \A j \in Key \ {k}, w, x \in Seed : Hash[w][k] # Hash[x][j]

(* The records of key k that the hash table has accepted.                  *)
Accepted(s, k) ==
  {off \in 0 .. Len(result[s]) - 1 :
     result[s][off + 1] /\ log[s][off + 1] = k}

(* hash_table::insert never updates: a search is led to the oldest         *)
(* accepted record of its key, however often the key is put again, and to  *)
(* the reserved 0 when there is none.  (A key whose oldest record is the   *)
(* first one of the partition reads as absent: its offset is the 0.)       *)
FirstPutWins ==
  \A s \in Server, k \in Key : CollisionFree(k) =>
    IF Accepted(s, k) = {}
    THEN HashSearch(table[s], k) = 0
    ELSE /\ HashSearch(table[s], k) \in Accepted(s, k)
         /\ \A off \in Accepted(s, k) : HashSearch(table[s], k) <= off

(* A search that has found a record keeps finding that record, whatever is *)
(* put later and also when signatures collide: a later insert never takes  *)
(* a slot that is probed earlier.                                          *)
SearchIsStable ==
  [][\A s \in Server, k \in Key :
       Search(s, k) # None => Search(s, k)' = Search(s, k)]_vars

(* A successful put can be read back: what the client's "search match"     *)
(* count (client.cc) expects of the keys it has put.                       *)
PutIsFound ==
  \A s \in Server, k \in Key :
    CollisionFree(k) /\ Accepted(s, k) # {} => Search(s, k) # None

(* A put answered with "put failed" leaves no record behind.               *)
FailedPutLeavesNothing ==
  \A s \in Server, off \in Offset :
    <<s, off>> \in tree => result[s][off + 1]

(* A put returns, even when add_task finds the queue full, for every       *)
(* server thread whose queue some backend thread polls.                    *)
PutReturns == \A s \in Drained : pc[s] # "idle" ~> pc[s] = "idle"

(* A record whose put has returned is eventually seen by range scans.      *)
AckedBecomesScannable ==
  \A s \in Drained, off \in Offset : off < Acked(s) ~> <<s, off>> \in tree

(* The records of partition s a scan is led to without a gap.              *)
Visible(s) ==
  CHOOSE n \in 0 .. MaxLog :
    /\ \A off \in 0 .. n - 1 : <<s, off>> \in tree
    /\ <<s, n>> \notin tree

(* The store is a write-once map whose records show up in put order.       *)
Store == INSTANCE KVStore WITH
  Part    <- Server,
  Live    <- Drained,
  value   <- [s \in Server |-> [k \in Key |-> Search(s, k)]],
  size    <- [s \in Server |-> Len(result[s])],
  visible <- [s \in Server |-> Visible(s)]

ImplementsStore == Store!Spec
ImplementsFairStore == Store!FairSpec
=============================================================================
