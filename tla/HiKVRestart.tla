---------------------------- MODULE HiKVRestart -----------------------------
(***************************************************************************)
(* HiKV across the ends and starts of the program, in the build with       *)
(* persistent memory (make use_pmdk: PM_USED, PMDK_USED and                *)
(* PERSIST_HASHTABLE).  Log records and hash slots live in the pool and    *)
(* outlive the program.  The logs' offsets, the queues and the B+-tree do  *)
(* not: ~hikv saves the offsets in a metadata file, and the next start     *)
(* reads them back and builds the tree from the hash table.  Whatever ends *)
(* the program otherwise -- a kill, a fault, the server's exit(0), a file  *)
(* that cannot be opened in save -- is a crash.                            *)
(*                                                                         *)
(* Every start is given the thread and partition counts of the first one.  *)
(***************************************************************************)
EXTENDS HiKV

CONSTANTS
  Torn,      \* the key of a record that a crash has cut short
  MaxStart   \* bound: starts of the program

ASSUME TornAssumption  == Torn \notin Key
ASSUME StartAssumption == MaxStart \in Nat

VARIABLES
  life,     \* what the program is doing
  pool,     \* pool[s]: the keys in the memory of log partition s
  meta,     \* the metadata file: its state, and the offsets last saved
  rebuilt,  \* the partitions whose slots restore has put into the tree
  restored, \* restored[s]: the tree entries it made, each with its slot
  indexed,  \* indexed[s]: the entries the backend has made since, in order
  starts,   \* number of starts
  saved,    \* saved[s][k]: what a search for k found at the last save
  stale     \* stale[s]: the used slots whose record a crash has taken back

store == <<log, table, result, pc, queue, worker, tree>>
rvars == <<log, table, result, pc, queue, worker, tree,
           life, pool, meta, rebuilt, restored, indexed, starts, saved, stale>>

Life == {"off", "restoring", "up", "saving", "ruined"}

(* hikv::search, with the record read where it is, in the pool.            *)
Read(s, k) ==
  LET off == HashSearch(table[s], k)
  IN  IF off # 0 /\ pool[s][off + 1] = k THEN off ELSE None

RestartInit ==
  /\ Init
  /\ life    = "off"
  /\ pool    = [s \in Server |-> << >>]
  /\ meta    = [state |-> "none", off |-> [s \in Server |-> 0]]
  /\ rebuilt = {}
  /\ restored = [s \in Server |-> {}]
  /\ indexed  = [s \in Server |-> << >>]
  /\ starts  = 0
  /\ saved   = [s \in Server |-> [k \in Key |-> None]]
  /\ stale   = [s \in Server |-> {}]

-----------------------------------------------------------------------------
(* A running program.                                                      *)

Overwrite(q, n, x) ==
  IF n <= Len(q) THEN [q EXCEPT ![n] = x] ELSE Append(q, x)

(* plog::append writes at the offset, over whatever is there.              *)
Put(s, k) ==
  /\ life = "up"
  /\ AppendLog(s, k)
  /\ pool' = [pool EXCEPT ![s] = Overwrite(@, Len(log[s]) + 1, k)]
  /\ UNCHANGED <<life, meta, rebuilt, restored, indexed, starts, saved, stale>>

(* hash_table::insert persists the address of a free slot first ...        *)
WriteSignatureFirst(s) ==  \* mistake: and the address second
  LET k == log[s][Len(log[s])] IN
  /\ life = "up" /\ pc[s] = "hash"
  /\ \E p \in Probe :
       /\ FirstFree(table[s], k, p)
       /\ table' = [table EXCEPT ![s][BucketOf(k, p[2])][p[1]].sig =
                      Hash[p[2]][k]]
  /\ UNCHANGED <<log, result, pc, queue, worker, tree>>
  /\ UNCHANGED <<life, pool, meta, rebuilt, restored, indexed, starts, saved, stale>>

WriteAddress(s) ==
  LET k == log[s][Len(log[s])] IN
  /\ life = "up" /\ pc[s] = "hash"
  /\ \E p \in Probe :
       /\ FirstFree(table[s], k, p)
       /\ At(table[s], k, p).off # Current(s)
       /\ table' = [table EXCEPT ![s][BucketOf(k, p[2])][p[1]].off = Current(s)]
  /\ UNCHANGED <<log, result, pc, queue, worker, tree>>
  /\ UNCHANGED <<life, pool, meta, rebuilt, restored, indexed, starts, saved, stale>>

(* ... and its signature second.                                           *)
WriteSignature(s) ==
  LET k == log[s][Len(log[s])] IN
  /\ life = "up" /\ HashInsert(s)
  /\ \E p \in Probe :
       FirstFree(table[s], k, p) /\ At(table[s], k, p).off = Current(s)
  /\ UNCHANGED <<life, pool, meta, rebuilt, restored, indexed, starts, saved, stale>>

(* The rest of insert.                                                     *)
GoOn(s) ==
  /\ life = "up"
  /\ HashFull(s) \/ SeeRoom(s) \/ PushTask(s)
  /\ UNCHANGED <<life, pool, meta, rebuilt, restored, indexed, starts, saved, stale>>

(* Nothing stops the backend threads while ~hikv runs.  An entry gets the  *)
(* key that its record holds when it is inserted.                          *)
Background(b) ==
  /\ life \in {"up", "saving"}
  /\ \/ PopTask(b) /\ UNCHANGED indexed
     \/ /\ IndexTask(b)
        /\ indexed' = [indexed EXCEPT ![b] =
                         Append(@, <<worker[b], log[b][worker[b] + 1]>>)]
  /\ UNCHANGED <<life, pool, meta, rebuilt, restored, starts, saved, stale>>

-----------------------------------------------------------------------------
(* The end of the program.                                                 *)

(* What the program held outside the pool is gone.                         *)
Forget ==
  /\ log'     = [s \in Server |-> << >>]
  /\ pc'      = [s \in Server |-> "idle"]
  /\ queue'   = [s \in Server |-> << >>]
  /\ worker'  = [b \in Backend |-> None]
  /\ tree'    = {}
  /\ rebuilt' = {}
  /\ restored' = [s \in Server |-> {}]
  /\ indexed'  = [s \in Server |-> << >>]

(* ~hikv, when the server threads have been joined: save opens the file,   *)
(* which empties it ...                                                    *)
BeginSave ==
  /\ life = "up"
  /\ \A s \in Server : pc[s] = "idle"
  /\ life' = "saving"
  /\ meta' = [meta EXCEPT !.state = "torn"]
  /\ UNCHANGED <<store, pool, rebuilt, restored, indexed, starts, saved, stale>>

(* ... and writes the offsets; then the pool is unmapped and main returns, *)
(* whatever is still queued.                                               *)
EndSaveOneShort ==  \* mistake: the offset of the last record, not after it
  /\ life  = "saving"
  /\ life' = "off"
  /\ meta' = [state |-> "whole",
              off |-> [s \in Server |-> Len(log[s]) - 1]]
  /\ saved' = [s \in Server |-> [k \in Key |-> Read(s, k)]]
  /\ Forget
  /\ UNCHANGED <<table, result, pool, starts, stale>>

EndSave ==
  /\ life  = "saving"
  /\ life' = "off"
  /\ meta' = [state |-> "whole", off |-> [s \in Server |-> Len(log[s])]]
  /\ saved' = [s \in Server |-> [k \in Key |-> Read(s, k)]]
  /\ Forget
  /\ UNCHANGED <<table, result, pool, starts, stale>>

(* A crash, which may catch the threads of "half" in nvmem_memcpy with a   *)
(* record that is not or only in part in the pool.  The records put since  *)
(* the offsets were saved are lost: the next start goes back behind them.  *)
(* Their slots stay used, also when another record takes the place.        *)
Crash ==
  /\ life \in {"restoring", "up", "saving"}
  /\ life' = "off"
  /\ \E half \in SUBSET {s \in Server : /\ life = "up" /\ pc[s] = "idle"
                                       /\ Len(log[s]) < MaxLog} :
       pool' = [s \in Server |->
                  IF s \in half THEN Overwrite(pool[s], Len(log[s]) + 1, Torn)
                  ELSE pool[s]]
  /\ stale' = [s \in Server |->
                 stale[s] \cup {bi \in Bucket \X Slot :
                                  /\ Used(s, bi[1], bi[2])
                                  /\ table[s][bi[1]][bi[2]].off >= meta.off[s]}]
  /\ Forget
  /\ UNCHANGED <<table, result, meta, starts, saved>>

-----------------------------------------------------------------------------
(* The start of the program.                                               *)

(* No metadata file: restore returns -1 and a new store is made.  The hash *)
(* tables are cleared, the pool's other contents stay.                     *)
StartNew ==
  /\ life = "off" /\ meta.state = "none"
  /\ starts < MaxStart
  /\ life'   = "up"
  /\ starts' = starts + 1
  /\ table'  = [s \in Server |->
                  [b \in Bucket |-> [i \in Slot |-> [sig |-> 0, off |-> 0]]]]
  /\ result' = [s \in Server |-> << >>]
  /\ stale'  = [s \in Server |-> {}]
  /\ UNCHANGED <<log, pc, queue, worker, tree, pool, meta, rebuilt, restored,
                 indexed, saved>>

(* restore reads the offsets and starts one thread per partition.  The     *)
(* file stays: a crash of this program too is followed by these offsets.   *)
StartRestoreFresh ==  \* mistake: the offsets start at zero again
  /\ life = "off" /\ meta.state = "whole"
  /\ starts < MaxStart
  /\ life'   = "restoring"
  /\ starts' = starts + 1
  /\ log'    = [s \in Server |-> << >>]
  /\ result' = [s \in Server |-> << >>]
  /\ UNCHANGED <<table, pc, queue, worker, tree, pool, meta, rebuilt, restored,
                 indexed, saved, stale>>

StartRestore ==
  /\ life = "off" /\ meta.state = "whole"
  /\ starts < MaxStart
  /\ life'   = "restoring"
  /\ starts' = starts + 1
  /\ log'    = [s \in Server |-> SubSeq(pool[s], 1, meta.off[s])]
  /\ result' = [s \in Server |-> SubSeq(result[s], 1, meta.off[s])]
  /\ UNCHANGED <<table, pc, queue, worker, tree, pool, meta, rebuilt, restored,
                 indexed, saved, stale>>

(* A file that is not whole: the values read are indeterminate, or an      *)
(* assertion on them fails, and nothing more can be said.                  *)
StartTorn ==
  /\ life = "off" /\ meta.state = "torn"
  /\ starts < MaxStart
  /\ life'   = "ruined"
  /\ starts' = starts + 1
  /\ UNCHANGED <<store, pool, meta, rebuilt, restored, indexed, saved, stale>>

(* bt_restore_by_ht_ptn inserts one entry into the tree for every used     *)
(* slot, under the key that the record at its address holds by now.        *)
(* (BTree shows what concurrent insertions do.)                            *)
Rebuild(s) ==
  LET used == {bi \in Bucket \X Slot : Used(s, bi[1], bi[2])}
      Off(bi) == table[s][bi[1]][bi[2]].off
  IN
  /\ life = "restoring" /\ s \notin rebuilt
  /\ restored' = [restored EXCEPT ![s] =
                    {[slot |-> bi, off |-> Off(bi), key |-> pool[s][Off(bi) + 1]] :
                       bi \in used}]
  /\ tree' = tree \cup {<<s, Off(bi)>> : bi \in used}
  /\ rebuilt' = rebuilt \cup {s}
  /\ UNCHANGED <<log, table, result, pc, queue, worker>>
  /\ UNCHANGED <<life, pool, meta, indexed, starts, saved, stale>>

(* bt_restore_by_ht joins the threads.                                     *)
JoinFirst ==  \* mistake: waits for one of the threads only
  /\ life = "restoring" /\ rebuilt # {}
  /\ life' = "up"
  /\ UNCHANGED <<store, pool, meta, rebuilt, restored, indexed, starts, saved, stale>>

JoinAll ==
  /\ life = "restoring" /\ rebuilt = Server
  /\ life' = "up"
  /\ UNCHANGED <<store, pool, meta, rebuilt, restored, indexed, starts, saved, stale>>

RestartNext ==
  \/ \E s \in Server, k \in Key : Put(s, k)
  \/ \E s \in Server :
       WriteAddress(s) \/ WriteSignature(s) \/ GoOn(s) \/ Rebuild(s)
  \/ \E b \in Drained : Background(b)
  \/ BeginSave \/ EndSave \/ Crash
  \/ StartNew \/ StartRestore \/ StartTorn \/ JoinAll

RestartSpec == RestartInit /\ [][RestartNext]_rvars

-----------------------------------------------------------------------------
Entry == [slot : Bucket \X Slot, off : Offset, key : Key \cup {Torn}]

InSession == life \in {"up", "saving"}

RestartTypeOK ==
  /\ TypeOK
  /\ life \in Life
  /\ pool \in [Server -> Seq(Key \cup {Torn})]
  /\ meta \in [state : {"none", "torn", "whole"}, off : [Server -> 0 .. MaxLog]]
  /\ rebuilt \in SUBSET Server
  /\ starts \in 0 .. MaxStart
  /\ saved \in [Server -> [Key -> Offset \cup {None}]]
  /\ stale \in [Server -> SUBSET (Bucket \X Slot)]
  /\ restored \in [Server -> SUBSET Entry]
  /\ indexed \in [Server -> Seq(Offset \X Key)]

(* What a search found when the store was last closed it finds ever after, *)
(* at the same place, however often the program crashes in between, as     *)
(* long as the record lies below the saved offset and the file is whole.   *)
(* (hikv.h save and restore, plog.h append, hashtable.h insert.  The one   *)
(* exception is a record above the saved offset that a slot of a crashed   *)
(* program still leads to: the next put to reach its place overwrites it.) *)
SavedIsDurable ==
  \A s \in Server, k \in Key :
    /\ CollisionFree(k)
    /\ saved[s][k] # None /\ saved[s][k] < meta.off[s]
    => Read(s, k) = saved[s][k]

(* A used slot leads to a record of a key with that signature, unless it   *)
(* was taken for a record that a crash took back.  In particular a crash   *)
(* between the two writes of hash_table::insert leaves the slot free, and  *)
(* one inside plog::append leaves no other slot on the broken record.      *)
SlotsSurviveCrash ==
  \A s \in Server, b \in Bucket, i \in Slot :
    /\ pc[s] # "hash"
    /\ Used(s, b, i) /\ <<b, i>> \notin stale[s]
    => \E w \in Seed, k \in Key :
         /\ pool[s][table[s][b][i].off + 1] = k
         /\ table[s][b][i].sig = Hash[w][k] /\ b = BucketOf(k, w)

(* After a restart the tree that scans read has one entry, under its own   *)
(* key, of every saved record that the hash table had accepted: the ones   *)
(* that were still queued when the store was closed are there, and the     *)
(* refused ones, which the scans of the program before did see, are not.   *)
(* Every other entry that the rebuild made is a stale slot's, also where a *)
(* later record has taken the place: that record is then in the tree once  *)
(* more, or once after all, under the key it had when the tree was built   *)
(* (hikv.h bt_restore_by_ht_ptn).                                          *)
ScansResumeAccepted ==
  InSession =>
    \A s \in Server :
      LET sound == {e \in restored[s] : e.slot \notin stale[s]} IN
      /\ \A e \in sound :
           /\ e.off < meta.off[s] /\ result[s][e.off + 1]
           /\ e.key = log[s][e.off + 1]
           /\ \A f \in sound : f.off = e.off => f = e
      /\ \A off \in Offset :
           off < meta.off[s] /\ result[s][off + 1] => \E e \in sound : e.off = off

(* From the restored offsets on, the backend puts the records into the     *)
(* tree in put order, each exactly once and under its own key, as in a     *)
(* store that was never restarted, whatever the tree was rebuilt from and  *)
(* whoever held the record's place before a crash.                         *)
SessionInOrder ==
  InSession =>
    \A s \in Server :
      /\ meta.off[s] <= Indexed(s)
      /\ \A i \in 1 .. Len(queue[s]) : queue[s][i] = Popped(s) + i - 1
      /\ Busy(s) => worker[s] = Indexed(s)
      /\ Len(indexed[s]) = Indexed(s) - meta.off[s]
      /\ \A i \in 1 .. Len(indexed[s]) :
           indexed[s][i] = <<meta.off[s] + i - 1, log[s][meta.off[s] + i]>>

(* The hash tables, without the addresses in slots that are still free.    *)
Tidy ==
  [s \in Server |-> [b \in Bucket |-> [i \in Slot |->
     IF Used(s, b, i) THEN table[s][b][i] ELSE [sig |-> 0, off |-> 0]]]]

Atomic == INSTANCE HiKV WITH table <- Tidy

(* Between a start and the end of the program the two persisted writes of  *)
(* hash_table::insert are one: every step is one of the engine with an     *)
(* atomic insert, or none, also on tables in which earlier crashes left    *)
(* addresses in free slots and records beyond the saved offset.            *)
SessionIsAtomic ==
  [][InSession /\ InSession' => [Atomic!Next]_(Atomic!vars)]_rvars
=============================================================================
