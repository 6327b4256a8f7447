# HiKV and its network server, in TLA+

This directory holds TLA+ models of the key-value store in
`src/bufferevent_single`, TLC configurations that check them on small
instances, and TLAPS proofs about the storage engine, its restarts, its
benchmark driver, its server and clients, and its tree. `PROJECT.json` is the
index: which module models which source lines, which run checks which property,
which hazard of the code each property is for.

## 1. The system

The repository measures what a key-value store costs when it is reached over
TCP. Three early echo programs (`single_thread`, `multi_thread`,
`bufferevent`) only echo a file; `bufferevent_single` is the program the others
led to and the one modelled here.

| component | source (under `src/bufferevent_single`) | state | operations |
|---|---|---|---|
| storage engine `hikv` | `Hikv/obj/hikv.h` | pointers to the parts below | `insert`, `search`, `search_part`, `range_scan`, `save`, `restore` |
| hash table | `Hikv/obj/hashtable.h` | per partition: buckets of 4 slots (signature, log offset) | `insert`, `search` |
| partitioned log | `Hikv/obj/plog.h` | per partition: records, current offset | `append` |
| task queues, backend threads | `Hikv/obj/threadpool.cc`, `.h` | one `tbb::concurrent_queue` per backend thread | `add_task`, task handler loop, `all_queue_empty` |
| FAST-FAIR B+-tree | `Hikv/obj/btree.h`, `btree.cc` | pages (entries, sibling, lock, counter), root, height | `btree_insert`, `store`, `btree_insert_internal`, `btree_search_range`, (`btree_search`, `btree_delete`: never called) |
| pool allocator | `Hikv/mem/pm_alloc.cc` | bump offset per partition | `alloc` |
| benchmark driver | `Hikv/test_main.cc` | phases of `main`, its threads | warm-up, wait, run, delete |
| key-value server | `server.cc` | event base per thread, a `bufferevent` per connection, shared counters | `accept_cb`, `read_cb`, `event_cb`, `signal_cb`, `server_thread` |
| key-value client | `client.cc` | per thread: a blocking socket, counts of requests and matches | `send_request`: puts, batched gets, scans |
| ring buffer | `server.cc` | read and write offsets | compiled, never used |
| echo programs | `../single_thread`, `../multi_thread`, `../bufferevent` | sockets, counters, a file | echo |

**How they interact.** A client thread owns one connection and sends one
request at a time. The kernel hands the connection to one of the server threads
(`SO_REUSEPORT`); that thread's number is the partition every request of the
connection works on. A put is `hikv::insert`: append to the partition's log,
insert the offset into the partition's hash table, push a task with the
record's address to the queue of the same number, answer. The backend thread of
that number pops the task and inserts the address into the one B+-tree all
partitions share. A get is `hikv::search` in the partition's hash table; a scan
walks the shared tree without a lock.

**What is hard here.** The put is answered before its record can be scanned;
several backend threads change the tree at once, taking one page lock at a
time; the scans take none and read pages entry by entry while they are shifted
and split; `add_task` checks a size and pushes later; `all_queue_empty` looks at
one queue after the other; the hash table may refuse a record the log already
has; nothing ever stops a backend thread. The hazards, at their lines, are listed
in `PROJECT.json`.

**What makes each component correct.** Hash table: it agrees with the log on
every answered insert, and searches are stable. Log: grows only, no record
overwritten. Queues: bounded, no task lost, doubled or overtaken. Tree: the
leaves are one sorted list of the inserted records, descents and postings
arrive, inserts end. Scans: stay inside pages, return only what is in the range,
miss nothing that was there before. Engine: point reads see a write-once map,
scans a growing prefix of the puts. Restart: what was saved is found again, and
the next session goes on where the saved one ended.

## 2. Modules

| module | models | extends |
|---|---|---|
| `KVStore` | abstract: what the engine promises per partition | |
| `HiKV` | engine: log, hash table, queue, backend thread, tree as a set | |
| `HiKVRestart` | engine over several starts of the program: save, crash, restore | `HiKV` |
| `HiKVBench` | benchmark driver over the engine | `HiKV` |
| `KVNet` | server, TCP connections and clients over the engine | `HiKV` |
| `FastFair` | leaf pages, one writer and one scan, access by access | |
| `BTree` | the whole tree, several writers, page by page | |
| `HiKVProofs` | types, queue bound, pipeline, table against log | `HiKV`, `TLAPS` |
| `HiKVTableProofs` | what searches return as the table fills | `HiKVProofs` |
| `HiKVRefinement` | `HiKV` implements `KVStore` | `HiKVTableProofs` |
| `HiKVRestartProofs` | what outlives a crash, what scans see after a restart, inserts in two writes are atomic | `HiKVRestart`, `HiKVTableProofs` |
| `HiKVBenchProofs` | what the wait of the benchmark is worth; the driver uses the engine as a store | `HiKVBench`, `HiKVRefinement` |
| `KVNetProofs` | clients and server stay in step, gets answer puts, the server is the engine | `KVNet`, `HiKVRefinement` |
| `FastFairProofs` | order of the leaves, what scans miss, return and repeat, when an insert takes effect | `FastFair`, `TLAPS` |
| `BTreeProofs` | shape of the tree, order, content and writers of its leaves, descents, postings, no deadlock | `BTree`, `TLAPS` |
| `MC*` | hashes, keys and work lists for TLC | the module named |

The build that is modelled is the one the makefiles produce: asynchronous
indexing (`HIKV_ASYNC`), no persistent memory (`PM_USED` and `PERSIST_BTREE`
off, tree pages come from `malloc`), `BATCHED_KEY` with `NUM_BATCH` 1 for server
and client. `HiKVRestart` alone is about the other build, `make use_pmdk`, which
adds `PM_USED`, `PMDK_USED` and `PERSIST_HASHTABLE`: log and hash table live in a
file that is mapped into memory.

### HiKV

One action per step that another thread can see. `hikv::insert` on server
thread `s` is a sequence, with `pc[s]` naming the place:

| `pc[s]` | action | code |
|---|---|---|
| `idle` | `AppendLog(s, k)` | `plog::append`: record and offset |
| `hash` | `HashInsert(s)` / `HashFull(s)` | `hash_table::insert`, both outcomes |
| `room` | `SeeRoom(s)` | `add_task` sees a queue that is not full (spinning is stuttering) |
| `push` | `PushTask(s)` | `add_task` pushes, insert returns |

`PopTask(b)` and `IndexTask(b)` are the two halves of the backend loop. A
record is its place in the log, so two puts of one key stand for two values
and no value is needed. The hash is a constant: two numbers per key, one per
seed, so an instance decides who collides. Slots are probed in the code's
order: `<<i, 1>>`, `<<i, 2>>`, `<<i + 1, 1>>`, ... A read is the operator
`Search(s, k)`: only thread `s` reads or writes partition `s`, never during its
own insert, so a read is one step and changes nothing.

`KVStore` is what a caller may rely on: each partition has a map written once
per key, a number of puts, and a number of puts the scans see, which grows by
one. `HiKV!Store` maps `value` to `Search`, `size` to the puts the hash table has
answered, `visible` to the gap-free stretch of the log in the tree.

### HiKVRestart

The same engine, with the memory split in what outlives the program and what
does not. `pool[s]` is the memory of log partition `s` and `table` the hash table,
both in the pool; `meta` is the metadata file. `log[s]` is the part of `pool[s]`
below the partition's current offset, which is a variable of the program like
the queues and the tree (`Forget`). Every start has the thread and partition
counts of the first.

| action | code |
|---|---|
| `Put`, `WriteAddress`, `WriteSignature`, `GoOn`, `Background` | the steps of `HiKV` while the program is up; a slot is filled in two persisted writes |
| `BeginSave`, `EndSave` | `~hikv`: `save` opens (and empties) the file, then writes the offsets; tasks that are queued are forgotten |
| `Crash` | any other end: a kill, a fault, the server's `exit(0)`, a `save` that cannot open its file. A record that is being copied is left cut short (`Torn`) |
| `StartNew` | no metadata file: a new store; the hash tables are cleared, the rest of the pool is not |
| `StartRestore`, `Rebuild`, `JoinAll` | `restore`: offsets read back, one thread per partition inserts the record of every used slot into a new tree, the threads are joined. The file stays as it is |
| `StartTorn` | a file that `save` has not finished: the values are indeterminate or fail an assertion, and the model says no more |

The tree is more than a set of addresses here, because the rebuild inserts one entry
for every used slot and so may insert an address twice. `restored[s]` has an entry per
slot: the slot, the offset it leads to, and the key the record there holds when the
tree is built. `indexed[s]` is the sequence of the entries the backend thread has made
since, each with the key it was made under.

`saved` and `stale` are history: what a search found at the last save, and the used
slots whose record a crash has taken back. The next session uses that record's offset
again, for whatever is put next; the slot stays stale all the same.

### HiKVBench

`main` of `test_main.cc` is a phase variable: `warmup`, `poll`, `run`,
`deleted`. `all_queue_empty` looks at one queue per step (`polled`), because
backend threads go on in between. A phase puts any number of records.

### KVNet

A client is a place in `send_request` and its registers (`cl[c]`); a connection is
two byte streams cut in pieces (`conn[c]`); a server thread is in its event
loop or serves one put (`serving[s]`), whose steps are those of `HiKV`.
Requests are recognised by length alone, as in `read_cb`. TCP is external and
modelled by what the two programs meet: replies come in pieces of at most
`Mss` bytes; a server that exits leaves an end of stream, or a reset when a
request was unread; a write to a closed peer succeeds at first. `Stop` is
SIGINT: `exit(0)` from one event loop while other threads may be anywhere in
`hikv::insert`. A read that returns -1 is added to the byte count, signed in the
loop of gets, unsigned in the loop of scans, as the code's types make it.

### FastFair

Every load and store of the leaf's entries, sibling pointers and counters that
writer and scan share is a step; keys are copied in `NumWord` pieces. The
writer's steps follow `store` and `insert_key`: split into an unseen page,
link it, bump the counter, cut the old page, then shift from the right and fill
the hole. The scan's follow `linear_search_range`: copy the key, read the
pointer, compare it with the left neighbour's, compare the key again. One
writer is enough: two never write one leaf at the same time, which is the
business of `BTree` (`NewLeafIsPrivate`). A record with the key a page begins with may be inserted
into that page or the one before, depending on whether the parent already
knows the page; `IsTarget` leaves both open.

### BTree

Pages are records in order of allocation; an insert is a descent, a lock, a
move right or a store, and after a split a new root or a posting one level up,
which is a new descent. Each is a step of its own, so descents overtake and are
overtaken. `LetGo` and `MoveRight` are apart because the code unlocks before it
reads the sibling pointer again. `SplitPage` and `CutPage` are apart because
others may see the linked page in between; `CutPage` inserts into the new page with the
number of entries that were counted at the split (`cnt`, the code's `sibling_cnt`), so that
what a second writer has put there meanwhile is overwritten or left under a wrong key
(`InsertedAtCount`).

A store is one step here, but a descent reads an inner page entry by entry, without
a lock, while `insert_key` shifts it word by word. `Fills(o, p)` says that thread `o` is
about to shift page `p`. A search that meets such a page may come
out at any child the page holds or is getting (`MisreadEntry`), and its comparison with
the first key of the sibling, when that is being written over, may turn out either way
(`MisreadSibling`, `MayGo`, `MayStay`). Most of these outcomes do no harm, because they
are too far left. The history variable `raced` is set by those that are not: a search that
takes an entry or a sibling which its key is below, or by mistake the leftmost child; and a cut
that inserts into a page a second thread has been at (`SecondWriter`). The model goes on
afterwards, with the tree such a step leaves.

## 3. Runs

| run | instance | states | shows |
|---|---|---|---|
| `hikv_store` | 1 partition, 4 keys of which 3 share hashes, 2 buckets of 2 slots, queue of 2, 5 puts | 29 689 | `TableMatchesLog`, `FirstPutWins`, `SearchIsStable`, `PipelineInOrder`, `QueueBounded`, puts return and become scannable, refinement of `KVStore` with fairness |
| `restart` | 2 server threads, 1 backend thread, 2 keys, 2 buckets of 1 slot, queue of 1, 2 puts per partition, 4 starts | 2 348 478 | `SavedIsDurable`, `SlotsSurviveCrash`, `SessionIsAtomic`, `ScansResumeAccepted`, `SessionInOrder` |
| `hikv_put_get` | 1 partition, 2 keys | violated after 2 steps | `PutIsFound` |
| `hikv_refused` | 1 slot, 2 keys | violated | `FailedPutLeavesNothing` |
| `bench_wait` | 3 server, 2 backend threads, 3 puts each, queues of 2 | 178 703 | `WarmupAlmostIndexed`, `PollEnds` |
| `bench_delete` | 1 thread each | violated | `DeletedOnlyWhenDrained` |
| `fastfair_scan` | pages of 4 entries, 3 pages, 5 records of which 2 have one key, keys of 2 words, 2 ranges | 960 266 | seven scan and page properties, `FirstKeyIsFixed` |
| `fastfair_range` | keys of 1 word | violated | `ScanFindsRange` |
| `fastfair_torn` | 3 records, keys of 2 words of which two end alike | violated | `ScanReturnsRange` |
| `btree` | 2 backend threads, 6 inserts each, pages of 4 entries | 335 844 | six tree invariants, `InsertsEnd` |
| `btree_inner` | 3 backend threads, 15, 1 and 1 inserts, pages of 4 entries | violated after 131 steps | `NewPageIsPrivate` |
| `kvnet` | 2 clients that share a key, 2 server and 2 backend threads, 2 puts, 2 gets and a scan each, 2 slots | 284 673 | `InStep`, `ReadYourPuts`, `ClientsEnd`, `OnlyGetsHang` |

Deadlock is not checked: bounded numbers of puts come to an end.

**Why the bounds are enough.** Each is chosen so that the case the properties
fear occurs. `hikv_store`: 5 puts into 4 slots fill both buckets, so that one is
refused; one key has the same bucket twice, one shares a signature with each of two
others, every key can be put twice; the queue of 2 is met full. A partition without a
backend thread, whose thread spins for ever, is in `restart` and `bench_wait`. `restart`: with four starts an offset is
put, lost in a crash of a restored session, put again, saved, and restored next to the stale slot of
its first record, whose key may be another one; with two
puts and two slots per partition a record may be overwritten after a crash or cut
short, and a put may find the slots of its key taken by lost records and be refused; one
partition has no backend thread, so its records come back by the rebuild
alone. `bench_wait`: more server than
backend threads and one put more than a queue takes, so that the thread of the unpolled queue spins
while `main` waits.
`fastfair_scan`: pages of 3 usable entries and 3 pages give two splits with a
scan on either side; a page of 4 is the smallest whose halves both keep more
than a terminator (the code has 6). Two words per key give torn keys. Instances with
6 records, pages of 5 or 6 entries and keys drawn at random have been run for
the scan's properties as well, without a violation.
`btree`: 12 inserts, one thread ascending and one descending, give three levels, two
root splits and inner splits, and one key twice; `PostFindsLevel` and `NewLeafIsPrivate` have their races
there, and descents meet inner pages that are being written, so that searches are misread both
to the left, where the invariants have to hold, and to the right, where `raced` is set. What these
bounds are too small for is the mis-ordering of inner pages:
that is `btree_inner`, where a third thread waits with one posting while a page is
split three times; its constraint cuts behaviours off once `raced` is set, because the
violation it is to find has another cause. `kvnet`: the two clients may be given one thread, where
three keys meet two slots (one put is refused), or two; a scan's reply of 512
bytes comes in two pieces; SIGINT may come at every step.

**Fairness.** A thread inside a call goes on, and a backend thread polls for
ever (`thread_pool_task_handler` has no way out): weak fairness on
`ServerStep(s)`, `BackendStep(b)`, `Step(b)` of `BTree`, the driver's polling and, in
`KVNet`, on each client, server and backend thread. Nothing is assumed about
callers: no fairness on `AppendLog`, on the phases' end or on `Stop`. Locks are never
contended for ever in the instance, since every thread's work is finite, so
weak fairness is enough for `InsertsEnd`. `PutReturns` and `AckedBecomesScannable`
are claimed for partitions with a backend thread only, because for the others
they are false: with fewer backend than server threads the queue of such a
partition fills up and `add_task` spins for ever, with the client waiting.

## 4. What the checks have shown

Disagreements between the code and what it says of itself (`findings`):

1. **The first record of each partition cannot be read** (`hikv_put_get`). Offsets
   start at 0 and 0 means "not found" in `hikv::search`.
2. **A refused put is visible to scans** (`hikv_refused`). `hikv::insert` looks at
   the hash table's answer only when it returns.
3. **The store is deleted under the backend threads** (`bench_delete`). Only the
   warm-up is waited for.
4. **A range scan can stop early** (`fastfair_range`). A key that is not below `max`
   ends the whole scan, and such a key may be an old one behind the terminator
   of a page that was just split. Records indexed long before are missed.
5. **Two threads can write one inner page at a time** (`btree_inner`). `store` fills
   the page it has just linked without that page's lock, and decides whether to move right
   by the first key of the sibling (`btree.h:725`), where the key the page was split
   at would be right. For leaves the two are one key. An inner page's sibling begins
   with a larger one, so a posting between the two that waited for the lock lands in
   the old page, and later postings put smaller keys in front of the sibling. From then
   on the keys of that level are out of order, and a thread that has let go of a
   page may, after two more splits, lock the page being filled and find that its
   key belongs there. Random runs find it with pages of six entries as well (three
   threads, 55 inserts). If the writer of the
   new page then inserts there itself, it does so at the place it had counted, and what the
   other has put in is overwritten or ends up under a wrong key (`CutPage`): a posting may be lost.
   From then on the tree's properties say nothing (`raced`).
6. **A range scan can return a record outside the range** (`fastfair_torn`). A scan
   copies a key of 64 bytes, reads the pointer and compares the key again; neither
   the copy nor the comparison is one access. With two inserts into the page the
   comparison can meet the first words of one key and the last of the next, agree with the copy,
   and let the pointer of a third record pass. It was found when the proof that this
   cannot be was tried: the invariant that ties a scan's copy to its pointer
   does not survive the second insert.

What the properties say where they hold, and what they do not:

* `FirstPutWins`: the store never updates. A key put again takes another slot; the
  oldest accepted record answers every get. The second value shows up in
  scans only.
* `WarmupAlmostIndexed`: the wait before the run phase is one record per backend
  thread short, because the popped task is in no queue.
* `EndedScanMissesNothing`, `ScanStaysInRange` (with at most one insert since the scan
  began) and `QuietScanIsExact` are what remains of a scan's promise next to findings 4
  and 6. A scan may return a record
  twice, or two records out of order, while a page is split. Taking the
  counter comparison at the end of a page out of the scan changes none of the checked
  properties: without deletes the counter only ever grows by two.
* `RepeatsAreBounded` says how many: per insert that runs meanwhile, the upper half of
  a page and one record more. The bound is reached (with pages of 4: a scan of
  three records returns six while one insert splits their page), and it is
  what a caller has to add to the range when it allocates the result, as the server
  does not (`server.cc:404`).
* `ScanStaysInPage` is what keeps a loop without a bound inside the page: entry
  `Card - 1` is never used.
* `NewLeafIsPrivate` is the argument for the single writer of `FastFair`: a split
  fills the linked leaf without its lock, and the only thread that can lock
  that leaf meanwhile finds that its key belongs further right. On inner
  pages finding 5 takes its place.
* `DescentStaysLeft` speaks of inserts on their way to a leaf: those find their leaf
  although inner keys may be out of order, because a key that is out of place leads to
  the left of where it should. Of postings it is not true, for the same reason as finding 5.
* `DescentStaysLeft`, `LeavesHoldStored`, `NewLeafIsPrivate` and `PagesPosted` hold until `raced`. That is a
  limit of the code, not of the model. `linear_search` (`btree.h:1061-1071`) copies a key of 64
  bytes in several loads and compares the copy once, where the scan of a leaf compares again; `insert_key`
  (`btree.h:646-673`) writes such a key over its left neighbour's in several stores. A search for (1, 5) that
  meets (2, 0) being overwritten with (1, 9) may read (1, 0), and goes right of its key. Or an entry is
  skipped because, in the middle of a shift, its pointer is its left neighbour's, and the
  neighbour's pointer is read only after the shift is over. `switch_counter` is changed by
  deletes and splits, not by an insertion, so that the loop around the search does not notice. An insert led
  astray like this puts its record into a leaf right of its place, and neither the order of the leaves nor
  a scan's assumption that it starts left of its range is safe from then on. The
  window is a few loads wide.
* Misreads to the left are frequent by comparison and cost a few sibling pointers: this is what the
  invariants of `btree` show while `raced` is false. `PostFindsLevel` and `InsertsEnd` do not depend on `raced`.
* `OnlyGetsHang`: a client that waits for values when the server ends closes its
  socket and goes on reading it (`client.cc:560`), for ever; all other clients end.
* `PostFindsLevel`: the silent return of `btree_insert_internal` is never taken.
* `PagesPosted`: whatever is posted late, and whichever inner pages are out of order, every page
  keeps its place in a parent as long as no two threads write a page that one of them has just linked. If they
  do, a posting may be lost: the page is then reached along its siblings only.
* `InStep`: although no message has a header, lock-step requests keep both
  streams aligned. It needs that a request arrives in one read
  (`NetAssumption`: `Mss` is at least the longest request), that a batch of gets is as
  long as no other request (not 2 keys, a scan, nor 5, a put), and that `NUM_BATCH`
  divides the number of gets: the last, shorter batch is answered by nothing or
  by another branch.
* `ReadYourPuts`: what a get may miss is finding 1 and refused keys, and nothing else, also
  when connections share a partition. This is said of keys as values. The client sends 64 bytes of
  which it writes the digits only (`client.cc:495`): if put and get find different bytes behind them in their
  `malloc`ed memory, they ask for different keys, and a get may miss for that reason as well.

* `SavedIsDurable` and `SlotsSurviveCrash`: after a clean end all is found again, except
  what was refused, which the scans of the next session do not show either
  (`ScansResumeAccepted`): a scan's result changes across a restart, and may have entries too many.
  The slot of a record that a crash took back stays used, and the rebuild makes an entry of it. If its
  offset has been put again, that record is in the tree twice, or once although the hash table refused
  it; a record that was cut short is there under whatever key its bytes spell. An entry the rebuild made of
  an offset that is put again only afterwards stays where the old key belongs and leads to the new record: a
  scan then finds a record twice, once out of order, or not at all where its key belongs. What is put in a
  session is entered once and under its own key all the same (`SessionInOrder`). After a crash
  of a restored session the records put since the last save are lost although they
  were answered with success and are in the pool, because only the
  destructor saves the offsets. Their slots stay, and lead to whatever is
  put at the same offset later: `Read` then compares the key and says "not
  found", and as the first match hides later ones, a key that is put again may
  stay unreadable. This is why the properties speak of saved records only.
* `SessionIsAtomic`: a slot is filled in two persisted writes, and a crash between them leaves an
  address in a slot that is still free. Nothing shows it: within a session every step
  is one of `HiKV`, with an insert that takes its slot at once, or none. Only the signature makes a
  slot used, so the order of the two writes is what matters, and it is the right one.
* A store that crashes before its first save has no metadata: the next start
  makes a new one and clears the hash tables.

## 5. Proofs

All theorems hold for all values of the constants, from the named assumptions of
the modules alone (`SizeAssumption`, `HashAssumption`, `TornAssumption`,
`StartAssumption`, `NetAssumption`, `FastFairAssumption`, `BTreeAssumption`), and no other hypotheses. What the
theorems about the tree say of leaves, descents and postings they say until `raced`, as the properties do.

| theorem | module | says |
|---|---|---|
| `TypeCorrect` | `HiKVProofs` | `Spec => []TypeOK` |
| `QueueNeverOverflows` | | `Spec => []QueueBounded` |
| `PipelineConserved` | | `Spec => []PipelineInOrder` |
| `TableAgreesWithLog` | | `Spec => []TableMatchesLog` |
| `OldestIsFound` | `HiKVTableProofs` | `Spec => []FirstPutWins` |
| `SearchNeverChanges` | | `Spec => SearchIsStable` |
| `StoreImplemented` | `HiKVRefinement` | `Spec => ImplementsStore` |
| `RestartTypeCorrect` | `HiKVRestartProofs` | `RestartSpec => []RestartTypeOK` |
| `SavedStaysReadable` | | `RestartSpec => []SavedIsDurable` |
| `SlotsSurvive` | | `RestartSpec => []SlotsSurviveCrash` |
| `AcceptedAreScanned` | | `RestartSpec => []ScansResumeAccepted` |
| `SessionConserved` | | `RestartSpec => []SessionInOrder`, reused offsets included |
| `InsertsAreAtomic` | | `RestartSpec => SessionIsAtomic` |
| `BenchTypeCorrect` | `HiKVBenchProofs` | `BenchSpec => []BenchTypeOK` |
| `WaitLeavesOne` | | `BenchSpec => []WarmupAlmostIndexed` |
| `BenchmarkUsesStore` | | `BenchSpec => ImplementsStore` |
| `NetTypesCorrect` | `KVNetProofs` | `NetSpec => []NetTypeOK` |
| `ClientsStayInStep` | | `NetSpec => []InStep` |
| `ClientsReadTheirPuts` | | `NetSpec => []ReadYourPuts` |
| `ServerRunsEngine` | | `NetSpec => Spec`, the specification of `HiKV` |
| `ServerRunsStore` | | `NetSpec => ImplementsStore` |
| `FastFairTypeCorrect` | `FastFairProofs` | `Spec => []TypeOK` |
| `PagesStayTerminated` | | `Spec => []ScanStaysInPage` |
| `FirstKeysNeverMove` | | `Spec => FirstKeyIsFixed` |
| `LeavesAreSorted` | | `Spec => []LeavesSorted` |
| `EndedScansMissNothing` | | `Spec => []EndedScanMissesNothing` |
| `QuietScansAreExact` | | `Spec => []QuietScanIsExact` |
| `OneInsertStaysInRange` | | `Spec => []ScanStaysInRange` |
| `RepeatsStayBounded` | | `Spec => []RepeatsAreBounded` |
| `InsertsTakeEffect` | | indexed records change only by the record whose pointer is written |
| `TreeTypes` | `BTreeProofs` | `Spec => []TypeOK` |
| `PostingsFindTheirLevel` | | `Spec => []PostFindsLevel` |
| `NewLeavesHaveOneWriter` | | `Spec => []NewLeafIsPrivate` |
| `LeavesStaySorted` | | until `raced`, every leaf is in order, and not above the first key of its sibling |
| `LeavesHoldAll` | | `Spec => []LeavesHoldStored` |
| `LeavesTakeNext` | | until `raced`, what the leaves hold changes only by the next record of one thread |
| `HoldersNeverWait` | | the lock a thread waits for is held by one that does not wait |
| `DescentsStayLeft` | | `Spec => []DescentStaysLeft` |
| `PagesGetPosted` | | `Spec => []PagesPosted` |

**Engine.** `TypeOK` is not inductive: `worker` and `queue` hold offsets below
`MaxLog` only because a thread inside `insert` has a record, and `QueueBounded`
needs to know that between the check and the push the queue has room.
`Lengths` says this: how `pc`, `log` and `result` are counted, and
`pc[s] = "push" => Len(queue[s]) < MaxQueue`, which holds because only thread `s`
pushes to queue `s`. `TypeInv == TypeOK /\ Lengths` is inductive (`TypeInit`,
`TypeStep`).

`PipelineInOrder` is inductive relative to `TypeInv`. Its queue part does not look at
the tree (`QueueAt`, `QueueStep`, with one case per action), so that restarts can use
it again; `QueueFrame` disposes of actions and partitions that leave log, queue and
worker alone, and `OneMore` says what `IndexTask` adds. The counts `Acked >= Popped >= Indexed` place queue,
worker and tree one behind the other in the log.

`TableMatchesLog` is inductive relative to `TypeInv`. `FillAt` says what a filled slot
and every other slot hold afterwards, `TableInsert` shows the three parts for
`HashInsert`, where the new offset is the length of `result` and so is in no slot yet,
and `TableFrame` covers all other actions. No assumption about collisions is
needed.

`HashAssumption` excludes the hash value 0, which marks a free slot. The code
does not check for it; a 64-bit hash hits it once in 2^64 keys.

**Searches.** `SearchIsStable` and `FirstPutWins` rest on one idea: an insert takes the
first free probe of its key, so no free probe of a key lies before a used one
of the same key. The strengthening says this of every two records of one key,
whose probes are ordered like their offsets (`OlderFirst`), and that a slot is
never emptied or refilled.

**Refinement.** `KVStore` has no queue and no slots. Under `TypeInv`, `TableInv`
and `PipelineInOrder` the tree of a partition is exactly the offsets below
`Indexed(s)`, so that the `CHOOSE` in `Visible` is `Indexed` (`VisibleIsIndexed`).
Then `HashInsert` and `HashFull` are the abstract put, `IndexTask` shows one more
put to the scans, and all other steps stutter. Fairness is not part of the theorem:
`ImplementsFairStore` stays with TLC.

**Restart.** `RestartInv` adds to the types (`ShapeOK`, all but those of the tree's entries): what
`life` says of the file and of the
program's variables (`LifeInv`), that below its offset the log is the pool
(`PoolInv`), that every used slot leads into the pool and, unless it is
stale, to a key of its signature and bucket (`SlotInv`), that between programs a slot that leads beyond
the saved offset is stale (`StaleInv`), and `SavedIsDurable` itself. The
step lemma of the last needs that no step changes a used slot or the pool below
the saved offset (`Undisturbed`), which every action is shown to obey.

**Scans after a restart.** Neither property is inductive: outside a session both say nothing,
and what the rebuild brings back is in the slots. `TreeInv` says for each partition
which records have a slot that is not stale, and only one: those whose answer still stands and was yes
(`AnswersAt`); that before a session nothing is in the tree, queue or worker (`RestAt`); that during the
rebuild `restored` has an entry of each slot of the partitions done so far (`RebuildingAt`,
`RestoredAt`); and that in a session the entries of the slots that are not stale are the accepted
records below the saved offset (`SoundAt`), and `indexed` the records from there on as far as the queue
has been worked off (`QueueAt`, `IndexedAt`). The end of the rebuild turns the one into the other
(`JoinSession`); engine steps carry it on (`EngineSession`): what the backend thread inserts is the
record at `Indexed`, and `EngineEntry` says that it inserts it under the key the log has there. That
`indexed` has its type follows from the same order, so `RestartTypeCorrect` comes last.

**Two writes, one insert.** `InsertsAreAtomic` is the refinement of `HiKV` by a session of the
persistent build. `Tidy` is the hash table without the addresses in free slots: writing the
address is then a stutter (`AddressIsNothing`), and writing the signature the whole of
`HashInsert` (`SignatureIsInsert`), because the address next to it is that of the record that is
being inserted. A probe asks a slot for its
signature alone, so free slots are the same in both tables (`SameProbes`).

**Driver.** `WaitInv`: while `main` waits no server thread is in a call, so a queue that
was found empty stays so; when the run phase starts, `warm[s] <= Popped(s)`, and
`Popped` never falls (`PoppedGrows`). With `PipelineInOrder` this leaves one record
per backend thread.

**Network.** `NetInv` says of every client, step by step of its loop, how far its counters
have come and what its two streams hold (`StepAt`): nothing, while it is between two
requests (`Idle`); one request in the upward stream or in a server thread's hands
(`Asking`, `Putting`); the rest of one reply in the downward one (`Answered`); or, once
the server is gone, whatever it left (`Lost`). Pieces of a reply are counted in
multiples of `Mss`, and that the rest of a reply ends where its last piece does
(`RestEnds`, `LastPiece`) is what keeps the next request from meeting old bytes.
`ClientsStayInStep` follows. For `ReadYourPuts` the engine's actions have to be found
in the network's: every step of `NetNext` is a step of `HiKV` or leaves its variables
alone (`EngineStep`), so `TableInv` carries over. A put that was answered is settled, once and for all
(`SettledKept`): either a record of the key was accepted or no probe of it is free, and then
none ever will be. `ReadInv` says that the puts a client has been answered are settled,
that a reply on its way says of its keys what the partition still says, and that the keys
missed so far are those it should miss.

**Composition.** The same `EngineStep` gives `ServerRunsEngine`: every behaviour of the network
is one of `HiKV`, so all theorems about the engine hold of the server, the refinement of `KVStore`
among them (`ServerRunsStore`). The driver's phases add nothing to the engine's steps either
(`BenchmarkUsesStore`); the theorem ends where the model does, at the deletion of the store.

**Leaf pages.** The writer's invariant says where the hole is: a page that is being
split has its upper half whole, terminated and beginning with the key the old
page is cut at (`SplitReady`); and the new key is not below the first key of
its page unless that is the leftmost one, so that the hole never reaches slot 0
there (`HoleInPage`). `Terminated` and `NotEmpty` follow step by step. `Count` and
`NewPage` are choices, which are shown to exist by taking a least element.

`LeavesAreSorted` needs to know what the pages look like inside an insert. `Live` leaves
out the hole and the half that is being moved; `LeafOrder` says that what is left of
each page is in order and not above the first key of the sibling, `Apart` that no record
is in two pages, and `HoleInv` how far the copy of a key into the hole has come and that
the new key belongs there. `SplitInv` places the new page between the old one and its
sibling before and after it is linked, `ChainInv` keeps unlinked pages unlinked, and
`EndInv` relates `last_index` to the terminator. `FirstInv` is about the empty tree.

`EndedScansMissNothing` adds three facts about pages. `HalfInv`: until the old page is
cut its upper half is a copy of the new one, so a scan finds it in one or the other.
`TwinInv`: the hole holds the pointer of its right or its left neighbour, so the leftmost
pointer to a record always has the record's key next to it (`LeadKey`), and a null behind
slot 0 is behind all records (`NullEnds`). `RightInv`: all pages are reached from the
leftmost one. Then `ScanInv` says of every record the scan must find that the scan has
it, or has not come to its leftmost pointer in this page, or is at it and has read what
belongs to it, or will find it further right. A writer's step moves pointers only to the
right (`PtrMoves`) or to a page on the right (`WriteMoves`), which is what makes it hold
between any two loads of the scan; `MissesKept` is the writer's half of the proof,
`ScanMisses` the scan's.

`QuietScansAreExact` is about scans that see no write. They begin while the writer is idle,
and nothing but the start of an insert or the copy to an unlinked page can happen then, so
every leaf stays in order up to its last entry (`Still`). The chain does not come back to a
page: no two pages have the same sibling (`JoinInv`), and so nothing behind a page is
below its records (`BeyondAbove`). What has been put out is therefore below all that is
ahead (`Later`), and what the scan puts out next is the next record (`QuietInv`).
A scan that stops has met a key that is not below max, and with it all that is ahead.

`OneInsertStaysInRange` is about what a scan returns when at most one insert has run since it
began. One insert writes each word of each key at most once, from one neighbour's key to the
next (`WordStep`), and what it may still write is known (`Pending`). Every pointer that is not null
has its record's key next to it, but in the hole (`Matches`). So at the second comparison the
copy is the pointer's key (`Fits`), or the comparison will find a difference (`Differs`), or the
pointer is that of the left neighbour and is skipped (`IsLeft`): this is `OneInv`. A second insert
may write a word again, which is finding 6.

`RepeatsStayBounded` counts. `RepeatInv` compares what a scan has put out, with the copies that still
lie ahead of it (`Copies`), and the distinct records among them. An insert makes copies in
two ways: it fills the slot behind the last entry, which adds one, and it links a page, which adds
an upper half until the old page is cut (`SplitHalf`). The bound grants an insert both when it starts; what
it has not used of that is in `Reserve`, so that the invariant holds between any two of its
steps (`Budget`). A scan that finds the counter changed throws away what it has read of the page and begins
it again: the same bound has to hold of the page read from its first entry (`FewAgain`).

`InsertsTakeEffect`: records are indexed by the pages that are linked. All steps but the store of the
pointer into the hole keep the set of them: a shift moves a pointer to the right of a copy, a
page is linked while the old one holds its records too, and a cut takes away what the new page holds
(`WriteIndexes`, from the same `PtrMoves`). So the one step `IndexTask` of `HiKV` is
justified, in which a record comes into the tree at once.

**Tree.** Layers, each inductive relative to those before it.
`Shape`: levels, children and siblings fit together, a page has one lock holder, and a
thread that splits holds the old half. `HeightInv`: the highest level has a second
page only while the root is being split, by the thread that has its lock; so the level
a split posts to is there (`PostingsFindTheirLevel`). `KeyInv(lo)` orders the leaves and
says where descents end. It needs, for every page, a key `lo` below which a descent
from the page might end too far right; first keys of inner pages cannot serve, because
postings that come late move them (finding 5). Splits give the new page the `lo` of
its leftmost child, and the invariant is that some `lo` exists until `raced`
(`KeysKept`). What a search may come out at, misread or not, is collected in
`Leads`; unless it was led astray it has taken the child of an entry that its key is not below, the
leftmost child of a page whose first key it is below, or a sibling it is not below (`Found`), and
each of these has a `lo` that the key is not below (`EntersNext`). This is where `raced` is
needed, and the reason why a misread to the left is harmless. The third part of `KeyInv`,
`AloneInv`, says of a leaf that is linked and not yet filled that no page but the old
half points to it, and that any other thread that has got there has a key from beyond
both halves: this makes it safe to fill without a lock (`NewLeavesHaveOneWriter`). `TypeOK`
needs this as well, through `CountInv`: had the new leaf a second writer, it could be
filled to its end. It bounds leaves only, because the second writer that inner pages
do have may fill them beyond `Card - 1`. `LeavesStaySorted` and `DescentsStayLeft` are
read off `KeyInv`.

`RecordInv` follows the records: every
stored one has exactly one place (`Spot`), a position in a leaf, and every entry of a leaf
is such a place; an insert adds one place, a split moves the upper half's, and a cut
removes nothing but what the new leaf holds. With the order of the leaves this is
`LeavesHoldAll`. From one state to the next it gives `LeavesTakeNext`: only the store into a leaf and the
cut of one change what the leaves hold, each by the next record of the thread that does it.

`Posted` says of every page that is some page's sibling that a parent
has it, or the thread that linked it, or the thread that is posting it. It is inductive
until `raced`: a cut could lose a posting only where the new page's entries are not those that were
counted, or are about to be cut by the page's second writer, and both are what `raced` records
(`CutEffect`). Without a second writer `InsertedAtCount` is `Inserted` (`InsertedAtCountFacts`).

`HoldersNeverWait` is the safety half of `InsertsEnd`. `LockInv` says that a lock is held by the thread that is at its
page, between taking it and letting go, and by no other; in these places a thread is
waiting for nothing, since it lets go of its page before it moves right or posts. So
waiting threads never make a circle, also on inner pages that have two writers.

Threads lock, move, link, cut and post
in any order, but each of these steps is one step of the model; what a scan makes of a leaf while
entries are shifted is the business of `FastFair`.

**Only model-checked**: liveness (`PutReturns`, `AckedBecomesScannable`,
`PollEnds`, `InsertsEnd`, `ClientsEnd`, `OnlyGetsHang`, `ImplementsFairStore`), which is
out of the prover's reach. Every invariant and every action property that a passing run
checks is proved.

## 6. What is left out

* **Memory order.** `FastFair` is sequentially consistent. The code has fences on
  some paths and none between a scan's loads; on x86 loads are not reordered
  with each other, nor stores with each other, and the scan stores nothing the
  writer reads.
* **Misreads.** The two misread actions of `BTree` over-approximate what a search can make of an inner
  page another thread is shifting: any child the page holds or is getting. A search that meets no such shift
  reads page and sibling in one step; in the code it reads them one after the other, and what is split off
  meanwhile it finds along sibling pointers. What the tree looks like after `raced`, and what scans
  return then, the properties do not say; `FastFair`'s scans begin at or left of the leaf of `min`, which
  holds of a descent that was not led astray.
* **Replies queued at exit.** `KVNet` puts a reply on the wire in the callback. `bufferevent_write` only queues
  it, and `exit(0)` in another thread may drop or cut what is queued. A client then meets the end of stream
  earlier in its reply, and `OnlyGetsHang` distinguishes clients by what they wait for, not by how much
  of it has come.
* **Restarts with other arguments.** `restore` takes partition counts from the file and
  thread counts from the command line; the model gives every start the same.
  A build with `PM_USED` and a hash table in DRAM would restore from partition addresses
  nobody saved. The order in which stores reach the pool is that of the program: the
  `memset` that clears a new hash table is not flushed (`hashtable.h:52`), which
  matters only if the machine, and not just the program, fails.
* **Pool allocator.** A restored store puts its tree into the pool (`new
  btree(allocator)`), which takes pages from it at every start. Its exhaustion is an endless loop; the log's is not
  checked at all. `MaxLog` is a bound of the model, not of the code.
* **Deletes.** `btree_delete` and `btree_search` have no caller.
* **Scan replies.** `KVNet` knows the length of a scan's reply, not its contents.
* **Bytes of keys.** The client prints the digits of a key into `malloc`ed
  memory and sends all 64 bytes; the models take a key for a value.
* **Statistics counters, ring buffer, echo programs, scripts.**

Most lines of the repository are headers of Intel TBB and PMDK and the CityHash
source, which are other projects' code: the models use them as a linearizable
queue, mapped memory and a function. Of the program's own files, `hikv.h`,
`hashtable.h`, `plog.h`, `threadpool.cc`, `btree.h`, `btree.cc`, `server.cc` and
`client.cc` are modelled; printing, timing and option parsing are not.

## 7. What could follow

1. What a tree that was `raced` can still be trusted with: which records scans and later inserts miss,
   and how far a second writer's damage spreads.
2. The server's shared counters and their late initialisation.
3. Restarts with another number of threads.
4. The echo programs.
