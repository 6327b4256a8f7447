------------------------------ MODULE HiKVBench -----------------------------
(***************************************************************************)
(* The life of a store under the benchmark driver of Hikv/test_main.cc:    *)
(* a warm-up phase of puts, a wait until all task queues are empty, a      *)
(* mixed phase, and the destruction of the store, with the backend threads *)
(* running all the time (nobody ever joins them).                          *)
(***************************************************************************)
EXTENDS HiKV

VARIABLES
  main,    \* where the main thread is
  polled,  \* all_queue_empty has found the queues below this one empty
  warm     \* warm[s]: the records thread s put during the warm-up

benchVars == <<main, polled, warm>>
allVars == <<vars, benchVars>>

BenchInit ==
  /\ Init
  /\ main = "warmup"
  /\ polled = 0
  /\ warm = [s \in Server |-> 0]

(* The threads of a micro_benchmark phase put (and read) records.  How     *)
(* many is a parameter of the benchmark: any number here.                  *)
PhasePut ==
  /\ main \in {"warmup", "run"}
  /\ \/ \E s \in Server, k \in Key : AppendLog(s, k)
     \/ \E s \in Server : ServerStep(s)
  /\ UNCHANGED benchVars

(* The backend threads know nothing of the phases.                         *)
Background ==
  /\ \E b \in Drained : BackendStep(b)
  /\ UNCHANGED benchVars

(* micro_benchmark returns when it has joined every thread.                *)
JoinWarmup ==
  /\ main = "warmup"
  /\ \A s \in Server : pc[s] = "idle"
  /\ main' = "poll"
  /\ warm' = [s \in Server |-> Len(log[s])]
  /\ UNCHANGED <<vars, polled>>

(* all_queue_empty looks at the queues of the backend threads, one by one. *)
(* The array holds a queue for every number: the ones without a server     *)
(* thread of their own stay empty.                                         *)
EmptyQueue(q) == q \in Server => queue[q] = << >>

PollEmptyOneTooMany ==  \* mistake: <= for < in the loop
  /\ main = "poll" /\ polled <= NumBackend
  /\ EmptyQueue(polled)
  /\ polled' = polled + 1
  /\ UNCHANGED <<vars, main, warm>>

PollEmpty ==
  /\ main = "poll" /\ polled < NumBackend
  /\ EmptyQueue(polled)
  /\ polled' = polled + 1
  /\ UNCHANGED <<vars, main, warm>>

PollSkips ==  \* mistake: goes on behind a queue that is not empty
  /\ main = "poll" /\ polled < NumBackend
  /\ ~EmptyQueue(polled)
  /\ polled' = polled + 1
  /\ UNCHANGED <<vars, main, warm>>

(* It returns false at the first queue that is not empty, and is called    *)
(* again.                                                                  *)
PollBusy ==
  /\ main = "poll" /\ polled < NumBackend
  /\ ~EmptyQueue(polled)
  /\ polled' = 0
  /\ UNCHANGED <<vars, main, warm>>

StartRunAllServers ==  \* mistake: waits for a queue per server thread
  /\ main = "poll" /\ polled = NumBackend
  /\ \A s \in Server : queue[s] = << >>
  /\ main' = "run"
  /\ UNCHANGED <<vars, polled, warm>>

StartRun ==
  /\ main = "poll" /\ polled = NumBackend
  /\ main' = "run"
  /\ UNCHANGED <<vars, polled, warm>>

(* The second phase is joined and the store is destroyed: ~hikv releases   *)
(* the pool that holds the logs.                                           *)
JoinAndDelete ==
  /\ main = "run"
  /\ \A s \in Server : pc[s] = "idle"
  /\ main' = "deleted"
  /\ UNCHANGED <<vars, polled, warm>>

Driver == JoinWarmup \/ PollEmpty \/ PollBusy \/ StartRun \/ JoinAndDelete

BenchNext == PhasePut \/ Background \/ Driver

BenchSpec == BenchInit /\ [][BenchNext]_allVars

(* Every thread is scheduled; the backend threads and the main thread have *)
(* no step they may leave out.                                             *)
BenchFairSpec ==
  /\ BenchSpec
  /\ WF_allVars(PollEmpty \/ PollBusy \/ StartRun)
  /\ \A b \in Drained : WF_allVars(BackendStep(b) /\ UNCHANGED benchVars)

-----------------------------------------------------------------------------
BenchTypeOK ==
  /\ TypeOK
  /\ main \in {"warmup", "poll", "run", "deleted"}
  /\ polled \in 0 .. NumBackend
  /\ warm \in [Server -> 0 .. MaxLog]

(* What the wait between the phases is worth: when the run phase starts,   *)
(* every warm-up record of a polled partition is in the tree, except at    *)
(* most one per backend thread, which that thread has in its hands         *)
(* (test_main.cc main, threadpool.cc all_queue_empty).                     *)
WarmupAlmostIndexed ==
  main = "run" =>
    \A s \in Drained : \A off \in 0 .. warm[s] - 1 :
      <<s, off>> \in tree \/ worker[s] = off

(* The wait ends, also when there are more server than backend threads.    *)
PollEnds == main = "poll" ~> main = "run"

(* The store is destroyed only when no backend thread has work left that   *)
(* reads the logs: "continue to run read benchmark until queue is empty",  *)
(* says test_main.cc.                                                      *)
DeletedOnlyWhenDrained ==
  main = "deleted" =>
    \A s \in Drained : queue[s] = << >> /\ worker[s] = None
=============================================================================
