-------------------------- MODULE HiKVBenchProofs ---------------------------
(***************************************************************************)
(* What main's wait for empty queues is worth, for any number of threads.  *)
(***************************************************************************)
EXTENDS HiKVBench, HiKVRefinement

(* While main waits no server thread runs, so a queue that was found empty *)
(* stays empty; afterwards the warm-up records are behind the pop, where   *)
(* nothing brings them back.                                               *)
WaitInv ==
  /\ main = "warmup" => polled = 0
  /\ main = "poll" =>
       /\ \A s \in Server : pc[s] = "idle" /\ warm[s] = Len(log[s])
       /\ \A s \in Drained : s < polled => queue[s] = << >>
  /\ main \in {"run", "deleted"} => \A s \in Drained : warm[s] <= Popped(s)

BenchInv == BenchTypeOK /\ TypeInv /\ PipelineInOrder /\ WaitInv

-----------------------------------------------------------------------------
(* The engine's steps.                                                     *)

(* What a backend thread has popped stays popped.                          *)
LEMMA PoppedGrows ==
  ASSUME TypeInv, Next, NEW r \in Server
  PROVE  /\ Popped(r) \in Int /\ Popped(r)' \in Int
         /\ Popped(r) <= Popped(r)'
<1>0. /\ Len(log[r]) \in Nat /\ Len(queue[r]) \in Nat
      /\ Acked(r) \in Int /\ Popped(r) \in Int
  BY CountTypes
<1>1. ASSUME NEW s \in Server, NEW k \in Key, AppendLog(s, k)
      PROVE  Popped(r)' = Popped(r)
  <2>1. Len(log'[r]) = IF r = s THEN Len(log[r]) + 1 ELSE Len(log[r])
    BY <1>1 DEF AppendLog, TypeInv, TypeOK
  <2>2. Acked(r)' = Acked(r)
    BY <1>0, <1>1, <2>1 DEF AppendLog, Acked, TypeInv, TypeOK
  <2>3. QED
    BY <1>1, <2>2 DEF AppendLog, Popped
<1>2. ASSUME NEW s \in Server, HashInsert(s) \/ HashFull(s) \/ SeeRoom(s)
      PROVE  Popped(r)' = Popped(r)
  <2>1. UNCHANGED <<log, queue>> /\ (pc'[r] = "idle" <=> pc[r] = "idle")
    BY <1>2 DEF HashInsert, HashFull, SeeRoom, TypeInv, TypeOK
  <2>2. QED
    BY <2>1 DEF Popped, Acked
<1>3. ASSUME NEW s \in Server, PushTask(s) PROVE Popped(r)' = Popped(r)
  <2>1. CASE r # s
    BY <1>3, <2>1 DEF PushTask, Popped, Acked, TypeInv, TypeOK
  <2>2. CASE r = s
    <3>1. Acked(r)' = Acked(r) + 1
      BY <1>0, <1>3, <2>2 DEF PushTask, Acked, TypeInv, TypeOK
    <3>2. Len(queue'[r]) = Len(queue[r]) + 1
      BY <1>3, <2>2 DEF PushTask, TypeInv, TypeOK
    <3>3. QED
      BY <1>0, <3>1, <3>2 DEF Popped
  <2>3. QED
    BY <2>1, <2>2
<1>4. ASSUME NEW b \in Drained, PopTask(b) PROVE Popped(r) <= Popped(r)'
  <2>1. Acked(r)' = Acked(r)
    BY <1>4 DEF PopTask, Acked
  <2>2. Len(queue'[r]) <= Len(queue[r])
    <3>1. CASE r = b
      <4>1. queue[r] \in Seq(Offset) /\ queue[r] # << >> /\ queue'[r] = Tail(queue[r])
        BY <1>4, <3>1 DEF PopTask, TypeInv, TypeOK
      <4>2. QED
        BY <1>0, <4>1, HeadTailProperties
    <3>2. CASE r # b
      BY <1>0, <1>4, <3>2 DEF PopTask, TypeInv, TypeOK
    <3>3. QED
      BY <3>1, <3>2
  <2>3. Len(queue'[r]) \in Nat
    BY <1>4, HeadTailProperties, LenProperties DEF PopTask, TypeInv, TypeOK, Drained
  <2>4. QED
    BY <1>0, <2>1, <2>2, <2>3 DEF Popped
<1>5. ASSUME NEW b \in Drained, IndexTask(b) PROVE Popped(r)' = Popped(r)
  BY <1>5 DEF IndexTask, Popped, Acked
<1>6. Popped(r)' \in Int
  <2>1. TypeInv'
    BY TypeStep
  <2>2. Len(log'[r]) \in Nat /\ Len(queue'[r]) \in Nat
    BY <2>1, LenProperties DEF TypeInv, TypeOK
  <2>3. QED
    BY <2>2 DEF Popped, Acked
<1>7. QED
  BY <1>0, <1>1, <1>2, <1>3, <1>4, <1>5, <1>6 DEF Next, ServerStep, BackendStep

(* Every step of the benchmark is one of the engine or leaves it alone.    *)
LEMMA EngineStep == BenchNext => [Next]_vars
  BY DEF BenchNext, PhasePut, Background, Driver, JoinWarmup, PollEmpty,
         PollBusy, StartRun, JoinAndDelete, Next

-----------------------------------------------------------------------------
LEMMA BenchTypeInit == BenchInit => BenchTypeOK
  BY TypeInit, SizeAssumption DEF BenchInit, BenchTypeOK, TypeInv

LEMMA BenchTypeStep ==
  ASSUME BenchTypeOK, TypeInv, [BenchNext]_allVars, TypeInv'
  PROVE  BenchTypeOK'
<1> USE DEF BenchTypeOK
<1>1. TypeOK'
  BY DEF TypeInv
<1>2. CASE PhasePut \/ Background \/ UNCHANGED allVars
  BY <1>1, <1>2 DEF PhasePut, Background, allVars, benchVars
<1>3. CASE JoinWarmup
  <2>1. \A s \in Server : Len(log[s]) \in 0 .. MaxLog
    BY LenProperties, SizeAssumption DEF TypeInv, TypeOK, Lengths
  <2>2. QED
    BY <1>1, <1>3, <2>1 DEF JoinWarmup
<1>4. CASE PollEmpty
  BY <1>1, <1>4, SizeAssumption DEF PollEmpty
<1>5. CASE PollBusy
  BY <1>1, <1>5, SizeAssumption DEF PollBusy
<1>6. CASE StartRun \/ JoinAndDelete
  BY <1>1, <1>6 DEF StartRun, JoinAndDelete
<1>7. QED
  BY <1>2, <1>3, <1>4, <1>5, <1>6 DEF BenchNext, Driver

LEMMA WaitInit == BenchInit => WaitInv
  BY DEF BenchInit, WaitInv

LEMMA WaitStep ==
  ASSUME BenchInv, [BenchNext]_allVars
  PROVE  WaitInv'
<1> USE DEF BenchInv, WaitInv
<1>0. \A s \in Drained : s \in Server /\ s \in Backend
  BY DEF Drained
<1>1. CASE PhasePut
  <2>1. main \in {"warmup", "run"} /\ UNCHANGED <<main, polled, warm>> /\ Next
    BY <1>1 DEF PhasePut, benchVars, Next
  <2>2. \A s \in Drained : /\ Popped(s) \in Int /\ Popped(s)' \in Int
                           /\ Popped(s) <= Popped(s)'
    BY <1>0, <2>1, PoppedGrows
  <2>3. ASSUME main = "run", NEW s \in Drained PROVE warm'[s] <= Popped(s)'
    <3>1. warm[s] <= Popped(s) /\ warm[s] \in Int /\ warm'[s] = warm[s]
      BY <1>0, <2>1, <2>3, SizeAssumption DEF BenchTypeOK
    <3>2. QED
      BY <2>2, <3>1
  <2>4. QED
    BY <2>1, <2>3
<1>2. CASE Background
  <2>1. PICK b \in Drained : BackendStep(b)
    BY <1>2 DEF Background
  <2>2. UNCHANGED <<main, polled, warm, log, pc>> /\ Next
    BY <1>2, <2>1 DEF Background, benchVars, BackendStep, PopTask, IndexTask, Next
  <2>3. \A s \in Drained : /\ Popped(s) \in Int /\ Popped(s)' \in Int
                           /\ Popped(s) <= Popped(s)'
    BY <1>0, <2>2, PoppedGrows
  <2>4. \A s \in Drained : queue[s] = << >> => queue'[s] = << >>
    BY <1>0, <2>1 DEF BackendStep, PopTask, IndexTask, TypeInv, TypeOK
  <2>5. ASSUME main \in {"run", "deleted"}, NEW s \in Drained
        PROVE  warm'[s] <= Popped(s)'
    <3>1. warm[s] <= Popped(s) /\ warm[s] \in Int /\ warm'[s] = warm[s]
      BY <1>0, <2>2, <2>5, SizeAssumption DEF BenchTypeOK
    <3>2. QED
      BY <2>3, <3>1
  <2>6. QED
    BY <2>2, <2>4, <2>5
<1>3. CASE JoinWarmup
  <2>1. /\ polled' = 0 /\ main' = "poll" /\ UNCHANGED <<pc, log>>
        /\ \A s \in Server : pc[s] = "idle" /\ warm'[s] = Len(log[s])
    BY <1>3 DEF JoinWarmup, vars
  <2>2. \A s \in Drained : ~(s < polled')
    BY <2>1, SizeAssumption DEF Drained, Server
  <2>3. QED
    BY <2>1, <2>2
<1>4. CASE PollEmpty
  <2>1. /\ main = "poll" /\ main' = "poll" /\ polled' = polled + 1
        /\ EmptyQueue(polled) /\ UNCHANGED <<pc, log, queue, warm>>
    BY <1>4 DEF PollEmpty, vars
  <2>2. ASSUME NEW s \in Drained, s < polled' PROVE queue'[s] = << >>
    <3>1. s \in Int /\ polled \in Int
      BY SizeAssumption DEF Drained, Server, BenchTypeOK
    <3>2. s < polled \/ s = polled
      BY <2>1, <2>2, <3>1
    <3>3. QED
      BY <1>0, <2>1, <3>2 DEF EmptyQueue
  <2>3. QED
    BY <2>1, <2>2
<1>5. CASE PollBusy
  <2>1. /\ main = "poll" /\ main' = "poll" /\ polled' = 0
        /\ UNCHANGED <<pc, log, queue, warm>>
    BY <1>5 DEF PollBusy, vars
  <2>2. \A s \in Drained : ~(s < polled')
    BY <2>1, SizeAssumption DEF Drained, Server
  <2>3. QED
    BY <2>1, <2>2
<1>6. CASE StartRun
  <2>1. /\ main = "poll" /\ main' = "run" /\ polled = NumBackend
        /\ UNCHANGED <<pc, log, queue, warm>>
    BY <1>6 DEF StartRun, vars
  <2>2. ASSUME NEW s \in Drained PROVE warm'[s] <= Popped(s)'
    <3>1. s < polled
      BY <1>0, <2>1, SizeAssumption DEF Backend
    <3>2. queue[s] = << >> /\ pc[s] = "idle" /\ warm[s] = Len(log[s])
      BY <1>0, <2>1, <3>1
    <3>3. Len(queue[s]) = 0 /\ Len(log[s]) \in Nat
      BY <1>0, <3>2, CountTypes
    <3>4. QED
      BY <2>1, <3>2, <3>3 DEF Popped, Acked
  <2>3. QED
    BY <2>1, <2>2
<1>7. CASE JoinAndDelete \/ UNCHANGED allVars
  <2>1. /\ main' = main \/ (main = "run" /\ main' = "deleted")
        /\ UNCHANGED <<pc, log, queue, polled, warm>>
    BY <1>7 DEF JoinAndDelete, allVars, benchVars, vars
  <2>2. \A s \in Server : Popped(s)' = Popped(s)
    BY <2>1 DEF Popped, Acked
  <2>3. \A s \in Drained : Popped(s)' = Popped(s)
    BY <1>0, <2>2
  <2>4. QED
    BY <2>1, <2>3
<1>8. QED
  BY <1>1, <1>2, <1>3, <1>4, <1>5, <1>6, <1>7 DEF BenchNext, Driver

-----------------------------------------------------------------------------
LEMMA BenchInvInit == BenchInit => BenchInv
  BY BenchTypeInit, TypeInit, PipelineInit, WaitInit DEF BenchInit, BenchInv

LEMMA BenchInvStep == BenchInv /\ [BenchNext]_allVars => BenchInv'
<1> SUFFICES ASSUME BenchInv, [BenchNext]_allVars PROVE BenchInv'
  OBVIOUS
<1>1. [Next]_vars
  BY EngineStep DEF allVars
<1>2. TypeInv' /\ PipelineInOrder'
  BY <1>1, TypeStep, PipelineStep DEF BenchInv
<1>3. BenchTypeOK'
  BY <1>2, BenchTypeStep DEF BenchInv
<1>4. WaitInv'
  BY WaitStep
<1>5. QED
  BY <1>2, <1>3, <1>4 DEF BenchInv

LEMMA BenchInvariant == BenchSpec => []BenchInv
  BY BenchInvInit, BenchInvStep, PTL DEF BenchSpec

(* The driver's and the engine's variables keep their types.               *)
THEOREM BenchTypeCorrect == BenchSpec => []BenchTypeOK
  BY BenchInvariant, PTL DEF BenchInv

(* When the run phase starts, and ever after, at most one warm-up record   *)
(* per backend thread is not in the tree: the one in that thread's hands.  *)
THEOREM WaitLeavesOne == BenchSpec => []WarmupAlmostIndexed
<1>1. BenchInv => WarmupAlmostIndexed
  <2> SUFFICES ASSUME BenchInv, main = "run", NEW s \in Drained,
                      NEW off \in 0 .. warm[s] - 1
               PROVE  <<s, off>> \in tree \/ worker[s] = off
    BY DEF WarmupAlmostIndexed
  <2>1. s \in Server /\ warm[s] \in 0 .. MaxLog /\ warm[s] <= Popped(s)
    BY DEF Drained, BenchInv, BenchTypeOK, WaitInv
  <2>2. PipelineAt(s) /\ Popped(s) \in Int /\ Indexed(s) \in Int
    BY <2>1, CountTypes DEF BenchInv, PipelineInOrder
  <2>3. off \in Offset /\ off < Popped(s)
    BY <2>1, <2>2, SizeAssumption DEF Offset
  <2>4. CASE off < Indexed(s)
    BY <2>2, <2>3, <2>4 DEF PipelineAt
  <2>5. CASE ~(off < Indexed(s))
    <3>1. Busy(s) /\ off = Indexed(s)
      BY <2>2, <2>3, <2>5 DEF Indexed, Offset
    <3>2. QED
      BY <2>2, <3>1 DEF PipelineAt
  <2>6. QED
    BY <2>4, <2>5
<1>2. QED
  BY <1>1, BenchInvariant, PTL

(* Under the driver, too, the engine is the write-once store: whatever the *)
(* phases, the waits between them and the threads that are still popping   *)
(* when a phase ends (test_main.cc main, micro_benchmark).                 *)
THEOREM BenchmarkUsesStore == BenchSpec => ImplementsStore
<1>1. BenchInit => Init
  BY DEF BenchInit
<1>2. [BenchNext]_allVars => [Next]_vars
  BY EngineStep DEF allVars
<1>3. BenchSpec => Spec
  BY <1>1, <1>2, PTL DEF BenchSpec, Spec
<1>4. QED
  BY <1>3, StoreImplemented
=============================================================================
