------------------------------ MODULE KVStore -------------------------------
(***************************************************************************)
(* What HiKV promises its callers, partition by partition: point reads see *)
(* a write-once map, range scans see a growing prefix of the puts.         *)
(***************************************************************************)
EXTENDS Integers

CONSTANTS
  Part,   \* the partitions
  Live,   \* the partitions whose puts reach the scans
  Key,
  None    \* the reading of an absent key

VARIABLES
  value,   \* value[p][k]: number of the put that gave k its value, or None
  size,    \* size[p]: number of puts so far
  visible  \* visible[p]: number of puts the scans see

vars == <<value, size, visible>>

Init ==
  /\ value   = [p \in Part |-> [k \in Key |-> None]]
  /\ size    = [p \in Part |-> 0]
  /\ visible = [p \in Part |-> 0]

(* A put that gives an absent key its value.                               *)
PutNew(p, k) ==
  /\ value[p][k] = None
  /\ value' = [value EXCEPT ![p][k] = size[p]]
  /\ size'  = [size EXCEPT ![p] = @ + 1]
  /\ UNCHANGED visible

(* A put that changes no reading: refused, a repetition, or the hidden     *)
(* first record of the partition.                                          *)
PutOther(p) ==
  /\ size' = [size EXCEPT ![p] = @ + 1]
  /\ UNCHANGED <<value, visible>>

(* The scans see one more put.                                             *)
Show(p) ==
  /\ visible[p] < size[p]
  /\ visible' = [visible EXCEPT ![p] = @ + 1]
  /\ UNCHANGED <<value, size>>

Next ==
  \E p \in Part : PutOther(p) \/ Show(p) \/ \E k \in Key : PutNew(p, k)

Spec == Init /\ [][Next]_vars

FairSpec == Spec /\ \A p \in Live : WF_vars(Show(p))
=============================================================================
