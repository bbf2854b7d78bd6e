----------------------------- MODULE InputQueue -----------------------------
(***************************************************************************)
(* The circular array behind the input queue of OptimizingCompilerThread:  *)
(* input_queue_, input_queue_length_ and input_queue_shift_, every access  *)
(* under input_queue_mutex_.                                               *)
(***************************************************************************)
EXTENDS Integers, Sequences

CONSTANTS Job,        \* jobs
          NoJob,      \* NULL, and the contents of a slot never written
          Capacity    \* input_queue_capacity_

ASSUME CapacityAssumption == Capacity \in Nat \ {0}
ASSUME NoJobAssumption == NoJob \notin Job

Index == 0 .. Capacity - 1

VARIABLES input_queue, input_queue_length, input_queue_shift,
          job         \* what NextInput returned last

vars == <<input_queue, input_queue_length, input_queue_shift, job>>

(* Mutation: the shift is applied without wrapping around at the end. *)
InputQueueIndexFrom(i, shift) ==
  IF i + shift < Capacity THEN i + shift ELSE 0

InputQueueIndexAt(i, shift) == (i + shift) % Capacity

InputQueueIndex(i) == InputQueueIndexAt(i, input_queue_shift)

Init ==
  /\ input_queue = [i \in Index |-> NoJob]
  /\ input_queue_length = 0
  /\ input_queue_shift = 0
  /\ job = NoJob

(* QueueForOptimization is called only when IsQueueAvailable. *)
IsQueueAvailable == input_queue_length < Capacity

(* The OSR branch: shift_ moves back by one. *)
QueueFront(j) ==
  /\ IsQueueAvailable
  /\ input_queue_shift' = InputQueueIndex(Capacity - 1)
  /\ input_queue' = [input_queue EXCEPT
                       ![InputQueueIndexAt(0, input_queue_shift')] = j]
  /\ input_queue_length' = input_queue_length + 1
  /\ UNCHANGED job

(* The regular branch. *)
QueueBack(j) ==
  /\ IsQueueAvailable
  /\ input_queue' = [input_queue EXCEPT
                       ![InputQueueIndex(input_queue_length)] = j]
  /\ input_queue_length' = input_queue_length + 1
  /\ UNCHANGED <<input_queue_shift, job>>

NextInput ==
  /\ input_queue_length # 0
  /\ job' = input_queue[InputQueueIndex(0)]
  /\ input_queue_shift' = InputQueueIndex(1)
  /\ input_queue_length' = input_queue_length - 1
  /\ UNCHANGED input_queue

Next == (\E j \in Job : QueueFront(j) \/ QueueBack(j)) \/ NextInput

Spec == Init /\ [][Next]_vars

-----------------------------------------------------------------------------
(* Type invariant: indices stay in the array and the length in its bounds.   *)
TypeOK ==
  /\ input_queue \in [Index -> Job \cup {NoJob}]
  /\ input_queue_length \in 0..Capacity
  /\ input_queue_shift \in Index
  /\ job \in Job \cup {NoJob}

(* DCHECK_NE(NULL, job) in NextInput: the slots between the shift and the    *)
(* length, around the end of the array, all hold jobs.                       *)
OccupiedSlotsHoldJobs ==
  \A i \in 0 .. input_queue_length - 1 :
    input_queue[InputQueueIndex(i)] \in Job

Deque == INSTANCE JobDeque
           WITH q <- [i \in 1 .. input_queue_length |->
                        input_queue[InputQueueIndex(i - 1)]],
                taken <- job

(* The circular array implements the bounded deque: jobs come out in deque   *)
(* order however pushes at both ends and pops wrap around the array.         *)
ImplementsDeque == Deque!Spec
=============================================================================
