---------------------- MODULE RecompilationQueuesProofs ----------------------
(***************************************************************************)
(* Proofs about the circular input queue, the lock-free output queue and a *)
(* job's way through both, for any jobs, any capacity and any number of    *)
(* list nodes.                                                             *)
(* The list is described by a history of the nodes it was made of: a node  *)
(* keeps its index from Enqueue until it is freed, whatever is appended    *)
(* or freed in between, so that first_, divider_ and last_ are three       *)
(* indices that only grow.                                                 *)
(***************************************************************************)
EXTENDS RecompilationQueues, SequenceTheorems, FiniteSetTheorems, TLAPS

-----------------------------------------------------------------------------
(* The circular input queue, for every capacity. *)

(* InputQueueIndex(i) is an index of the array (the two DCHECKs at its end). *)
LEMMA IndexInRange ==
  ASSUME NEW i \in Nat, NEW s \in Index
  PROVE  InputQueueIndexAt(i, s) \in Index
BY CapacityAssumption DEF InputQueueIndexAt, Index

(* Wrapping around the end of the array at most once. *)
LEMMA Wrap ==
  ASSUME NEW x \in Nat, x < 2 * Capacity
  PROVE  x % Capacity = IF x < Capacity THEN x ELSE x - Capacity
BY CapacityAssumption

(* Every step keeps the indices in the array and the length in its bounds.   *)
LEMMA TypeStep == TypeOK /\ [Next]_vars => TypeOK'
<1> SUFFICES ASSUME TypeOK, [Next]_vars PROVE TypeOK'
  OBVIOUS
<1>1. CASE \E j \in Job : QueueFront(j)
  <2> PICK j \in Job : QueueFront(j)
    BY <1>1
  <2>1. input_queue_shift' \in Index
    BY IndexInRange, CapacityAssumption
    DEF QueueFront, InputQueueIndex, TypeOK, Index
  <2>2. input_queue' \in [Index -> Job \cup {NoJob}]
    BY DEF QueueFront, TypeOK
  <2>3. input_queue_length' \in 0..Capacity
    BY CapacityAssumption DEF QueueFront, IsQueueAvailable, TypeOK
  <2> QED
    BY <2>1, <2>2, <2>3 DEF QueueFront, TypeOK
<1>2. CASE \E j \in Job : QueueBack(j)
  <2> PICK j \in Job : QueueBack(j)
    BY <1>2
  <2>1. input_queue' \in [Index -> Job \cup {NoJob}]
    BY DEF QueueBack, TypeOK
  <2>2. input_queue_length' \in 0..Capacity
    BY CapacityAssumption DEF QueueBack, IsQueueAvailable, TypeOK
  <2> QED
    BY <2>1, <2>2 DEF QueueBack, TypeOK
<1>3. CASE NextInput
  <2>1. InputQueueIndex(0) \in Index /\ InputQueueIndex(1) \in Index
    BY IndexInRange DEF InputQueueIndex, TypeOK
  <2> QED
    BY <1>3, <2>1, CapacityAssumption DEF NextInput, TypeOK
<1>4. CASE UNCHANGED vars
  BY <1>4 DEF vars, TypeOK
<1> QED
  BY <1>1, <1>2, <1>3, <1>4 DEF Next

(* The array is never indexed outside its bounds and the length never leaves *)
(* 0..Capacity, whatever the order of pushes and pops.                       *)
THEOREM TypeCorrect == Spec => []TypeOK
<1>1. Init => TypeOK
  BY CapacityAssumption DEF Init, TypeOK, Index
<1> QED
  BY <1>1, TypeStep, PTL DEF Spec

(* The slot of the i-th job is one place further back after QueueFront has   *)
(* moved the shift back, and one place nearer after NextInput has moved it   *)
(* forward.                                                                  *)
LEMMA ShiftBack ==
  ASSUME NEW s \in Index, NEW i \in 0..Capacity - 1
  PROVE  LET t == InputQueueIndexAt(Capacity - 1, s) IN
         /\ i > 0 => InputQueueIndexAt(i, t) = InputQueueIndexAt(i - 1, s)
         /\ InputQueueIndexAt(0, t) = t
<1> DEFINE t == InputQueueIndexAt(Capacity - 1, s)
<1>1. t = IF s = 0 THEN Capacity - 1 ELSE s - 1
  BY Wrap, CapacityAssumption DEF InputQueueIndexAt, Index
<1> QED
  BY <1>1, Wrap, CapacityAssumption DEF InputQueueIndexAt, Index

LEMMA ShiftForward ==
  ASSUME NEW s \in Index, NEW i \in 0..Capacity - 1, i < Capacity - 1
  PROVE  LET t == InputQueueIndexAt(1, s) IN
         InputQueueIndexAt(i, t) = InputQueueIndexAt(i + 1, s)
<1> DEFINE t == InputQueueIndexAt(1, s)
<1>1. t = IF s = Capacity - 1 THEN 0 ELSE s + 1
  BY Wrap, CapacityAssumption DEF InputQueueIndexAt, Index
<1> QED
  BY <1>1, Wrap, CapacityAssumption DEF InputQueueIndexAt, Index

(* Different places in the queue are different slots of the array. *)
LEMMA SlotsDistinct ==
  ASSUME NEW s \in Index, NEW i \in Index, NEW k \in Index, i # k
  PROVE  InputQueueIndexAt(i, s) # InputQueueIndexAt(k, s)
BY Wrap, CapacityAssumption DEF InputQueueIndexAt, Index

-----------------------------------------------------------------------------
Inv == TypeOK /\ OccupiedSlotsHoldJobs

LEMMA FrontPreserves ==
  ASSUME Inv, NEW j \in Job, QueueFront(j), TypeOK'
  PROVE  OccupiedSlotsHoldJobs'
<1> DEFINE s == input_queue_shift
           t == InputQueueIndexAt(Capacity - 1, s)
<1>1. t \in Index /\ s \in Index
  <2>1. s \in Index /\ Capacity - 1 \in Nat
    BY CapacityAssumption DEF Inv, TypeOK
  <2> QED
    BY <2>1, IndexInRange
<1>2. input_queue_shift' = t /\ input_queue' = [input_queue EXCEPT ![t] = j]
  BY <1>1, ShiftBack, CapacityAssumption DEF QueueFront, InputQueueIndex, Index
<1> SUFFICES ASSUME NEW i \in 0 .. input_queue_length
             PROVE  input_queue'[InputQueueIndexAt(i, t)] \in Job
  BY <1>2, CapacityAssumption
  DEF OccupiedSlotsHoldJobs, InputQueueIndex, QueueFront, Inv, TypeOK
<1>3. i \in 0..Capacity - 1
  BY CapacityAssumption DEF QueueFront, IsQueueAvailable, Inv, TypeOK
<1>4. CASE i = 0
  BY <1>1, <1>2, <1>4, ShiftBack, CapacityAssumption DEF Inv, TypeOK, Index
<1>5. CASE i > 0
  <2>1. InputQueueIndexAt(i, t) = InputQueueIndexAt(i - 1, s)
    BY <1>1, <1>3, <1>5, ShiftBack
  <2>2. InputQueueIndexAt(i - 1, s) \in Index
    BY <1>1, <1>3, <1>5, IndexInRange, CapacityAssumption
  <2>3. input_queue[InputQueueIndexAt(i - 1, s)] \in Job
    BY <1>3, <1>5, CapacityAssumption
    DEF OccupiedSlotsHoldJobs, InputQueueIndex, Inv, TypeOK
  <2> QED
    BY <1>1, <1>2, <2>1, <2>2, <2>3 DEF Inv, TypeOK
<1> QED
  BY <1>3, <1>4, <1>5

LEMMA BackPreserves ==
  ASSUME Inv, NEW j \in Job, QueueBack(j)
  PROVE  OccupiedSlotsHoldJobs'
<1> DEFINE s == input_queue_shift
           n == input_queue_length
<1>1. s \in Index /\ n \in Index
  BY CapacityAssumption DEF Inv, TypeOK, Index, QueueBack, IsQueueAvailable
<1> SUFFICES ASSUME NEW i \in 0 .. n
             PROVE  input_queue'[InputQueueIndexAt(i, s)] \in Job
  BY <1>1, CapacityAssumption
  DEF OccupiedSlotsHoldJobs, InputQueueIndex, QueueBack, Inv, TypeOK, Index
<1>2. i \in Index /\ InputQueueIndexAt(i, s) \in Index
      /\ InputQueueIndexAt(n, s) \in Index
  <2>1. i \in Index /\ i \in Nat /\ n \in Nat
    BY <1>1, CapacityAssumption DEF Index
  <2> QED
    BY <1>1, <2>1, IndexInRange
<1>3. CASE i = n
  BY <1>2, <1>3 DEF QueueBack, InputQueueIndex, Inv, TypeOK
<1>4. CASE i # n
  <2>1. input_queue[InputQueueIndexAt(i, s)] \in Job
    BY <1>1, <1>4 DEF OccupiedSlotsHoldJobs, InputQueueIndex, Inv, Index
  <2> QED
    BY <1>1, <1>2, <1>4, <2>1, SlotsDistinct
    DEF QueueBack, InputQueueIndex, Inv, TypeOK
<1> QED
  BY <1>3, <1>4

LEMMA NextInputPreserves ==
  ASSUME Inv, NextInput
  PROVE  OccupiedSlotsHoldJobs'
<1> DEFINE s == input_queue_shift
           t == InputQueueIndexAt(1, s)
<1> SUFFICES ASSUME NEW i \in 0 .. input_queue_length - 2
             PROVE  input_queue[InputQueueIndexAt(i, t)] \in Job
  BY CapacityAssumption
  DEF OccupiedSlotsHoldJobs, InputQueueIndex, NextInput, Inv, TypeOK
<1>1. s \in Index /\ i \in 0..Capacity - 1 /\ i < Capacity - 1
  BY CapacityAssumption DEF Inv, TypeOK
<1>2. InputQueueIndexAt(i, t) = InputQueueIndexAt(i + 1, s)
  BY <1>1, ShiftForward
<1> QED
  BY <1>2, CapacityAssumption
  DEF OccupiedSlotsHoldJobs, InputQueueIndex, Inv, TypeOK

(* Every step keeps jobs in the occupied slots. *)
LEMMA SlotsStep == Inv /\ TypeOK' /\ [Next]_vars => OccupiedSlotsHoldJobs'
<1> SUFFICES ASSUME Inv, TypeOK', [Next]_vars PROVE OccupiedSlotsHoldJobs'
  OBVIOUS
<1>1. CASE UNCHANGED vars
  BY <1>1 DEF vars, Inv, OccupiedSlotsHoldJobs, InputQueueIndex
<1> QED
  BY <1>1, FrontPreserves, BackPreserves, NextInputPreserves DEF Next

(* Every slot between the shift and the length holds a job, so NextInput     *)
(* never returns NULL or a slot that was never written.                      *)
THEOREM SlotsHoldJobs == Spec => []OccupiedSlotsHoldJobs
<1>1. Init => OccupiedSlotsHoldJobs
  BY DEF Init, OccupiedSlotsHoldJobs
<1> QED
  BY <1>1, SlotsStep, TypeCorrect, PTL DEF Spec, Inv

-----------------------------------------------------------------------------
(* The refinement mapping: the queue as a sequence. *)
Q == [i \in 1 .. input_queue_length |-> input_queue[InputQueueIndex(i - 1)]]

LEMMA SlotsAsSequence ==
  ASSUME NEW a, NEW n \in Nat, NEW s,
         \A i \in 0 .. n - 1 : a[InputQueueIndexAt(i, s)] \in Job
  PROVE  LET r == [i \in 1..n |-> a[InputQueueIndexAt(i - 1, s)]]
         IN  r \in Seq(Job) /\ Len(r) = n
<1>1. \A i \in 1..n : i - 1 \in 0 .. n - 1
  OBVIOUS
<1>2. \A i \in 1..n : a[InputQueueIndexAt(i - 1, s)] \in Job
  BY <1>1
<1> QED
  BY <1>2

LEMMA QIsSequence ==
  ASSUME Inv
  PROVE  /\ Q \in Seq(Job)
         /\ Len(Q) = input_queue_length
         /\ \A i \in 1..input_queue_length :
              Q[i] = input_queue[InputQueueIndexAt(i - 1, input_queue_shift)]
<1>1. input_queue_length \in Nat
  BY CapacityAssumption DEF Inv, TypeOK
<1>2. \A i \in 0 .. input_queue_length - 1 :
        input_queue[InputQueueIndexAt(i, input_queue_shift)] \in Job
  BY DEF Inv, OccupiedSlotsHoldJobs, InputQueueIndex
<1>3. Q = [i \in 1 .. input_queue_length |->
             input_queue[InputQueueIndexAt(i - 1, input_queue_shift)]]
  BY DEF Q, InputQueueIndex
<1> QED
  BY <1>1, <1>2, <1>3, SlotsAsSequence

LEMMA QIsSequenceNext ==
  ASSUME Inv'
  PROVE  /\ Q' \in Seq(Job)
         /\ Len(Q') = input_queue_length'
         /\ \A i \in 1..input_queue_length' :
              Q'[i] = input_queue'[InputQueueIndexAt(i - 1, input_queue_shift')]
<1>1. input_queue_length' \in Nat
  BY CapacityAssumption DEF Inv, TypeOK
<1>2. \A i \in 0 .. input_queue_length' - 1 :
        input_queue'[InputQueueIndexAt(i, input_queue_shift')] \in Job
  BY DEF Inv, OccupiedSlotsHoldJobs, InputQueueIndex, InputQueueIndexAt
<1>3. Q' = [i \in 1 .. input_queue_length' |->
              input_queue'[InputQueueIndexAt(i - 1, input_queue_shift')]]
  BY DEF Q, InputQueueIndex
<1> QED
  BY <1>1, <1>2, <1>3, SlotsAsSequence

LEMMA BackIsPushBack ==
  ASSUME Inv, Inv', NEW j \in Job, QueueBack(j)
  PROVE  Deque!PushBack(j)
<1> DEFINE s == input_queue_shift
           n == input_queue_length
<1>1. s \in Index /\ n \in Index /\ n' = n + 1 /\ s' = s
  BY CapacityAssumption DEF Inv, TypeOK, Index, QueueBack, IsQueueAvailable
<1>2. InputQueueIndexAt(n, s) \in Index
  BY <1>1, IndexInRange DEF Index
<1>3. ASSUME NEW i \in 1..n
      PROVE  input_queue'[InputQueueIndexAt(i - 1, s)]
             = input_queue[InputQueueIndexAt(i - 1, s)]
  <2>1. i - 1 \in Index /\ i - 1 # n
    BY <1>1, CapacityAssumption DEF Index
  <2>2. InputQueueIndexAt(i - 1, s) \in Index
    BY <1>1, <2>1, IndexInRange DEF Index
  <2> QED
    BY <1>1, <1>2, <2>1, <2>2, SlotsDistinct
    DEF QueueBack, InputQueueIndex, Inv, TypeOK
<1>4. input_queue'[InputQueueIndexAt(n, s)] = j
  BY <1>2 DEF QueueBack, InputQueueIndex, Inv, TypeOK
<1>5. Q' = Append(Q, j)
  <2>1. /\ n \in Nat
        /\ Append(Q, j) \in Seq(Job)
        /\ Len(Append(Q, j)) = n + 1
        /\ \A i \in 1..n : Append(Q, j)[i] = Q[i]
        /\ Append(Q, j)[n + 1] = j
    <3>1. n \in Nat /\ Q \in Seq(Job) /\ Len(Q) = n
      BY <1>1, QIsSequence DEF Index
    <3> QED
      BY <3>1, AppendProperties
  <2>2. ASSUME NEW i \in 1 .. n + 1 PROVE Q'[i] = Append(Q, j)[i]
    <3>1. Q'[i] = input_queue'[InputQueueIndexAt(i - 1, s)]
      BY <1>1, QIsSequenceNext
    <3>2. CASE i = n + 1
      BY <1>4, <2>1, <3>1, <3>2
    <3>3. CASE i # n + 1
      BY <1>3, <2>1, <3>1, <3>3, QIsSequence
    <3> QED
      BY <3>2, <3>3
  <2> QED
    BY <1>1, <2>1, <2>2, QIsSequenceNext, SeqEqual
<1>6. Len(Q) < Capacity
  BY QIsSequence DEF QueueBack, IsQueueAvailable
<1> QED
  BY <1>5, <1>6 DEF Deque!PushBack, QueueBack, Q

LEMMA FrontIsPushFront ==
  ASSUME Inv, Inv', NEW j \in Job, QueueFront(j)
  PROVE  Deque!PushFront(j)
<1> DEFINE s == input_queue_shift
           n == input_queue_length
           t == InputQueueIndexAt(Capacity - 1, s)
<1>1. s \in Index /\ n \in Index /\ n' = n + 1 /\ Capacity - 1 \in Nat
  BY CapacityAssumption DEF Inv, TypeOK, Index, QueueFront, IsQueueAvailable
<1>2. t \in Index
  BY <1>1, IndexInRange
<1>3. s' = t /\ input_queue' = [input_queue EXCEPT ![t] = j]
  BY <1>1, <1>2, ShiftBack, CapacityAssumption
  DEF QueueFront, InputQueueIndex, Index
<1>4. input_queue'[InputQueueIndexAt(0, t)] = j
  BY <1>1, <1>2, <1>3, ShiftBack DEF Inv, TypeOK, Index
<1>5. ASSUME NEW i \in 1..n
      PROVE  input_queue'[InputQueueIndexAt(i, t)]
             = input_queue[InputQueueIndexAt(i - 1, s)]
  <2>1. i \in Index /\ i - 1 \in Index /\ 0 \in Index /\ i # 0 /\ i > 0
    BY <1>1, CapacityAssumption DEF Index
  <2>2. InputQueueIndexAt(i, t) = InputQueueIndexAt(i - 1, s)
    BY <1>1, <2>1, ShiftBack DEF Index
  <2>3. InputQueueIndexAt(0, t) = t
    BY <1>1, <2>1, ShiftBack DEF Index
  <2>4. InputQueueIndexAt(i, t) # InputQueueIndexAt(0, t)
    BY <1>2, <2>1, SlotsDistinct
  <2>5. InputQueueIndexAt(i, t) \in Index
    BY <1>2, <2>1, IndexInRange DEF Index
  <2> QED
    BY <1>2, <1>3, <2>2, <2>3, <2>4, <2>5 DEF Inv, TypeOK
<1>6. Q' = <<j>> \o Q
  <2>1. /\ n \in Nat
        /\ <<j>> \in Seq(Job) /\ Len(<<j>>) = 1 /\ <<j>>[1] = j
    BY <1>1 DEF Index
  <2>2. /\ <<j>> \o Q \in Seq(Job)
        /\ Len(<<j>> \o Q) = n + 1
        /\ \A i \in 1 .. n + 1 :
             (<<j>> \o Q)[i] = IF i <= 1 THEN <<j>>[i] ELSE Q[i - 1]
    BY <2>1, QIsSequence, ConcatProperties
  <2>3. ASSUME NEW i \in 1 .. n + 1 PROVE Q'[i] = (<<j>> \o Q)[i]
    <3>1. Q'[i] = input_queue'[InputQueueIndexAt(i - 1, t)]
      BY <1>1, <1>3, QIsSequenceNext
    <3>2. CASE i = 1
      BY <1>4, <2>1, <2>2, <3>1, <3>2
    <3>3. CASE i # 1
      <4>1. i - 1 \in 1..n
        BY <2>1, <3>3
      <4>2. Q[i - 1] = input_queue[InputQueueIndexAt((i - 1) - 1, s)]
        BY <4>1, QIsSequence
      <4> QED
        BY <1>5, <2>1, <2>2, <3>1, <3>3, <4>1, <4>2
    <3> QED
      BY <3>2, <3>3
  <2> QED
    BY <1>1, <2>2, <2>3, QIsSequenceNext, SeqEqual
<1>7. Len(Q) < Capacity
  BY QIsSequence DEF QueueFront, IsQueueAvailable
<1> QED
  BY <1>6, <1>7 DEF Deque!PushFront, QueueFront, Q

LEMMA NextInputIsPopFront ==
  ASSUME Inv, Inv', NextInput
  PROVE  Deque!PopFront
<1> DEFINE s == input_queue_shift
           n == input_queue_length
           t == InputQueueIndexAt(1, s)
<1>1. /\ s \in Index /\ n \in 1..Capacity /\ n' = n - 1 /\ s' = t
      /\ input_queue' = input_queue /\ Capacity \in Nat
  BY CapacityAssumption DEF Inv, TypeOK, NextInput, InputQueueIndex
<1>2. Q # <<>> /\ Q \in Seq(Job) /\ Len(Q) = n
  BY <1>1, QIsSequence
<1>3. job' = Head(Q)
  BY <1>1, <1>2, QIsSequence DEF NextInput, InputQueueIndex
<1>4. Q' = Tail(Q)
  <2>1. /\ Tail(Q) \in Seq(Job)
        /\ Len(Tail(Q)) = n - 1
        /\ \A i \in 1 .. n - 1 : Tail(Q)[i] = Q[i + 1]
    BY <1>2, HeadTailProperties
  <2>2. ASSUME NEW i \in 1 .. n - 1 PROVE Q'[i] = Tail(Q)[i]
    <3>1. i - 1 \in 0..Capacity - 1 /\ i - 1 < Capacity - 1
      BY <1>1
    <3>2. InputQueueIndexAt(i - 1, t) = InputQueueIndexAt((i - 1) + 1, s)
      BY <1>1, <3>1, ShiftForward
    <3>3. i + 1 \in 1..n /\ (i + 1) - 1 = (i - 1) + 1
      BY <1>1
    <3> QED
      BY <1>1, <2>1, <3>2, <3>3, QIsSequence, QIsSequenceNext
  <2> QED
    BY <1>1, <2>1, <2>2, QIsSequenceNext, SeqEqual
<1> QED
  BY <1>2, <1>3, <1>4 DEF Deque!PopFront, Q

(* Every step of the circular array is a step of the bounded deque, and      *)
(* every initial state one of its initial states: jobs come out in deque     *)
(* order for every capacity.                                                 *)
THEOREM Refinement == Spec => ImplementsDeque
<1>1. Init => Deque!Init
  BY NoJobAssumption DEF Init, Deque!Init
<1>2. Inv /\ Inv' /\ [Next]_vars => [Deque!Next]_(Deque!dequeVars)
  <2> SUFFICES ASSUME Inv, Inv', [Next]_vars
               PROVE  [Deque!Next]_(Deque!dequeVars)
    OBVIOUS
  <2>1. CASE UNCHANGED vars
    BY <2>1 DEF vars, Deque!dequeVars, InputQueueIndex
  <2> QED
    BY <2>1, FrontIsPushFront, BackIsPushBack, NextInputIsPopFront
    DEF Next, Deque!Next
<1> QED
  BY <1>1, <1>2, TypeCorrect, SlotsHoldJobs, PTL DEF Spec, ImplementsDeque, Deque!Spec, Inv

-----------------------------------------------------------------------------
(* The lock-free output queue. *)

FieldsOK ==
  /\ value \in [Node -> Record \cup {NoRecord}]
  /\ next \in [Node -> Node \cup {NoNode}]
  /\ ppc \in {"idle", "publish", "reclaim"}
  /\ cpc \in {"idle", "read", "move"}
  /\ sent \in Seq(Record)

(* The node that is linked and not yet published follows last_. *)
End(e) == IF ppc = "publish" THEN e + 1 ELSE e

(* The nodes path[f] .. path[End(e)] are the allocated ones, each linked to  *)
(* the next.                                                                 *)
Linked(path, f, e) ==
  /\ \A i \in f..End(e) : path[i] \in allocated
  /\ \A n \in allocated : \E i \in f..End(e) : n = path[i]
  /\ \A i, k \in f..End(e) : path[i] = path[k] => i = k
  /\ \A i \in f .. End(e) - 1 : next[path[i]] = path[i + 1]

(* Where the pointers of the queue and of the two threads are. *)
Pointers(path, f, d, e) ==
  /\ first = path[f] /\ divider = path[d] /\ last = path[e]
  /\ ppc = "publish" => node = path[e + 1] /\ value[node] \in Record
  /\ cpc # "idle" => d < e
  /\ cpc = "move" => rec = value[path[d + 1]]

(* What is between the divider and the end is what was sent. *)
Holds(path, d, e) ==
  /\ Len(sent) = e - d
  /\ \A i \in 1 .. e - d : sent[i] = value[path[d + i]]

Chain(path, f, d, e) ==
  /\ path \in [Nat -> Node] /\ f \in Nat /\ d \in Nat /\ e \in Nat
  /\ f <= d /\ d <= e
  /\ Linked(path, f, e) /\ Pointers(path, f, d, e) /\ Holds(path, d, e)

ListInv == FieldsOK /\ \E path, f, d, e : Chain(path, f, d, e)

-----------------------------------------------------------------------------
(* The new list is the dummy node. *)
LEMMA ListInit == UnboundQueueInit => ListInv
<1> SUFFICES ASSUME UnboundQueueInit
             PROVE  ListInv
  OBVIOUS
<1> PICK x \in Node :
    /\ allocated = {x}
    /\ value = [n \in Node |-> NoRecord]
    /\ next = [n \in Node |-> NoNode]
    /\ first = x /\ divider = x /\ last = x
    /\ ppc = "idle" /\ node = NoNode
    /\ cpc = "idle" /\ rec = NoRecord
    /\ sent = <<>>
  BY DEF UnboundQueueInit
<1> DEFINE path == [i \in Nat |-> x]
<1>1. End(0) = 0 /\ path[0] = x /\ path \in [Nat -> Node]
  BY DEF End
<1> HIDE DEF path
<1>2. Linked(path, 0, 0)
  BY <1>1 DEF Linked
<1>3. Pointers(path, 0, 0, 0) /\ Holds(path, 0, 0)
  BY <1>1 DEF Pointers, Holds
<1>4. Chain(path, 0, 0, 0)
  BY <1>1, <1>2, <1>3 DEF Chain
<1>5. FieldsOK
  BY DEF FieldsOK
<1> QED
  BY <1>4, <1>5 DEF ListInv

(* Enqueue links a new node behind the last one. *)
LEMMA LinkKeeps ==
  ASSUME ListInv, NEW r \in Record, EnqueueLink(r)
  PROVE  ListInv'
<1>1. PICK path, f, d, e : Chain(path, f, d, e)
  BY DEF ListInv
<1>2. PICK n \in Node \ allocated :
         /\ allocated' = allocated \cup {n}
         /\ value' = [value EXCEPT ![n] = r]
         /\ next' = [next EXCEPT ![last] = n, ![n] = NoNode]
         /\ node' = n
  BY DEF EnqueueLink
<1>3. /\ ppc = "idle" /\ ppc' = "publish"
      /\ UNCHANGED <<first, divider, last, cpc, rec, sent>>
  BY DEF EnqueueLink
<1>4. /\ path \in [Nat -> Node] /\ f \in Nat /\ d \in Nat /\ e \in Nat
      /\ f <= d /\ d <= e /\ End(e) = e /\ End(e)' = e + 1
  BY <1>1, <1>3 DEF Chain, End
<1> DEFINE pa == [path EXCEPT ![e + 1] = n]
<1>5. /\ pa \in [Nat -> Node] /\ pa[e + 1] = n
      /\ \A i \in f..e : pa[i] = path[i]
  BY <1>4
<1> HIDE DEF pa
<1>6. \A i \in f..e : path[i] \in Node /\ path[i] # n /\ path[i] \in allocated
  BY <1>1, <1>2, <1>4 DEF Chain, Linked
<1>7. last = path[e] /\ last # n /\ last \in Node
  BY <1>1, <1>4, <1>6 DEF Chain, Pointers
<1>8. /\ next'[path[e]] = n
      /\ \A i \in f .. e - 1 : next'[path[i]] = next[path[i]]
      /\ \A i \in f..e : value'[path[i]] = value[path[i]]
      /\ value'[n] = r
  <2>1. \A i \in f .. e - 1 : path[i] # path[e]
    BY <1>1, <1>4 DEF Chain, Linked
  <2> QED
    BY <1>2, <1>4, <1>6, <1>7, <2>1 DEF ListInv, FieldsOK
<1>9. FieldsOK'
  BY <1>2, <1>3, <1>7 DEF ListInv, FieldsOK
<1>10. Linked(pa, f, e)'
  <2>0. /\ \A i \in f..e + 1 : i = e + 1 \/ i \in f..e
        /\ \A i \in f..e : i = e \/ i \in f .. e - 1
        /\ \A i \in f .. e - 1 : i \in f..e /\ i + 1 \in f..e
        /\ \A i \in f .. e : i \in f .. e + 1
        /\ e + 1 \in f .. e + 1
    BY <1>4
  <2>1. \A i \in f..e + 1 : pa[i] \in allocated'
    BY <1>2, <1>5, <1>6, <2>0
  <2>2. \A m \in allocated' : \E i \in f..e + 1 : m = pa[i]
    <3> SUFFICES ASSUME NEW m \in allocated'
                 PROVE  \E i \in f..e + 1 : m = pa[i]
      OBVIOUS
    <3>1. CASE m = n
      BY <1>5, <2>0, <3>1
    <3>2. CASE m \in allocated
      <4>1. PICK i \in f..e : m = path[i]
        BY <1>1, <1>4, <3>2 DEF Chain, Linked
      <4> QED
        BY <1>5, <2>0, <4>1
    <3> QED
      BY <1>2, <3>1, <3>2
  <2>3. ASSUME NEW i \in f..e + 1, NEW k \in f..e + 1, pa[i] = pa[k]
        PROVE  i = k
    <3>1. \A a, b \in f..e : path[a] = path[b] => a = b
      BY <1>1, <1>4 DEF Chain, Linked
    <3> QED
      BY <1>5, <1>6, <2>0, <2>3, <3>1
  <2>4. \A i \in f .. e : next'[pa[i]] = pa[i + 1]
    <3>1. \A i \in f .. e - 1 : next[path[i]] = path[i + 1]
      BY <1>1, <1>4 DEF Chain, Linked
    <3>2. \A i \in f .. e - 1 : next'[pa[i]] = pa[i + 1]
      BY <1>5, <1>8, <2>0, <3>1
    <3>3. next'[pa[e]] = pa[e + 1]
      BY <1>4, <1>5, <1>8
    <3> QED
      BY <2>0, <3>2, <3>3
  <2>5. (e + 1) - 1 = e
    BY <1>4
  <2> QED
    BY <1>4, <2>1, <2>2, <2>3, <2>4, <2>5 DEF Linked
<1>11. Pointers(pa, f, d, e)'
  <2>1. /\ f \in f..e /\ d \in f..e /\ e \in f..e
        /\ cpc = "move" => d + 1 \in f..e
    BY <1>1, <1>4 DEF Chain, Pointers
  <2> QED
    BY <1>1, <1>2, <1>3, <1>5, <1>8, <2>1 DEF Chain, Pointers
<1>12. Holds(pa, d, e)'
  <2>1. \A i \in 1 .. e - d : d + i \in f..e
    BY <1>4
  <2> QED
    BY <1>1, <1>3, <1>5, <1>8, <2>1 DEF Chain, Holds
<1>13. Chain(pa, f, d, e)'
  BY <1>4, <1>5, <1>10, <1>11, <1>12 DEF Chain
<1> QED
  BY <1>9, <1>13 DEF ListInv

(* Release_Store(&last_, next). *)
LEMMA PublishKeeps ==
  ASSUME ListInv, EnqueuePublish
  PROVE  ListInv'
<1>1. PICK path, f, d, e : Chain(path, f, d, e)
  BY DEF ListInv
<1>2. /\ ppc = "publish" /\ ppc' = "reclaim" /\ last' = node
      /\ sent' = Append(sent, value[node])
      /\ UNCHANGED <<value, next, allocated, first, divider, cpc, rec>>
  BY DEF EnqueuePublish, heapVars
<1>3. /\ path \in [Nat -> Node] /\ f \in Nat /\ d \in Nat /\ e \in Nat
      /\ f <= d /\ d <= e /\ End(e) = e + 1 /\ End(e + 1)' = e + 1
  BY <1>1, <1>2 DEF Chain, End
<1>4. node = path[e + 1] /\ value[node] \in Record /\ sent \in Seq(Record)
  BY <1>1, <1>2 DEF Chain, Pointers, ListInv, FieldsOK
<1>5. /\ sent' \in Seq(Record) /\ Len(sent) = e - d /\ Len(sent') = (e - d) + 1
      /\ \A i \in 1 .. e - d : sent'[i] = sent[i]
      /\ sent'[(e - d) + 1] = value[node]
  <2>1. Len(sent) = e - d
    BY <1>1 DEF Chain, Holds
  <2> QED
    BY <1>2, <1>4, <2>1, AppendProperties, LenProperties
<1>6. FieldsOK'
  BY <1>2, <1>5 DEF ListInv, FieldsOK
<1>7. Linked(path, f, e + 1)'
  BY <1>1, <1>2, <1>3 DEF Chain, Linked
<1>8. Pointers(path, f, d, e + 1)'
  BY <1>1, <1>2, <1>3, <1>4 DEF Chain, Pointers
<1>9. Holds(path, d, e + 1)'
  <2>1. (e + 1) - d = (e - d) + 1 /\ d + ((e - d) + 1) = e + 1
        /\ \A i \in 1 .. (e - d) + 1 : i = (e - d) + 1 \/ i \in 1 .. e - d
    BY <1>3
  <2>2. \A i \in 1 .. e - d : sent[i] = value[path[d + i]]
    BY <1>1 DEF Chain, Holds
  <2>3. \A i \in 1 .. (e - d) + 1 : sent'[i] = value[path[d + i]]
    BY <1>4, <1>5, <2>1, <2>2
  <2> QED
    BY <1>2, <1>5, <2>1, <2>3 DEF Holds
<1>10. Chain(path, f, d, e + 1)'
  BY <1>3, <1>7, <1>8, <1>9 DEF Chain
<1> QED
  BY <1>6, <1>10 DEF ListInv

(* DeleteFirst frees a node the consumer has left behind. *)
LEMMA ReclaimKeeps ==
  ASSUME ListInv, Reclaim
  PROVE  ListInv'
<1>1. PICK path, f, d, e : Chain(path, f, d, e)
  BY DEF ListInv
<1>2. /\ ppc = "reclaim" /\ UNCHANGED <<divider, last, node, cpc, rec, sent>>
  BY DEF Reclaim
<1>3. /\ path \in [Nat -> Node] /\ f \in Nat /\ d \in Nat /\ e \in Nat
      /\ f <= d /\ d <= e /\ End(e) = e
      /\ ppc' # "publish" => End(e)' = e
  BY <1>1, <1>2 DEF Chain, End
<1>4. CASE first = divider
  <2>1. ppc' = "idle" /\ UNCHANGED <<first, value, next, allocated>>
    BY <1>4 DEF Reclaim, heapVars
  <2>2. FieldsOK'
    BY <1>2, <2>1 DEF ListInv, FieldsOK
  <2>3. Linked(path, f, e)' /\ Pointers(path, f, d, e)' /\ Holds(path, d, e)'
    BY <1>1, <1>2, <1>3, <2>1 DEF Chain, Linked, Pointers, Holds
  <2>4. Chain(path, f, d, e)'
    BY <1>3, <2>3 DEF Chain
  <2> QED
    BY <2>2, <2>4 DEF ListInv
<1>5. CASE first # divider
  <2>1. /\ first' = next[first]
        /\ allocated' = allocated \ {first}
        /\ value' = [value EXCEPT ![first] = NoRecord]
        /\ next' = [next EXCEPT ![first] = NoNode]
        /\ ppc' = ppc
    BY <1>5 DEF Reclaim
  <2>2. f < d /\ first = path[f] /\ first \in Node
    BY <1>1, <1>3, <1>5 DEF Chain, Pointers
  <2>3. /\ \A i \in f + 1 .. e : i \in f..e /\ i # f /\ path[i] \in Node
        /\ \A i \in f..e : i = f \/ i \in f + 1 .. e
        /\ \A i \in f + 1 .. e - 1 : i \in f .. e - 1 /\ i \in f + 1 .. e
        /\ f \in f..e /\ f \in f .. e - 1
    BY <1>3, <2>2
  <2>4. /\ \A i \in f..e : path[i] \in allocated
        /\ \A n \in allocated : \E i \in f..e : n = path[i]
        /\ \A i, k \in f..e : path[i] = path[k] => i = k
        /\ \A i \in f .. e - 1 : next[path[i]] = path[i + 1]
    BY <1>1, <1>3 DEF Chain, Linked
  <2>5. \A i \in f + 1 .. e : path[i] # first
    BY <2>2, <2>3, <2>4
  <2>6. \A i \in f + 1 .. e : /\ next'[path[i]] = next[path[i]]
                              /\ value'[path[i]] = value[path[i]]
    BY <2>1, <2>3, <2>5 DEF ListInv, FieldsOK
  <2>7. FieldsOK'
    BY <1>2, <2>1 DEF ListInv, FieldsOK
  <2>8. Linked(path, f + 1, e)'
    <3>1. \A i \in f + 1 .. e : path[i] \in allocated'
      BY <2>1, <2>3, <2>4, <2>5
    <3>2. \A n \in allocated' : \E i \in f + 1 .. e : n = path[i]
      BY <2>1, <2>2, <2>3, <2>4
    <3>3. \A i, k \in f + 1 .. e : path[i] = path[k] => i = k
      BY <2>3, <2>4
    <3>4. \A i \in f + 1 .. e - 1 : next'[path[i]] = path[i + 1]
      BY <2>3, <2>4, <2>6
    <3>5. End(e)' = e
      BY <1>2, <1>3, <2>1
    <3> QED
      BY <3>1, <3>2, <3>3, <3>4, <3>5 DEF Linked
  <2>9. Pointers(path, f + 1, d, e)'
    <3>1. first' = path[f + 1] /\ ppc' # "publish"
      BY <1>2, <2>1, <2>2, <2>3, <2>4
    <3>2. cpc = "move" => d + 1 \in f + 1 .. e
      BY <1>1, <1>3, <2>2 DEF Chain, Pointers
    <3> QED
      BY <1>1, <1>2, <2>6, <3>1, <3>2 DEF Chain, Pointers
  <2>10. Holds(path, d, e)'
    <3>1. \A i \in 1 .. e - d : d + i \in f + 1 .. e
      BY <1>3, <2>2
    <3> QED
      BY <1>1, <1>2, <2>6, <3>1 DEF Chain, Holds
  <2>11. Chain(path, f + 1, d, e)'
    BY <1>3, <2>2, <2>8, <2>9, <2>10 DEF Chain
  <2> QED
    BY <2>7, <2>11 DEF ListInv
<1> QED
  BY <1>4, <1>5

(* Dequeue looks whether there is a value, and reads it. *)
LEMMA LookKeeps ==
  ASSUME ListInv, DequeueTest \/ DequeueRead
  PROVE  ListInv'
<1>1. PICK path, f, d, e : Chain(path, f, d, e)
  BY DEF ListInv
<1>2. UNCHANGED <<value, next, allocated, first, divider, last, ppc, node, sent>>
  BY DEF DequeueTest, DequeueRead, heapVars
<1>3. /\ path \in [Nat -> Node] /\ f \in Nat /\ d \in Nat /\ e \in Nat
      /\ f <= d /\ d <= e /\ e <= End(e) /\ End(e) \in Nat
  BY <1>1 DEF Chain, End
<1>4. /\ divider = path[d] /\ last = path[e]
      /\ d < e => next[path[d]] = path[d + 1]
  BY <1>1, <1>3 DEF Chain, Pointers, Linked
<1>5. /\ cpc' \in {"idle", "read", "move"} /\ (cpc' # "idle" => d < e)
      /\ cpc' = "move" => rec' = value[path[d + 1]]
  <2>1. CASE DequeueTest
    <3>1. cpc' = IF divider = last THEN "idle" ELSE "read"
      BY <2>1 DEF DequeueTest
    <3> QED
      BY <1>3, <1>4, <3>1
  <2>2. CASE DequeueRead
    <3>1. cpc = "read" /\ rec' = value[next[divider]] /\ cpc' = "move"
      BY <2>2 DEF DequeueRead
    <3>2. d < e
      BY <1>1, <3>1 DEF Chain, Pointers
    <3> QED
      BY <1>4, <3>1, <3>2
  <2> QED
    BY <2>1, <2>2
<1>6. FieldsOK'
  BY <1>2, <1>5 DEF ListInv, FieldsOK
<1>7. Linked(path, f, e)' /\ Holds(path, d, e)'
  BY <1>1, <1>2 DEF Chain, Linked, Holds, End
<1>8. Pointers(path, f, d, e)'
  BY <1>1, <1>2, <1>5 DEF Chain, Pointers
<1>9. Chain(path, f, d, e)'
  BY <1>3, <1>7, <1>8 DEF Chain
<1> QED
  BY <1>6, <1>9 DEF ListInv

(* Release_Store(&divider_, next): what the consumer has read is the oldest  *)
(* value.                                                                    *)
LEMMA MoveKeeps ==
  ASSUME ListInv, DequeueMove
  PROVE  /\ ListInv' /\ Len(sent) \in Nat \ {0} /\ rec = sent[1]
         /\ Len(sent') = Len(sent) - 1
         /\ \A i \in 1..Len(sent') : sent'[i] = sent[i + 1]
<1>1. PICK path, f, d, e : Chain(path, f, d, e)
  BY DEF ListInv
<1>2. /\ cpc = "move" /\ divider' = next[divider] /\ sent' = Tail(sent)
      /\ cpc' = "idle"
      /\ UNCHANGED <<value, next, allocated, first, last, ppc, node>>
  BY DEF DequeueMove, heapVars
<1>3. /\ path \in [Nat -> Node] /\ f \in Nat /\ d \in Nat /\ e \in Nat
      /\ f <= d /\ d < e /\ e <= End(e) /\ End(e) \in Nat
  BY <1>1, <1>2 DEF Chain, Pointers, End
<1>4. divider' = path[d + 1]
  BY <1>1, <1>2, <1>3 DEF Chain, Pointers, Linked
<1>5. /\ sent \in Seq(Record) /\ Len(sent) = e - d
      /\ \A i \in 1 .. e - d : sent[i] = value[path[d + i]]
  BY <1>1 DEF ListInv, FieldsOK, Chain, Holds
<1>6. /\ sent' \in Seq(Record) /\ Len(sent') = (e - d) - 1
      /\ \A i \in 1 .. (e - d) - 1 : sent'[i] = sent[i + 1]
  <2>1. sent # <<>>
    BY <1>3, <1>5
  <2> QED
    BY <1>2, <1>3, <1>5, <2>1, HeadTailProperties
<1>7. FieldsOK'
  BY <1>2, <1>6 DEF ListInv, FieldsOK
<1>8. Linked(path, f, e)'
  BY <1>1, <1>2 DEF Chain, Linked, End
<1>9. Pointers(path, f, d + 1, e)'
  BY <1>1, <1>2, <1>4 DEF Chain, Pointers
<1>10. Holds(path, d + 1, e)'
  <2>1. /\ e - (d + 1) = (e - d) - 1
        /\ \A i \in 1 .. (e - d) - 1 : i + 1 \in 1 .. e - d /\ d + (i + 1) = (d + 1) + i
    BY <1>3
  <2>2. \A i \in 1 .. (e - d) - 1 : sent'[i] = value[path[(d + 1) + i]]
    BY <1>5, <1>6, <2>1
  <2> QED
    BY <1>2, <1>6, <2>1, <2>2 DEF Holds
<1>11. Chain(path, f, d + 1, e)'
  BY <1>3, <1>8, <1>9, <1>10 DEF Chain
<1>12. rec = sent[1]
  BY <1>1, <1>2, <1>3, <1>5 DEF Chain, Pointers
<1>13. ListInv'
  BY <1>7, <1>11 DEF ListInv
<1> QED
  BY <1>3, <1>5, <1>6, <1>12, <1>13

(* Stuttering. *)
LEMMA SameList ==
  ASSUME ListInv, UNCHANGED unboundVars
  PROVE  ListInv'
<1>1. UNCHANGED <<value, next, allocated, first, divider, last, ppc, node, cpc,
                  rec, sent>>
  BY DEF unboundVars, heapVars
<1>2. PICK path, f, d, e : Chain(path, f, d, e)
  BY DEF ListInv
<1>3. Chain(path, f, d, e)'
  BY <1>1, <1>2 DEF Chain, Linked, Pointers, Holds, End
<1> QED
  BY <1>1, <1>3 DEF ListInv, FieldsOK

(* What the invariant says of the list. *)
LEMMA ListSafe == ListInv => NoDanglingNode /\ ListMatchesSent
<1> SUFFICES ASSUME ListInv
             PROVE  NoDanglingNode /\ ListMatchesSent
  OBVIOUS
<1>1. PICK path, f, d, e : Chain(path, f, d, e)
  BY DEF ListInv
<1>2. /\ path \in [Nat -> Node] /\ f \in Nat /\ d \in Nat /\ e \in Nat
      /\ f <= d /\ d <= e /\ e <= End(e) /\ End(e) \in Nat
      /\ ppc = "publish" => End(e) = e + 1
  BY <1>1 DEF Chain, End
<1>3. NoDanglingNode
  <2>1. /\ \A i \in f..End(e) : path[i] \in allocated
        /\ \A i \in f .. End(e) - 1 : next[path[i]] = path[i + 1]
    BY <1>1 DEF Chain, Linked
  <2>2. {first, last, divider} \subseteq allocated
    <3>1. f \in f..End(e) /\ d \in f..End(e) /\ e \in f..End(e)
      BY <1>2
    <3> QED
      BY <1>1, <2>1, <3>1 DEF Chain, Pointers
  <2>3. cpc \in {"read", "move"} => next[divider] \in allocated
    <3>1. d < e => d \in f .. End(e) - 1 /\ d + 1 \in f..End(e)
      BY <1>2
    <3> QED
      BY <1>1, <2>1, <3>1 DEF Chain, Pointers
  <2>4. ppc = "publish" => node \in allocated
    <3>1. ppc = "publish" => e + 1 \in f..End(e)
      BY <1>2
    <3> QED
      BY <1>1, <2>1, <3>1 DEF Chain, Pointers
  <2> QED
    BY <2>2, <2>3, <2>4 DEF NoDanglingNode
<1>4. ListMatchesSent
  <2> DEFINE at == [i \in 0..Len(sent) |-> path[d + i]]
  <2>1. Len(sent) = e - d /\ \A i \in 1 .. e - d : sent[i] = value[path[d + i]]
    BY <1>1 DEF Chain, Holds
  <2>2. \A i \in 0 .. e - d : d + i \in f..e /\ path[d + i] \in Node
    BY <1>2
  <2>3. /\ at \in [0..Len(sent) -> Node] /\ at[0] = path[d] /\ at[Len(sent)] = path[e]
        /\ \A i \in 0 .. e - d : at[i] = path[d + i]
    BY <1>2, <2>1, <2>2
  <2> HIDE DEF at
  <2>4. ASSUME NEW i \in 1 .. e - d
        PROVE  at[i] = next[at[i - 1]] /\ at[i] \in allocated /\ value[at[i]] = sent[i]
    <3>1. /\ i - 1 \in 0 .. e - d /\ i \in 0 .. e - d
          /\ d + (i - 1) \in f .. End(e) - 1 /\ d + i \in f..End(e)
          /\ (d + (i - 1)) + 1 = d + i
      BY <1>2
    <3>2. next[path[d + (i - 1)]] = path[d + i] /\ path[d + i] \in allocated
      <4>1. /\ \A k \in f .. End(e) - 1 : next[path[k]] = path[k + 1]
            /\ \A k \in f .. End(e) : path[k] \in allocated
        BY <1>1 DEF Chain, Linked
      <4> QED
        BY <3>1, <4>1
    <3> QED
      BY <2>1, <2>3, <3>1, <3>2
  <2>5. divider = path[d] /\ last = path[e]
    BY <1>1 DEF Chain, Pointers
  <2> QED
    BY <2>1, <2>3, <2>4, <2>5 DEF ListMatchesSent
<1> QED
  BY <1>3, <1>4

(* The list of output_queue_ on its own, with a producer that enqueues any   *)
(* values: no freed node is followed, and the list spells out what was sent  *)
(* and not yet received.                                                     *)
THEOREM UnboundQueueSafe == UnboundQueueSpec => [](NoDanglingNode /\ ListMatchesSent)
<1>1. ListInv /\ [Producer \/ Consumer]_unboundVars => ListInv'
  BY LinkKeeps, PublishKeeps, ReclaimKeeps, LookKeeps, MoveKeeps, SameList
     DEF Producer, Consumer
<1> QED
  BY <1>1, ListInit, ListSafe, PTL DEF UnboundQueueSpec

-----------------------------------------------------------------------------
(* A job's way through both queues.  q is the input queue, h what the        *)
(* compiler thread holds, s the output queue, p the jobs that are pending.   *)
OnePlace(q, h, s, p) ==
  /\ \A i, k \in 1..Len(q) : q[i] = q[k] => i = k
  /\ \A i, k \in 1..Len(s) : s[i] = s[k] => i = k
  /\ \A i \in 1..Len(q), k \in 1..Len(s) : q[i] # s[k]
  /\ \A i \in 1..Len(q) : q[i] \notin h
  /\ \A k \in 1..Len(s) : s[k] \notin h
  /\ \A i \in 1..Len(q) : q[i] \in p
  /\ \A k \in 1..Len(s) : s[k] \in p
  /\ h \subseteq p
  /\ \A j \in p : \/ \E i \in 1..Len(q) : q[i] = j
                  \/ j \in h
                  \/ \E k \in 1..Len(s) : s[k] = j

(* A job that is not pending is queued at the back or at the front. *)
LEMMA PushOne ==
  ASSUME NEW q, NEW h, NEW s, NEW p, NEW j, OnePlace(q, h, s, p), j \notin p,
         NEW r, Len(q) \in Nat, Len(r) = Len(q) + 1,
         \/ r[Len(r)] = j /\ \A i \in 1..Len(q) : r[i] = q[i]
         \/ r[1] = j /\ \A i \in 1..Len(q) : r[i + 1] = q[i]
  PROVE  OnePlace(r, h, s, p \cup {j})
<1>1. PICK z \in 1..Len(r) :
        /\ r[z] = j
        /\ \A i \in 1..Len(r) : i # z =>
             \E k \in 1..Len(q) : r[i] = q[k] /\ k = IF i < z THEN i ELSE i - 1
        /\ \A k \in 1..Len(q) : \E i \in 1..Len(r) : r[i] = q[k]
  <2>1. CASE r[Len(r)] = j /\ \A i \in 1..Len(q) : r[i] = q[i]
    <3>1. Len(r) \in 1..Len(r) /\ \A i \in 1..Len(r) : i # Len(r) => i \in 1..Len(q) /\ i < Len(r)
      OBVIOUS
    <3>2. \A k \in 1..Len(q) : k \in 1..Len(r)
      OBVIOUS
    <3> QED
      BY <2>1, <3>1, <3>2
  <2>2. CASE r[1] = j /\ \A i \in 1..Len(q) : r[i + 1] = q[i]
    <3>1. 1 \in 1..Len(r) /\ \A i \in 1..Len(r) : i # 1 => i - 1 \in 1..Len(q) /\ i = (i - 1) + 1 /\ ~(i < 1)
      OBVIOUS
    <3>2. \A k \in 1..Len(q) : k + 1 \in 1..Len(r)
      OBVIOUS
    <3> QED
      BY <2>2, <3>1, <3>2
  <2> QED
    BY <2>1, <2>2
<1>2. \A i \in 1..Len(q) : q[i] # j
  BY DEF OnePlace
<1>3. \A i \in 1..Len(r) : r[i] = j \/ \E k \in 1..Len(q) : r[i] = q[k]
  BY <1>1
<1>4. ASSUME NEW i \in 1..Len(r), NEW k \in 1..Len(r), r[i] = r[k]
      PROVE  i = k
  <2>1. CASE i = z
    BY <1>1, <1>2, <1>4, <2>1
  <2>2. CASE k = z
    BY <1>1, <1>2, <1>4, <2>2
  <2>3. CASE i # z /\ k # z
    <3>1. PICK a \in 1..Len(q) : r[i] = q[a] /\ a = IF i < z THEN i ELSE i - 1
      BY <1>1, <2>3
    <3>2. PICK b \in 1..Len(q) : r[k] = q[b] /\ b = IF k < z THEN k ELSE k - 1
      BY <1>1, <2>3
    <3>3. q[a] = q[b]
      BY <1>4, <3>1, <3>2
    <3>4. a = b
      BY <3>3 DEF OnePlace
    <3> QED
      BY <2>3, <3>1, <3>2, <3>4
  <2> QED
    BY <2>1, <2>2, <2>3
<1>5. /\ \A i \in 1..Len(r), k \in 1..Len(s) : r[i] # s[k]
      /\ \A i \in 1..Len(r) : r[i] \notin h
      /\ \A i \in 1..Len(r) : r[i] \in p \cup {j}
  <2>1. /\ \A i \in 1..Len(q), k \in 1..Len(s) : q[i] # s[k]
        /\ \A i \in 1..Len(q) : q[i] \notin h /\ q[i] \in p
        /\ \A k \in 1..Len(s) : s[k] \in p
        /\ h \subseteq p
    BY DEF OnePlace
  <2> SUFFICES ASSUME NEW i \in 1..Len(r)
               PROVE  /\ \A k \in 1..Len(s) : r[i] # s[k]
                      /\ r[i] \notin h /\ r[i] \in p \cup {j}
    OBVIOUS
  <2>2. CASE r[i] = j
    BY <2>1, <2>2
  <2>3. CASE \E k \in 1..Len(q) : r[i] = q[k]
    BY <2>1, <2>3
  <2> QED
    BY <1>3, <2>2, <2>3
<1>6. \A x \in p \cup {j} : \/ \E i \in 1..Len(r) : r[i] = x
                            \/ x \in h
                            \/ \E k \in 1..Len(s) : s[k] = x
  <2> SUFFICES ASSUME NEW x \in p \cup {j}
               PROVE  \/ \E i \in 1..Len(r) : r[i] = x
                      \/ x \in h
                      \/ \E k \in 1..Len(s) : s[k] = x
    OBVIOUS
  <2>1. CASE x = j
    BY <1>1, <2>1
  <2>2. CASE x \in p
    BY <1>1, <2>2 DEF OnePlace
  <2> QED
    BY <2>1, <2>2
<1> QED
  BY <1>4, <1>5, <1>6 DEF OnePlace

(* The compiler thread, with empty hands, takes the first job. *)
LEMMA TakeOne ==
  ASSUME NEW q, NEW s, NEW p, OnePlace(q, {}, s, p),
         NEW r, Len(q) \in Nat \ {0}, Len(r) = Len(q) - 1,
         \A i \in 1..Len(r) : r[i] = q[i + 1]
  PROVE  OnePlace(r, {q[1]}, s, p)
<1>1. /\ 1 \in 1..Len(q) /\ \A i \in 1..Len(r) : i + 1 \in 1..Len(q) /\ i + 1 # 1
      /\ \A i \in 1..Len(q) : i = 1 \/ (i - 1 \in 1..Len(r) /\ (i - 1) + 1 = i)
  OBVIOUS
<1>2. ASSUME NEW i \in 1..Len(r), NEW k \in 1..Len(r), r[i] = r[k]
      PROVE  i = k
  <2>1. i + 1 = k + 1
    BY <1>1, <1>2 DEF OnePlace
  <2> QED
    BY <2>1
<1>3. \A i \in 1..Len(r) : r[i] \notin {q[1]}
  BY <1>1 DEF OnePlace
<1>4. \A k \in 1..Len(s) : s[k] \notin {q[1]}
  BY <1>1 DEF OnePlace
<1>5. \A j \in p : \/ \E i \in 1..Len(r) : r[i] = j
                   \/ j \in {q[1]}
                   \/ \E k \in 1..Len(s) : s[k] = j
  <2>1. \A i \in 1..Len(q) : q[i] = q[1] \/ (r[i - 1] = q[i] /\ i - 1 \in 1..Len(r))
    BY <1>1
  <2>2. \A j \in p : \/ \E i \in 1..Len(q) : q[i] = j
                     \/ \E k \in 1..Len(s) : s[k] = j
    BY DEF OnePlace
  <2> QED
    BY <2>1, <2>2
<1> QED
  BY <1>1, <1>2, <1>3, <1>4, <1>5 DEF OnePlace

(* It publishes the job it holds. *)
LEMMA SendOne ==
  ASSUME NEW q, NEW s, NEW p, NEW x, OnePlace(q, {x}, s, p),
         NEW t, Len(s) \in Nat, Len(t) = Len(s) + 1, t[Len(t)] = x,
         \A i \in 1..Len(s) : t[i] = s[i]
  PROVE  OnePlace(q, {}, t, p)
<1>1. /\ \A k \in 1..Len(t) : k = Len(t) \/ k \in 1..Len(s)
      /\ Len(t) \in 1..Len(t) /\ \A k \in 1..Len(s) : k \in 1..Len(t)
  OBVIOUS
<1>2. \A i, k \in 1..Len(t) : t[i] = t[k] => i = k
  BY <1>1 DEF OnePlace
<1>3. /\ \A i \in 1..Len(q), k \in 1..Len(t) : q[i] # t[k]
      /\ \A k \in 1..Len(t) : t[k] \in p
  BY <1>1 DEF OnePlace
<1>4. \A j \in p : \/ \E i \in 1..Len(q) : q[i] = j
                   \/ \E k \in 1..Len(t) : t[k] = j
  BY <1>1 DEF OnePlace
<1> QED
  BY <1>2, <1>3, <1>4 DEF OnePlace

(* The main thread takes the oldest job out of the output queue. *)
LEMMA ReceiveOne ==
  ASSUME NEW q, NEW h, NEW s, NEW p, OnePlace(q, h, s, p),
         NEW t, Len(s) \in Nat \ {0}, Len(t) = Len(s) - 1,
         \A i \in 1..Len(t) : t[i] = s[i + 1]
  PROVE  OnePlace(q, h, t, p \ {s[1]})
<1>1. /\ 1 \in 1..Len(s) /\ \A i \in 1..Len(t) : i + 1 \in 1..Len(s) /\ i + 1 # 1
      /\ \A i \in 1..Len(s) : i = 1 \/ (i - 1 \in 1..Len(t) /\ (i - 1) + 1 = i)
  OBVIOUS
<1>2. ASSUME NEW i \in 1..Len(t), NEW k \in 1..Len(t), t[i] = t[k]
      PROVE  i = k
  <2>1. i + 1 = k + 1
    BY <1>1, <1>2 DEF OnePlace
  <2> QED
    BY <2>1
<1>3. \A i \in 1..Len(t) : t[i] # s[1]
  BY <1>1 DEF OnePlace
<1>4. h \subseteq p \ {s[1]} /\ \A i \in 1..Len(q) : q[i] # s[1]
  BY <1>1 DEF OnePlace
<1>5. \A j \in p \ {s[1]} : \/ \E i \in 1..Len(q) : q[i] = j
                            \/ j \in h
                            \/ \E k \in 1..Len(t) : t[k] = j
  <2>1. \A i \in 1..Len(s) : s[i] = s[1] \/ (t[i - 1] = s[i] /\ i - 1 \in 1..Len(t))
    BY <1>1
  <2>2. \A j \in p : \/ \E i \in 1..Len(q) : q[i] = j
                     \/ j \in h
                     \/ \E k \in 1..Len(s) : s[k] = j
    BY DEF OnePlace
  <2> QED
    BY <2>1, <2>2
<1> QED
  <2>1. /\ \A i, k \in 1..Len(q) : q[i] = q[k] => i = k
        /\ \A i \in 1..Len(q) : q[i] \notin h /\ q[i] \in p
        /\ \A i \in 1..Len(q), k \in 1..Len(s) : q[i] # s[k]
        /\ \A k \in 1..Len(s) : s[k] \notin h /\ s[k] \in p
    BY DEF OnePlace
  <2>2. /\ \A i \in 1..Len(q), k \in 1..Len(t) : q[i] # t[k]
        /\ \A k \in 1..Len(t) : t[k] \notin h /\ t[k] \in p \ {s[1]}
        /\ \A i \in 1..Len(q) : q[i] \in p \ {s[1]}
    BY <1>1, <1>3, <1>4, <2>1
  <2> QED
    BY <1>2, <1>4, <1>5, <2>1, <2>2 DEF OnePlace

-----------------------------------------------------------------------------
(* The job in the compiler thread's hands, until it has published it. *)
Hand == IF compiling THEN {job} ELSE IF ppc = "publish" THEN {value[node]} ELSE {}

QueuesInv ==
  /\ Inv /\ ListInv /\ compiling \in BOOLEAN
  /\ compiling => ppc = "idle" /\ job \in Job
  /\ OnePlace(Q, Hand, sent, pending)

(* The input queue as a sequence, before and after a step. *)
LEMMA Lengths ==
  ASSUME Inv, ListInv
  PROVE  Q \in Seq(Job) /\ Len(Q) \in Nat /\ Len(sent) \in Nat
<1>1. Q \in Seq(Job) /\ sent \in Seq(Record)
  BY QIsSequence DEF ListInv, FieldsOK
<1> QED
  BY <1>1, LenProperties

(* A step of the input queue keeps its invariant. *)
LEMMA InputStep ==
  ASSUME Inv, [Next]_vars
  PROVE  Inv'
<1>1. TypeOK'
  BY TypeStep DEF Inv
<1>2. OccupiedSlotsHoldJobs'
  BY <1>1, SlotsStep
<1> QED
  BY <1>1, <1>2 DEF Inv

(* Nothing changes in the input queue. *)
LEMMA SameInput ==
  ASSUME Inv, UNCHANGED vars
  PROVE  Inv' /\ Q' = Q /\ job' = job
<1>1. Inv'
  BY InputStep
<1> QED
  BY <1>1 DEF vars, Q, InputQueueIndex

(* QueueForOptimization. *)
LEMMA QueueOne ==
  ASSUME QueuesInv, NEW j \in Job, QueueForOptimization(j)
  PROVE  QueuesInv'
<1>1. /\ j \notin pending
      /\ QueueFront(j) \/ QueueBack(j)
      /\ pending' = pending \cup {j} /\ UNCHANGED <<unboundVars, compiling>>
  BY DEF QueueForOptimization
<1>2. Inv /\ ListInv
  BY DEF QueuesInv
<1>3. Inv'
  BY <1>1, <1>2, InputStep DEF Next
<1>4. ListInv'
  BY <1>1, <1>2, SameList
<1>5. UNCHANGED <<value, ppc, node, sent, compiling, job>>
  BY <1>1 DEF unboundVars, heapVars, QueueFront, QueueBack
<1>6. Hand' = Hand
  BY <1>5 DEF Hand
<1>7. Q' = Append(Q, j) \/ Q' = <<j>> \o Q
  <2>1. CASE QueueBack(j)
    BY <1>2, <1>3, <2>1, BackIsPushBack DEF Deque!PushBack, Q
  <2>2. CASE QueueFront(j)
    BY <1>2, <1>3, <2>2, FrontIsPushFront DEF Deque!PushFront, Q
  <2> QED
    BY <1>1, <2>1, <2>2
<1>8. /\ Len(Q) \in Nat /\ Len(Q') = Len(Q) + 1
      /\ \/ Q'[Len(Q')] = j /\ \A i \in 1..Len(Q) : Q'[i] = Q[i]
         \/ Q'[1] = j /\ \A i \in 1..Len(Q) : Q'[i + 1] = Q[i]
  <2>1. Q \in Seq(Job) /\ Len(Q) \in Nat
    BY <1>2, Lengths
  <2>2. CASE Q' = Append(Q, j)
    BY <2>1, <2>2, AppendProperties
  <2>3. CASE Q' = <<j>> \o Q
    <3>1. <<j>> \in Seq(Job) /\ Len(<<j>>) = 1 /\ <<j>>[1] = j
      OBVIOUS
    <3>2. /\ Len(<<j>> \o Q) = 1 + Len(Q)
          /\ \A i \in 1 .. 1 + Len(Q) :
               (<<j>> \o Q)[i] = IF i <= 1 THEN <<j>>[i] ELSE Q[i - 1]
      BY <2>1, <3>1, ConcatProperties
    <3>3. Q'[1] = j
      BY <2>1, <2>3, <3>1, <3>2
    <3>4. \A i \in 1..Len(Q) : i + 1 \in 1 .. 1 + Len(Q) /\ ~(i + 1 <= 1) /\ (i + 1) - 1 = i
      BY <2>1
    <3> QED
      BY <2>1, <2>3, <3>2, <3>3, <3>4
  <2> QED
    BY <1>7, <2>2, <2>3
<1>9. OnePlace(Q', Hand', sent', pending')
  <2>1. OnePlace(Q, Hand, sent, pending)
    BY DEF QueuesInv
  <2>2. OnePlace(Q', Hand, sent, pending \cup {j})
    BY <1>1, <1>8, <2>1, PushOne
  <2> QED
    BY <1>1, <1>5, <1>6, <2>2
<1> QED
  BY <1>3, <1>4, <1>5, <1>9 DEF QueuesInv

(* CompileNext takes a job out of the input queue. *)
LEMMA CompileOne ==
  ASSUME QueuesInv, CompileNext
  PROVE  QueuesInv'
<1>1. /\ ~compiling /\ ppc = "idle" /\ NextInput /\ compiling' = TRUE
      /\ UNCHANGED <<unboundVars, pending>>
  BY DEF CompileNext
<1>2. Inv /\ ListInv /\ OnePlace(Q, Hand, sent, pending)
  BY DEF QueuesInv
<1>3. Inv' /\ ListInv'
  BY <1>1, <1>2, InputStep, SameList DEF Next
<1>4. UNCHANGED <<ppc, sent, pending>>
  BY <1>1 DEF unboundVars
<1>5. Q # <<>> /\ job' = Head(Q) /\ Q' = Tail(Q)
  BY <1>1, <1>2, <1>3, NextInputIsPopFront DEF Deque!PopFront, Q
<1>6. /\ Len(Q) \in Nat \ {0} /\ job' = Q[1] /\ job' \in Job /\ Len(Q') = Len(Q) - 1
      /\ \A i \in 1..Len(Q') : Q'[i] = Q[i + 1]
  <2>1. Q \in Seq(Job) /\ Len(Q) \in Nat
    BY <1>2, Lengths
  <2> QED
    BY <1>5, <2>1, HeadTailProperties, EmptySeq
<1>7. Hand = {} /\ Hand' = {Q[1]}
  BY <1>1, <1>6 DEF Hand
<1>8. OnePlace(Q', Hand', sent', pending')
  <2>1. OnePlace(Q', {Q[1]}, sent, pending)
    BY <1>2, <1>6, <1>7, TakeOne
  <2> QED
    BY <1>4, <1>7, <2>1
<1> QED
  BY <1>1, <1>3, <1>4, <1>6, <1>8 DEF QueuesInv

(* The compiled job is linked into the output list. *)
LEMMA EnqueueOne ==
  ASSUME QueuesInv, EnqueueOutput
  PROVE  QueuesInv'
<1>1. /\ compiling /\ EnqueueLink(job) /\ compiling' = FALSE
      /\ UNCHANGED <<vars, pending>>
  BY DEF EnqueueOutput
<1>2. Inv /\ ListInv /\ OnePlace(Q, Hand, sent, pending) /\ job \in Record
  BY <1>1, RecordAssumption DEF QueuesInv
<1>3. Inv' /\ ListInv' /\ Q' = Q
  BY <1>1, <1>2, SameInput, LinkKeeps
<1>4. ppc' = "publish" /\ value'[node'] = job /\ sent' = sent
  BY <1>1, <1>2 DEF EnqueueLink, ListInv, FieldsOK
<1>5. Hand' = Hand
  BY <1>1, <1>4 DEF Hand
<1> QED
  BY <1>1, <1>2, <1>3, <1>4, <1>5 DEF QueuesInv

(* It is published, and nodes left behind are freed. *)
LEMMA GoOnOne ==
  ASSUME QueuesInv, EnqueueGoesOn
  PROVE  QueuesInv'
<1>1. /\ EnqueuePublish \/ Reclaim
      /\ UNCHANGED <<vars, compiling, pending>>
  BY DEF EnqueueGoesOn
<1>2. Inv /\ ListInv /\ OnePlace(Q, Hand, sent, pending) /\ Len(sent) \in Nat
  BY Lengths DEF QueuesInv
<1>3. Inv' /\ Q' = Q /\ job' = job
  BY <1>1, <1>2, SameInput
<1>4. ~compiling /\ ~compiling' /\ compiling' \in BOOLEAN
  BY <1>1 DEF QueuesInv, EnqueuePublish, Reclaim
<1>5. CASE EnqueuePublish
  <2>1. ListInv'
    BY <1>2, <1>5, PublishKeeps
  <2>2. Hand = {value[node]} /\ Hand' = {}
    BY <1>4, <1>5 DEF Hand, EnqueuePublish
  <2>3. sent \in Seq(Record) /\ value[node] \in Record /\ sent' = Append(sent, value[node])
    <3>1. PICK path, f, d, e : Chain(path, f, d, e)
      BY <1>2 DEF ListInv
    <3> QED
      BY <1>2, <1>5, <3>1 DEF ListInv, FieldsOK, EnqueuePublish, Chain, Pointers
  <2>4. /\ Len(sent') = Len(sent) + 1 /\ sent'[Len(sent')] = value[node]
        /\ \A i \in 1..Len(sent) : sent'[i] = sent[i]
    BY <1>2, <2>3, AppendProperties
  <2>5. OnePlace(Q, {}, sent', pending)
    BY <1>2, <2>2, <2>4, SendOne
  <2> QED
    BY <1>1, <1>3, <1>4, <2>1, <2>2, <2>5 DEF QueuesInv
<1>6. CASE Reclaim
  <2>1. ListInv'
    BY <1>2, <1>6, ReclaimKeeps
  <2>2. Hand = {} /\ Hand' = {} /\ sent' = sent
    BY <1>4, <1>6 DEF Hand, Reclaim
  <2> QED
    BY <1>1, <1>2, <1>3, <1>4, <2>1, <2>2 DEF QueuesInv
<1> QED
  BY <1>1, <1>5, <1>6

(* Dequeue. *)
LEMMA DequeueOne ==
  ASSUME QueuesInv, Dequeue
  PROVE  QueuesInv'
<1>1. UNCHANGED vars /\ compiling' = compiling
  BY DEF Dequeue
<1>2. Inv /\ ListInv /\ OnePlace(Q, Hand, sent, pending)
  BY DEF QueuesInv
<1>3. Inv' /\ Q' = Q /\ job' = job
  BY <1>1, <1>2, SameInput
<1>4. UNCHANGED <<value, node, ppc>>
  BY DEF Dequeue, DequeueTest, DequeueRead, DequeueMove, heapVars
<1>5. Hand' = Hand
  BY <1>1, <1>3, <1>4 DEF Hand
<1>6. CASE (DequeueTest \/ DequeueRead) /\ UNCHANGED pending
  <2>1. ListInv' /\ sent' = sent /\ pending' = pending
    BY <1>2, <1>6, LookKeeps DEF DequeueTest, DequeueRead
  <2> QED
    BY <1>1, <1>2, <1>3, <1>4, <1>5, <2>1 DEF QueuesInv
<1>7. CASE DequeueMove /\ pending' = pending \ {rec}
  <2>1. /\ ListInv' /\ Len(sent) \in Nat \ {0} /\ rec = sent[1]
        /\ Len(sent') = Len(sent) - 1
        /\ \A i \in 1..Len(sent') : sent'[i] = sent[i + 1]
    BY <1>2, <1>7, MoveKeeps
  <2>2. OnePlace(Q, Hand, sent', pending \ {sent[1]})
    BY <1>2, <2>1, ReceiveOne
  <2> QED
    BY <1>1, <1>3, <1>4, <1>5, <1>7, <2>1, <2>2 DEF QueuesInv
<1> QED
  BY <1>6, <1>7 DEF Dequeue

(* The invariant of both queues is inductive. *)
LEMMA QueuesInductive == QueuesSpec => []QueuesInv
<1>1. QueuesInit => QueuesInv
  <2> SUFFICES ASSUME QueuesInit
               PROVE  QueuesInv
    OBVIOUS
  <2>1. Init /\ UnboundQueueInit /\ compiling = FALSE /\ pending = {}
    BY DEF QueuesInit
  <2>2. Inv
    BY <2>1, CapacityAssumption DEF Init, Inv, TypeOK, Index, OccupiedSlotsHoldJobs
  <2>3. ListInv
    BY <2>1, ListInit
  <2>4. Hand = {} /\ sent = <<>>
    BY <2>1 DEF Hand, UnboundQueueInit
  <2>5. Len(Q) = 0
    BY <2>1, <2>2, QIsSequence DEF Init
  <2>6. OnePlace(Q, Hand, sent, pending)
    BY <2>1, <2>4, <2>5 DEF OnePlace
  <2> QED
    BY <2>1, <2>2, <2>3, <2>6 DEF QueuesInv
<1>2. QueuesInv /\ [QueuesNext]_queuesVars => QueuesInv'
  <2> SUFFICES ASSUME QueuesInv, [QueuesNext]_queuesVars
               PROVE  QueuesInv'
    OBVIOUS
  <2>1. CASE UNCHANGED queuesVars
    <3>1. UNCHANGED <<vars, unboundVars, compiling, pending>>
      BY <2>1 DEF queuesVars
    <3>2. Inv' /\ Q' = Q /\ job' = job /\ ListInv'
      BY <3>1, SameInput, SameList DEF QueuesInv
    <3>3. UNCHANGED <<value, node, ppc, sent>>
      BY <3>1 DEF unboundVars, heapVars
    <3>4. Hand' = Hand
      BY <3>1, <3>2, <3>3 DEF Hand
    <3> QED
      BY <3>1, <3>2, <3>3, <3>4 DEF QueuesInv
  <2> QED
    BY <2>1, QueueOne, CompileOne, EnqueueOne, GoOnOne, DequeueOne
       DEF QueuesNext, CompilerThread
<1> QED
  BY <1>1, <1>2, PTL DEF QueuesSpec

(* How often something occurs that occurs once or not at all. *)
LEMMA CountOnce ==
  ASSUME NEW I, NEW P, P \subseteq I, \A i, k \in P : i = k
  PROVE  Cardinality(P) = IF P = {} THEN 0 ELSE 1
<1>1. CASE P = {}
  BY <1>1, FS_EmptySet
<1>2. CASE P # {}
  <2>1. PICK x \in P : P = {x}
    BY <1>2
  <2> QED
    BY <1>2, <2>1, FS_Singleton
<1> QED
  BY <1>1, <1>2

(* One place, counted. *)
LEMMA QueuesSafe == QueuesInv => EachJobInOnePlace
<1> SUFFICES ASSUME QueuesInv, NEW j \in Job
             PROVE  Cardinality({i \in 0 .. input_queue_length - 1 :
                                   input_queue[InputQueueIndex(i)] = j})
                    + (IF compiling /\ job = j THEN 1 ELSE 0)
                    + (IF ppc = "publish" /\ value[node] = j THEN 1 ELSE 0)
                    + Cardinality({i \in 1 .. Len(sent) : sent[i] = j})
                      = IF j \in pending THEN 1 ELSE 0
  BY DEF EachJobInOnePlace
<1> DEFINE A == {i \in 0 .. input_queue_length - 1 :
                   input_queue[InputQueueIndex(i)] = j}
           B == {i \in 1 .. Len(sent) : sent[i] = j}
<1>1. Inv /\ ListInv /\ OnePlace(Q, Hand, sent, pending) /\ (compiling => ppc = "idle")
  BY DEF QueuesInv
<1>2. /\ Len(Q) = input_queue_length /\ input_queue_length \in Nat
      /\ \A i \in 1..Len(Q) : Q[i] = input_queue[InputQueueIndex(i - 1)]
  BY <1>1, QIsSequence, CapacityAssumption DEF Inv, TypeOK, InputQueueIndex
<1>3. \A i \in A : i + 1 \in 1..Len(Q) /\ Q[i + 1] = j /\ i \in Nat
  <2>1. \A i \in 0 .. input_queue_length - 1 : i + 1 \in 1..Len(Q) /\ (i + 1) - 1 = i /\ i \in Nat
    BY <1>2
  <2> QED
    BY <1>2, <2>1
<1>4. (\E i \in 1..Len(Q) : Q[i] = j) => A # {}
  <2>1. \A i \in 1..Len(Q) : i - 1 \in 0 .. input_queue_length - 1
    BY <1>2
  <2> QED
    BY <1>2, <2>1
<1>5. \A i, k \in A : i = k
  <2> SUFFICES ASSUME NEW i \in A, NEW k \in A
               PROVE  i = k
    OBVIOUS
  <2>1. i + 1 = k + 1
    BY <1>1, <1>3 DEF OnePlace
  <2> QED
    BY <1>3, <2>1
<1>6. \A i, k \in B : i = k
  BY <1>1 DEF OnePlace
<1>7. /\ Cardinality(A) = IF A = {} THEN 0 ELSE 1
      /\ Cardinality(B) = IF B = {} THEN 0 ELSE 1
  <2>1. A \subseteq A /\ B \subseteq B
    OBVIOUS
  <2> HIDE DEF A, B
  <2> QED
    BY <1>5, <1>6, <2>1, CountOnce
<1>8. /\ A # {} => B = {} /\ j \notin Hand /\ j \in pending
      /\ B # {} => A = {} /\ j \notin Hand /\ j \in pending
      /\ j \in Hand => A = {} /\ B = {} /\ j \in pending
      /\ j \in pending => A # {} \/ B # {} \/ j \in Hand
  <2>1. A # {} => \E i \in 1..Len(Q) : Q[i] = j
    BY <1>3
  <2>2. B # {} <=> \E k \in 1..Len(sent) : sent[k] = j
    OBVIOUS
  <2> HIDE DEF A, B
  <2> QED
    BY <1>1, <1>4, <2>1, <2>2 DEF OnePlace
<1>9. (IF compiling /\ job = j THEN 1 ELSE 0)
      + (IF ppc = "publish" /\ value[node] = j THEN 1 ELSE 0)
        = IF j \in Hand THEN 1 ELSE 0
  BY <1>1 DEF Hand
<1> HIDE DEF A, B
<1>10. Cardinality(A) + (IF compiling /\ job = j THEN 1 ELSE 0)
       + (IF ppc = "publish" /\ value[node] = j THEN 1 ELSE 0)
       + Cardinality(B) = IF j \in pending THEN 1 ELSE 0
  BY <1>7, <1>8, <1>9
<1> QED
  BY <1>10 DEF A, B

(* A job that was queued and has not come back is in exactly one place,      *)
(* however the two threads interleave in the queues.                         *)
THEOREM OnePlaceEach == QueuesSpec => []EachJobInOnePlace
BY QueuesInductive, QueuesSafe, PTL

(* The consumer and the producer never follow a node that has been freed.    *)
THEOREM NoDangling == QueuesSpec => []NoDanglingNode
<1>1. QueuesInv => NoDanglingNode
  BY ListSafe DEF QueuesInv
<1> QED
  BY <1>1, QueuesInductive, PTL

(* The output list is a queue: it holds what was enqueued and not dequeued,  *)
(* in order.                                                                 *)
THEOREM ListMatches == QueuesSpec => []ListMatchesSent
<1>1. QueuesInv => ListMatchesSent
  BY ListSafe DEF QueuesInv
<1> QED
  BY <1>1, QueuesInductive, PTL

(* With the output queue beside it the circular array still implements the   *)
(* bounded deque.                                                            *)
THEOREM QueuesRefinement == QueuesSpec => ImplementsDeque
<1>1. QueuesInit => Init
  BY DEF QueuesInit
<1>2. [QueuesNext]_queuesVars => [Next]_vars
  BY DEF QueuesNext, CompilerThread, QueueForOptimization, CompileNext,
         EnqueueOutput, EnqueueGoesOn, Dequeue, Next, queuesVars
<1> QED
  BY <1>1, <1>2, Refinement, PTL DEF QueuesSpec, Spec
=============================================================================
