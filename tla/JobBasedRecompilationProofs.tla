--------------------- MODULE JobBasedRecompilationProofs ---------------------
(***************************************************************************)
(* Proofs about --job-based-recompilation, for every number of jobs and    *)
(* workers and every capacity: Stop joins the tasks because the counter    *)
(* input_queue_length_ is exact, code in the output queue is announced,    *)
(* and, but for the OSR jobs Flush takes away from their tasks, nobody     *)
(* refers to a deleted job, because a job is in one place at a time.       *)
(***************************************************************************)
EXTENDS JobBasedRecompilation, SequenceTheorems, FiniteSetTheorems, TLAPS

WorkerPc == {"get", "wait", "exit", "run", "announce", "decrement", "signal"}
MainPc == {"idle", "install", "flush", "stop", "sleep", "stopped", "join"}

Running == {w \in Worker : worker[w] = "run"}

(* The workers whose task is still counted by input_queue_length_. *)
Counted == {w \in Worker : worker[w] \in {"run", "announce", "decrement"}}

TypeOK ==
  /\ task_queue \in Seq(Task) /\ output_queue \in Seq(Task)
  /\ worker \in [Worker -> WorkerPc]
  /\ task \in [Worker -> Task \cup {NoTask}]
  /\ \A w \in Running : task[w] \in Task
  /\ main \in MainPc
  /\ fresh \subseteq Task
  /\ osr_buffer \subseteq Osr /\ waiting \subseteq Osr
  /\ input_queue_length \in Int

(* The counter counts the tasks that are queued or not past TaskDecrement.  *)
CountInv ==
  /\ input_queue_length = Len(task_queue) + Cardinality(Counted)
  /\ main \in {"stopped", "join"} => input_queue_length = 0

Distinct(q) == \A i, k \in 1..Len(q) : q[i] = q[k] => i = k

(* A job is not made yet, or in one place of the task queue, at one worker,  *)
(* or in one place of the output queue.                                      *)
PlaceInv ==
  /\ Distinct(task_queue) /\ Distinct(output_queue)
  /\ \A v, w \in Running : task[v] = task[w] => v = w
  /\ \A w \in Running :
       task[w] \notin Elements(task_queue) \cup Elements(output_queue)
  /\ Elements(task_queue) \cap Elements(output_queue) = {}
  /\ fresh \cap (Compiling \cup Elements(output_queue)) = {}

(* Nobody refers to a deleted job, and a job that waits for its back edge    *)
(* has left the tasks and the output queue.                                  *)
ExistInv ==
  \/ osr_lost
  \/ main \in {"stopped", "join"}
  \/ /\ (Compiling \cup Elements(output_queue)) \cap (freed \cup waiting) = {}
     /\ fresh \cap (freed \cup waiting \cup osr_buffer) = {}
     /\ osr_buffer \cap freed = {}

JobsInv == TypeOK /\ CountInv /\ PlaceInv

-----------------------------------------------------------------------------
(* Queues as sets of distinct jobs. *)

(* The elements of a queue, by position. *)
LEMMA ElementsOfSeq ==
  ASSUME NEW q \in Seq(Task)
  PROVE  Elements(q) = {q[i] : i \in 1..Len(q)} /\ Elements(q) \subseteq Task
BY LenProperties DEF Elements

(* An empty queue holds nothing, and only an empty one. *)
LEMMA EmptyElements ==
  /\ Elements(<<>>) = {} /\ Distinct(<<>>) /\ Len(<<>>) = 0
  /\ <<>> \in Seq(Task)
BY DEF Elements, Distinct

(* Taking the first job out of a queue. *)
LEMMA PopElements ==
  ASSUME NEW q \in Seq(Task), q # <<>>
  PROVE  /\ Tail(q) \in Seq(Task) /\ Head(q) \in Task
         /\ Len(q) \in Nat /\ Len(Tail(q)) = Len(q) - 1
         /\ Elements(q) = {Head(q)} \cup Elements(Tail(q))
         /\ Distinct(q) => Distinct(Tail(q)) /\ Head(q) \notin Elements(Tail(q))
<1>1. /\ Head(q) = q[1] /\ Tail(q) \in Seq(Task) /\ Len(q) \in Nat /\ Len(q) > 0
      /\ Len(Tail(q)) = Len(q) - 1 /\ Head(q) \in Task
      /\ \A i \in 1 .. Len(q) - 1 : Tail(q)[i] = q[i + 1]
  BY HeadTailProperties, LenProperties
<1>2. \A i \in 1..Len(q) : i = 1 \/ (i - 1 \in 1 .. Len(q) - 1 /\ (i - 1) + 1 = i)
  BY <1>1
<1>3. \A i \in 1 .. Len(q) - 1 : i + 1 \in 1..Len(q)
  BY <1>1
<1>4. /\ Elements(q) = {q[i] : i \in 1..Len(q)}
      /\ Elements(Tail(q)) = {Tail(q)[i] : i \in 1 .. Len(q) - 1}
  BY <1>1, ElementsOfSeq
<1>5. Elements(q) \subseteq {Head(q)} \cup Elements(Tail(q))
  <2> SUFFICES ASSUME NEW i \in 1..Len(q), i # 1
               PROVE  q[i] \in Elements(Tail(q))
    BY <1>1, <1>4
  <2>1. i - 1 \in 1 .. Len(q) - 1 /\ Tail(q)[i - 1] = q[i]
    BY <1>1, <1>2
  <2> QED
    BY <1>4, <2>1
<1>6. Elements(Tail(q)) \subseteq Elements(q) /\ Head(q) \in Elements(q)
  BY <1>1, <1>3, <1>4
<1>7. ASSUME Distinct(q)
      PROVE  Distinct(Tail(q)) /\ Head(q) \notin Elements(Tail(q))
  BY <1>1, <1>3, <1>4, <1>7 DEF Distinct
<1> QED
  BY <1>1, <1>5, <1>6, <1>7

(* Adding a job at the back. *)
LEMMA AppendElements ==
  ASSUME NEW q \in Seq(Task), NEW j \in Task
  PROVE  /\ Append(q, j) \in Seq(Task)
         /\ Len(q) \in Nat /\ Len(Append(q, j)) = Len(q) + 1
         /\ Elements(Append(q, j)) = Elements(q) \cup {j}
         /\ Distinct(q) /\ j \notin Elements(q) => Distinct(Append(q, j))
<1>1. /\ Len(q) \in Nat /\ Append(q, j) \in Seq(Task)
      /\ Len(Append(q, j)) = Len(q) + 1
      /\ \A i \in 1..Len(q) : Append(q, j)[i] = q[i]
      /\ Append(q, j)[Len(q) + 1] = j
  BY AppendProperties, LenProperties
<1>2. \A i \in 1 .. Len(q) + 1 : i \in 1..Len(q) \/ i = Len(q) + 1
  BY <1>1
<1>3. /\ Len(q) + 1 \in 1 .. Len(q) + 1
      /\ \A i \in 1..Len(q) : i \in 1 .. Len(q) + 1
  BY <1>1
<1>4. /\ Elements(q) = {q[i] : i \in 1..Len(q)}
      /\ Elements(Append(q, j)) = {Append(q, j)[i] : i \in 1 .. Len(q) + 1}
  BY <1>1, ElementsOfSeq
<1>5. Elements(Append(q, j)) = Elements(q) \cup {j}
  BY <1>1, <1>2, <1>3, <1>4
<1>6. ASSUME Distinct(q), j \notin Elements(q) PROVE Distinct(Append(q, j))
  BY <1>1, <1>2, <1>4, <1>6 DEF Distinct
<1> QED
  BY <1>1, <1>5, <1>6

(* The workers are finitely many, so those that are counted can be. *)
LEMMA CountedFinite ==
  ASSUME NEW S \in SUBSET Worker
  PROVE  IsFiniteSet(S) /\ Cardinality(S) \in Nat
BY PlatformAssumption, FS_Subset, FS_CardinalityType

(* One worker goes on to its next step: the others stay where they are. *)
LEMMA WorkerMoves ==
  ASSUME TypeOK, NEW w \in Worker, NEW to \in WorkerPc,
         worker' = [worker EXCEPT ![w] = to]
  PROVE  /\ worker' \in [Worker -> WorkerPc] /\ worker'[w] = to
         /\ \A v \in Worker \ {w} : worker'[v] = worker[v]
         /\ to \in {"run", "announce", "decrement"} => Counted' = Counted \cup {w}
         /\ to \notin {"run", "announce", "decrement"} => Counted' = Counted \ {w}
         /\ to = "run" => Running' = Running \cup {w}
         /\ to # "run" => Running' = Running \ {w}
<1>1. /\ worker' \in [Worker -> WorkerPc] /\ worker'[w] = to
      /\ \A v \in Worker \ {w} : worker'[v] = worker[v]
  BY DEF TypeOK
<1> QED
  BY <1>1 DEF Counted, Running

(* The jobs that are being compiled, in terms of the workers that run. *)
LEMMA CompilingIs ==
  /\ Compiling = Elements(task_queue) \cup {task[w] : w \in Running}
  /\ Compiling' = Elements(task_queue') \cup {task'[w] : w \in Running'}
BY DEF Compiling, Running

-----------------------------------------------------------------------------
(* The state the worker threads share with the main thread, step by step.    *)

(* GetNext takes the front task. *)
LEMMA GetNextSteps ==
  ASSUME JobsInv, NEW w \in Worker, GetNext(w), UNCHANGED jobVars
  PROVE  /\ JobsInv'
         /\ Compiling' = Compiling
<1> USE DEF JobsInv
<1> USE DEF jobVars, mainVars, threadVars, osrVars
<1>1. worker[w] = "get" /\ w \notin Counted /\ w \notin Running
  BY DEF GetNext, Counted, Running
<1>2. CASE task_queue = <<>>
  <2> PICK to \in {"exit", "wait"} : worker' = [worker EXCEPT ![w] = to]
    BY <1>2 DEF GetNext
  <2>1. UNCHANGED <<task_queue, task>>
    BY <1>2 DEF GetNext
  <2>2. /\ worker' \in [Worker -> WorkerPc] /\ Counted' = Counted
        /\ Running' = Running
    <3>1. to \in WorkerPc /\ to \notin {"run", "announce", "decrement"}
      BY DEF WorkerPc
    <3>2. /\ worker' \in [Worker -> WorkerPc] /\ Counted' = Counted \ {w}
          /\ Running' = Running \ {w}
      BY <3>1, WorkerMoves
    <3> QED
      BY <1>1, <3>2
  <2>3. Compiling' = Compiling
    BY <2>1, <2>2 DEF Compiling, Running
  <2>4. TypeOK' /\ CountInv' /\ PlaceInv'
    BY <2>1, <2>2, <2>3 DEF TypeOK, CountInv, PlaceInv
  <2> QED
    BY <2>3, <2>4
<1>3. CASE task_queue # <<>>
  <2>1. /\ task' = [task EXCEPT ![w] = Head(task_queue)]
        /\ task_queue' = Tail(task_queue)
        /\ worker' = [worker EXCEPT ![w] = "run"]
    BY <1>3 DEF GetNext
  <2>2. /\ worker' \in [Worker -> WorkerPc] /\ Counted' = Counted \cup {w}
        /\ Running' = Running \cup {w}
    BY <2>1, WorkerMoves DEF WorkerPc
  <2>3. /\ task' \in [Worker -> Task \cup {NoTask}]
        /\ task'[w] = Head(task_queue)
        /\ \A v \in Worker \ {w} : task'[v] = task[v]
        /\ Head(task_queue) \in Task /\ task_queue' \in Seq(Task)
        /\ Len(task_queue) \in Nat /\ Len(task_queue') = Len(task_queue) - 1
        /\ Elements(task_queue) = {Head(task_queue)} \cup Elements(task_queue')
    BY <1>3, <2>1, PopElements DEF TypeOK
  <2>4. Distinct(task_queue') /\ Head(task_queue) \notin Elements(task_queue')
    BY <1>3, <2>1, PopElements DEF TypeOK, PlaceInv
  <2>5. Running \subseteq Worker \ {w}
    BY <1>1 DEF Running
  <2>6. TypeOK'
    BY <2>2, <2>3, <2>5 DEF TypeOK
  <2>7. CountInv'
    <3>1. Cardinality(Counted') = Cardinality(Counted) + 1
          /\ Cardinality(Counted) \in Nat
      BY <1>1, <2>2, CountedFinite, FS_AddElement DEF Counted
    <3> QED
      BY <2>3, <3>1 DEF CountInv
  <2>8. Compiling' = Compiling
    BY <2>2, <2>3, <2>5, CompilingIs
  <2>9. PlaceInv'
    BY <2>2, <2>3, <2>4, <2>5, <2>8 DEF PlaceInv
  <2> QED
    BY <2>6, <2>7, <2>8, <2>9
<1> QED
  BY <1>2, <1>3

(* A worker that waits looks again, or goes on from a step of its task to    *)
(* another that is counted alike.                                            *)
LEMMA WorkerStays ==
  ASSUME JobsInv, NEW w \in Worker, NEW to \in WorkerPc \ {"run"},
         worker' = [worker EXCEPT ![w] = to], worker[w] # "run",
         w \in Counted <=> to \in {"announce", "decrement"},
         \A v \in Worker \ {w} : task'[v] = task[v],
         task' \in [Worker -> Task \cup {NoTask}],
         UNCHANGED <<task_queue, output_queue, main, fresh, osrVars,
                     input_queue_length>>
  PROVE  JobsInv' /\ Compiling' = Compiling
<1> USE DEF JobsInv, osrVars
<1>1. /\ worker' \in [Worker -> WorkerPc] /\ Counted' = Counted
      /\ Running' = Running /\ w \notin Running /\ Running \subseteq Worker
  <2>1. /\ worker' \in [Worker -> WorkerPc] /\ Running' = Running \ {w}
        /\ to \in {"announce", "decrement"} => Counted' = Counted \cup {w}
        /\ to \notin {"announce", "decrement"} => Counted' = Counted \ {w}
    BY WorkerMoves
  <2>2. w \notin Running /\ Running \subseteq Worker
    BY DEF Running
  <2> QED
    BY <2>1, <2>2
<1>2. \A v \in Running : task'[v] = task[v]
  BY <1>1
<1>3. TypeOK' /\ CountInv'
  BY <1>1, <1>2 DEF TypeOK, CountInv
<1>4. Compiling' = Compiling
  BY <1>1, <1>2, CompilingIs
<1>5. PlaceInv'
  BY <1>1, <1>2, <1>4 DEF PlaceInv
<1> QED
  BY <1>3, <1>4, <1>5

(* output_queue_.Enqueue: the job moves from the worker to the queue. *)
LEMMA EnqueueSteps ==
  ASSUME JobsInv, NEW w \in Worker, TaskEnqueue(w)
  PROVE  /\ JobsInv'
         /\ Compiling' \cup Elements(output_queue)' =
              Compiling \cup Elements(output_queue)
<1> USE DEF JobsInv
<1>1. /\ worker[w] = "run" /\ worker' = [worker EXCEPT ![w] = "announce"]
      /\ output_queue' = Append(output_queue, task[w])
      /\ UNCHANGED <<task_queue, task, main, fresh, osr_buffer, waiting,
                     input_queue_length>>
  BY DEF TaskEnqueue, TaskStep, queueVars, mainVars, osrVars
<1>2. w \in Running /\ w \in Counted /\ task[w] \in Task
  BY <1>1 DEF Running, Counted, TypeOK
<1>3. /\ worker' \in [Worker -> WorkerPc] /\ Counted' = Counted
      /\ Running' = Running \ {w}
  <2>1. "announce" \in WorkerPc
    BY DEF WorkerPc
  <2>2. /\ worker' \in [Worker -> WorkerPc] /\ Counted' = Counted \cup {w}
        /\ Running' = Running \ {w}
    BY <1>1, <2>1, WorkerMoves
  <2> QED
    BY <1>2, <2>2
<1>4. /\ output_queue' \in Seq(Task)
      /\ Elements(output_queue') = Elements(output_queue) \cup {task[w]}
  BY <1>1, <1>2, AppendElements DEF TypeOK
<1>5. Distinct(output_queue')
  BY <1>1, <1>2, AppendElements DEF TypeOK, PlaceInv
<1>6. TypeOK' /\ CountInv'
  BY <1>1, <1>3, <1>4 DEF TypeOK, CountInv
<1>7. Compiling' \cup Elements(output_queue') =
        Compiling \cup Elements(output_queue)
  BY <1>1, <1>2, <1>3, <1>4, CompilingIs
<1>8. /\ \A v \in Running' : task'[v] # task[w]
      /\ task[w] \notin Elements(task_queue)
  BY <1>1, <1>2, <1>3 DEF PlaceInv
<1>9. PlaceInv'
  BY <1>1, <1>3, <1>4, <1>5, <1>7, <1>8 DEF PlaceInv
<1> QED
  BY <1>6, <1>7, <1>9

(* input_queue_length_--: the task is not counted any more. *)
LEMMA DecrementSteps ==
  ASSUME JobsInv, NEW w \in Worker, TaskDecrement(w)
  PROVE  JobsInv' /\ Compiling' = Compiling
<1> USE DEF JobsInv
<1>1. /\ worker[w] = "decrement" /\ worker' = [worker EXCEPT ![w] = "signal"]
      /\ input_queue_length' = input_queue_length - 1
      /\ UNCHANGED <<task_queue, task, main, fresh, osr_buffer, waiting,
                     output_queue>>
  BY DEF TaskDecrement, TaskStep, queueVars, mainVars, osrVars
<1>2. w \notin Running /\ w \in Counted
  BY <1>1 DEF Running, Counted
<1>3. /\ worker' \in [Worker -> WorkerPc] /\ Counted' = Counted \ {w}
      /\ Running' = Running
  <2>1. "signal" \in WorkerPc
    BY DEF WorkerPc
  <2>2. /\ worker' \in [Worker -> WorkerPc] /\ Counted' = Counted \ {w}
        /\ Running' = Running \ {w}
    BY <1>1, <2>1, WorkerMoves
  <2> QED
    BY <1>2, <2>2
<1>4. /\ Cardinality(Counted') = Cardinality(Counted) - 1
      /\ Cardinality(Counted) \in Nat /\ Cardinality(Counted') \in Nat
      /\ Len(task_queue) \in Nat
  <2>1. Counted \in SUBSET Worker /\ Counted' \in SUBSET Worker
    BY <1>3 DEF Counted
  <2> QED
    BY <1>2, <1>3, <2>1, CountedFinite, FS_RemoveElement, LenProperties
    DEF TypeOK
<1>5. Compiling' = Compiling
  BY <1>1, <1>3, CompilingIs
<1>6. TypeOK'
  BY <1>1, <1>3 DEF TypeOK
<1>7. CountInv'
  BY <1>1, <1>4 DEF CountInv
<1>8. PlaceInv'
  BY <1>1, <1>3, <1>5 DEF PlaceInv
<1> QED
  BY <1>5, <1>6, <1>7, <1>8

(* A step of a worker moves jobs from the task queue towards the output      *)
(* queue and leaves the rest alone.                                          *)
LEMMA WorkerSteps ==
  ASSUME JobsInv, NEW w \in Worker, WorkerStep(w)
  PROVE  /\ JobsInv'
         /\ Compiling' \cup Elements(output_queue)' =
              Compiling \cup Elements(output_queue)
         /\ Compiling' \subseteq Compiling
         /\ UNCHANGED <<main, fresh, freed, osr_buffer, waiting, osr_lost>>
<1>0. UNCHANGED <<main, fresh, freed, osr_buffer, waiting, osr_lost>>
  BY DEF WorkerStep, jobVars, mainVars, osrVars, TaskEnqueue, TaskAnnounce,
         TaskDecrement, TaskSignal, TaskStep
<1>1. CASE GetNext(w) /\ UNCHANGED jobVars
  BY <1>0, <1>1, GetNextSteps DEF jobVars, threadVars
<1>2. CASE TaskEnqueue(w)
  <2>1. UNCHANGED <<task_queue, task>> /\ \A v \in Worker : worker'[v] = "run" => worker[v] = "run"
    BY <1>2 DEF TaskEnqueue, TaskStep, queueVars, JobsInv, TypeOK
  <2>2. Compiling' \subseteq Compiling
    BY <2>1 DEF Compiling
  <2> QED
    BY <1>0, <1>2, <2>2, EnqueueSteps
<1>3. CASE TaskDecrement(w)
  <2>1. output_queue' = output_queue
    BY <1>3 DEF TaskDecrement
  <2> QED
    BY <1>0, <1>3, <2>1, DecrementSteps
<1>4. CASE \/ WaitReturns(w) /\ UNCHANGED jobVars
           \/ TaskAnnounce(w) \/ TaskSignal(w)
  <2> PICK to \in {"get", "decrement"} :
        /\ worker' = [worker EXCEPT ![w] = to] /\ worker[w] # "run"
        /\ w \in Counted <=> to = "decrement"
    BY <1>4 DEF WaitReturns, TaskAnnounce, TaskSignal, TaskStep, Counted
  <2>1. UNCHANGED <<task_queue, output_queue, input_queue_length>>
    BY <1>4 DEF WaitReturns, TaskAnnounce, TaskSignal, TaskStep, queueVars,
                jobVars, threadVars
  <2>2. /\ \A v \in Worker \ {w} : task'[v] = task[v]
        /\ task' \in [Worker -> Task \cup {NoTask}]
    BY <1>4 DEF WaitReturns, TaskAnnounce, TaskSignal, JobsInv, TypeOK
  <2>3. to \in WorkerPc \ {"run"} /\ (w \in Counted <=> to \in {"announce", "decrement"})
    BY DEF WorkerPc
  <2>4. JobsInv' /\ Compiling' = Compiling
    BY <1>0, <2>1, <2>2, <2>3, WorkerStays DEF osrVars
  <2> QED
    BY <1>0, <2>1, <2>4
<1> QED
  BY <1>1, <1>2, <1>3, <1>4 DEF WorkerStep

-----------------------------------------------------------------------------
(* The main thread. *)

(* QueueForOptimization: a new job, one more task to count. *)
LEMMA QueueSteps ==
  ASSUME JobsInv, NEW j \in Task, QueueForOptimization(j)
  PROVE  JobsInv' /\ Compiling' = Compiling \cup {j}
<1> USE DEF JobsInv
<1>1. /\ main = "idle" /\ j \in fresh /\ fresh' = fresh \ {j}
      /\ osr_buffer' = osr_buffer \cup ({j} \cap Osr)
      /\ input_queue_length' = input_queue_length + 1
      /\ task_queue' = Append(task_queue, j)
      /\ UNCHANGED <<worker, task, main, output_queue, waiting>>
  BY DEF QueueForOptimization, CallOnBackgroundThread
<1>2. Running' = Running /\ Counted' = Counted
  BY <1>1 DEF Running, Counted
<1>3. /\ task_queue' \in Seq(Task)
      /\ Len(task_queue) \in Nat /\ Len(task_queue') = Len(task_queue) + 1
      /\ Elements(task_queue') = Elements(task_queue) \cup {j}
  BY <1>1, AppendElements DEF TypeOK
<1>4. j \notin Compiling \cup Elements(output_queue)
  BY <1>1 DEF PlaceInv
<1>5. j \notin Elements(task_queue) /\ \A w \in Running : task[w] # j
  BY <1>4, CompilingIs
<1>6. Compiling' = Compiling \cup {j}
  BY <1>1, <1>2, <1>3, CompilingIs
<1>7. TypeOK'
  BY <1>1, <1>2, <1>3 DEF TypeOK
<1>8. CountInv'
  <2>1. Cardinality(Counted) \in Nat
    BY CountedFinite DEF Counted
  <2> QED
    BY <1>1, <1>2, <1>3, <2>1 DEF CountInv
<1>9. Distinct(task_queue')
  BY <1>1, <1>5, AppendElements DEF TypeOK, PlaceInv
<1>10. PlaceInv'
  BY <1>1, <1>2, <1>3, <1>4, <1>5, <1>6, <1>9 DEF PlaceInv
<1> QED
  BY <1>6, <1>7, <1>8, <1>10

(* A step of the main thread that takes at most a job out of the output      *)
(* queue, and ends Stop only when nothing is counted.                        *)
LEMMA MainSteps ==
  ASSUME JobsInv, UNCHANGED <<task_queue, worker, task, fresh,
                              input_queue_length>>,
         \/ output_queue' = output_queue
         \/ output_queue # <<>> /\ output_queue' = Tail(output_queue),
         main' \in MainPc,
         main' \in {"stopped", "join"} =>
           main \in {"stopped", "join"} \/ input_queue_length = 0,
         osr_buffer' \subseteq Osr, waiting' \subseteq Osr
  PROVE  /\ JobsInv' /\ Compiling' = Compiling
         /\ Elements(output_queue') \subseteq Elements(output_queue)
<1> USE DEF JobsInv
<1>1. Running' = Running /\ Counted' = Counted /\ Compiling' = Compiling
  BY DEF Running, Counted, Compiling
<1>2. /\ output_queue' \in Seq(Task) /\ Distinct(output_queue')
      /\ Elements(output_queue') \subseteq Elements(output_queue)
  <2>1. CASE output_queue' = output_queue
    BY <2>1 DEF TypeOK, PlaceInv
  <2>2. CASE output_queue # <<>> /\ output_queue' = Tail(output_queue)
    BY <2>2, PopElements DEF TypeOK, PlaceInv
  <2> QED
    BY <2>1, <2>2
<1>3. TypeOK' /\ CountInv'
  BY <1>1, <1>2 DEF TypeOK, CountInv
<1>4. PlaceInv'
  BY <1>1, <1>2 DEF PlaceInv
<1> QED
  BY <1>1, <1>2, <1>3, <1>4

(* When nothing is counted, no task is queued or compiling. *)
LEMMA NothingCounted ==
  ASSUME JobsInv, input_queue_length = 0
  PROVE  /\ task_queue = <<>> /\ Counted = {} /\ Running = {}
         /\ Compiling = {}
<1> USE DEF JobsInv
<1>1. /\ Cardinality(Counted) \in Nat /\ IsFiniteSet(Counted)
      /\ Len(task_queue) \in Nat
  BY CountedFinite, LenProperties DEF Counted, TypeOK
<1>2. Cardinality(Counted) = 0 /\ Len(task_queue) = 0
  BY <1>1 DEF CountInv
<1>3. Counted = {} /\ task_queue = <<>>
  BY <1>1, <1>2, FS_EmptySet, EmptySeq DEF TypeOK
<1>4. Running = {}
  BY <1>3 DEF Running, Counted
<1> QED
  BY <1>3, <1>4, CompilingIs, EmptyElements

(* The head of the output queue is nowhere else. *)
LEMMA HeadIsAlone ==
  ASSUME JobsInv, output_queue # <<>>
  PROVE  /\ Elements(output_queue) =
              {Head(output_queue)} \cup Elements(Tail(output_queue))
         /\ Head(output_queue) \notin
              Compiling \cup Elements(Tail(output_queue)) \cup fresh
<1> USE DEF JobsInv
<1>1. /\ Elements(output_queue) =
           {Head(output_queue)} \cup Elements(Tail(output_queue))
      /\ Head(output_queue) \notin Elements(Tail(output_queue))
  BY PopElements DEF TypeOK, PlaceInv
<1>2. Head(output_queue) \notin Compiling
  BY <1>1, CompilingIs DEF PlaceInv
<1> QED
  BY <1>1, <1>2 DEF PlaceInv

(* The types, the counter and the places of the jobs are kept by every step. *)
LEMMA JobsStep == JobsInv /\ [Next]_vars => JobsInv'
<1> SUFFICES ASSUME JobsInv, [Next]_vars PROVE JobsInv'
  OBVIOUS
<1> USE DEF platformVars, queueVars, mainVars, threadVars, osrVars, MainPc
<1>0. osr_buffer \subseteq Osr /\ waiting \subseteq Osr /\ main \in MainPc
  BY DEF JobsInv, TypeOK
<1>1. ASSUME NEW j \in Task, FindReadyOSRCandidate(j) PROVE JobsInv'
  BY <1>0, <1>1, MainSteps DEF FindReadyOSRCandidate
<1>2. CASE InstallBegin \/ FlushBegin \/ StopBegin \/ StopWaitReturns
  BY <1>0, <1>2, MainSteps
  DEF InstallBegin, FlushBegin, StopBegin, StopWaitReturns
<1>3. CASE InstallOptimizedFunctions
  <2>1. waiting' \subseteq Osr
    BY <1>0, <1>3 DEF InstallOptimizedFunctions
  <2> QED
    BY <1>0, <1>3, <2>1, MainSteps DEF InstallOptimizedFunctions
<1>4. CASE Flush
  BY <1>0, <1>4, MainSteps DEF Flush
<1>5. CASE Stop
  BY <1>0, <1>5, MainSteps DEF Stop
<1>6. CASE DestroyPlatform
  BY <1>0, <1>6, MainSteps DEF DestroyPlatform, Terminate
<1>7. CASE UNCHANGED vars
  BY <1>0, <1>7, MainSteps DEF vars, jobVars
<1> QED
  BY <1>1, <1>2, <1>3, <1>4, <1>5, <1>6, <1>7, QueueSteps, WorkerSteps DEF Next

(* The initial state has no jobs. *)
LEMMA JobsInit == Init => JobsInv /\ ExistInv
<1> SUFFICES ASSUME Init PROVE JobsInv /\ ExistInv
  OBVIOUS
<1> USE DEF Init, PlatformInit
<1>1. Running = {} /\ Counted = {}
  BY DEF Running, Counted
<1>2. Compiling = {} /\ Elements(output_queue) = {}
  BY <1>1, CompilingIs, EmptyElements
<1>3. TypeOK
  BY <1>1, EmptyElements DEF TypeOK, WorkerPc, MainPc
<1>4. CountInv
  BY <1>1, EmptyElements, FS_EmptySet DEF CountInv
<1>5. PlaceInv
  BY <1>1, <1>2, EmptyElements DEF PlaceInv
<1>6. ExistInv
  BY <1>2 DEF ExistInv
<1> QED
  BY <1>3, <1>4, <1>5, <1>6 DEF JobsInv

(* The inductive invariant of the counter and the places of jobs. *)
LEMMA JobsInductive == Spec => []JobsInv
BY JobsInit, JobsStep, PTL DEF Spec

(* When Stop has left its loop, no task is queued or compiling, however many *)
(* workers there are and whatever their tasks have signalled before: the     *)
(* counter that it reads under the mutex is exact.                           *)
THEOREM StopJoins == Spec => []StopJoinsTasks
<1>1. JobsInv => StopJoinsTasks
  <2> SUFFICES ASSUME JobsInv, main \in {"stopped", "join"}
               PROVE  /\ task_queue = <<>>
                      /\ \A w \in Worker :
                           worker[w] \in {"get", "wait", "exit", "signal"}
    BY DEF StopJoinsTasks
  <2>1. task_queue = <<>> /\ Counted = {}
    BY NothingCounted DEF JobsInv, CountInv
  <2>2. \A w \in Worker : worker[w] \in WorkerPc
    BY DEF JobsInv, TypeOK
  <2> QED
    BY <2>1, <2>2 DEF Counted, WorkerPc
<1> QED
  BY <1>1, JobsInductive, PTL

-----------------------------------------------------------------------------
(* Announcement. *)

(* Code in output_queue_ is announced: InstallOptimizedFunctions and Flush   *)
(* leave the queue only when it is empty, and a worker that adds to it has   *)
(* its own announcement still to make.                                       *)
THEOREM CodeIsAnnounced == Spec => []ReadyCodeIsAnnounced
<1> USE DEF platformVars, queueVars, mainVars, threadVars, osrVars
<1>1. Init => ReadyCodeIsAnnounced
  BY DEF Init, ReadyCodeIsAnnounced
<1>2. ASSUME JobsInv, ReadyCodeIsAnnounced, [Next]_vars
      PROVE  ReadyCodeIsAnnounced'
  <2>0. worker \in [Worker -> WorkerPc]
    BY <1>2 DEF JobsInv, TypeOK
  <2>1. CASE \/ \E j \in Task : QueueForOptimization(j) \/ FindReadyOSRCandidate(j)
             \/ UNCHANGED vars
    <3>1. UNCHANGED <<output_queue, main, install_code, worker>>
      BY <2>1 DEF QueueForOptimization, CallOnBackgroundThread,
                  FindReadyOSRCandidate, vars, jobVars
    <3> QED
      BY <1>2, <3>1 DEF ReadyCodeIsAnnounced
  <2>2. CASE \/ InstallBegin \/ FlushBegin \/ StopBegin \/ Stop
             \/ StopWaitReturns \/ DestroyPlatform
    <3>1. main' # "idle"
      BY <2>2 DEF InstallBegin, FlushBegin, StopBegin, Stop, StopWaitReturns,
                  DestroyPlatform
    <3> QED
      BY <3>1 DEF ReadyCodeIsAnnounced
  <2>3. CASE InstallOptimizedFunctions \/ Flush
    <3>1. main' # "idle" \/ output_queue' = <<>>
      BY <2>3 DEF InstallOptimizedFunctions, Flush
    <3> QED
      BY <3>1 DEF ReadyCodeIsAnnounced
  <2>4. ASSUME NEW w \in Worker, WorkerStep(w) PROVE ReadyCodeIsAnnounced'
    <3>1. CASE TaskEnqueue(w)
      <4>1. worker'[w] = "announce"
        BY <2>0, <3>1 DEF TaskEnqueue, TaskStep
      <4> QED
        BY <4>1 DEF ReadyCodeIsAnnounced
    <3>2. CASE TaskAnnounce(w)
      BY <3>2 DEF TaskAnnounce, ReadyCodeIsAnnounced
    <3>3. CASE ~TaskEnqueue(w) /\ ~TaskAnnounce(w)
      <4>1. UNCHANGED <<output_queue, main, install_code>>
        BY <2>4, <3>3 DEF WorkerStep, jobVars, TaskDecrement, TaskSignal, TaskStep
      <4>2. ASSUME NEW v \in Worker, worker[v] = "announce"
            PROVE  worker'[v] = "announce"
        BY <2>0, <2>4, <3>3, <4>2 DEF WorkerStep, GetNext, WaitReturns,
           TaskDecrement, TaskSignal, TaskStep
      <4> QED
        BY <1>2, <4>1, <4>2 DEF ReadyCodeIsAnnounced
    <3> QED
      BY <3>1, <3>2, <3>3
  <2> QED
    BY <1>2, <2>1, <2>2, <2>3, <2>4 DEF Next
<1> QED
  BY <1>1, <1>2, JobsInductive, PTL DEF Spec

-----------------------------------------------------------------------------
(* Deleted jobs. *)

(* The main thread deletes or hands on jobs that nobody else has. *)
LEMMA ExistStep == JobsInv /\ ExistInv /\ [Next]_vars => ExistInv'
<1> SUFFICES ASSUME JobsInv, ExistInv, [Next]_vars,
                    ~osr_lost', main' \notin {"stopped", "join"}
             PROVE  ExistInv'
  BY DEF ExistInv
<1> USE DEF platformVars, queueVars, mainVars, threadVars, osrVars
<1> DEFINE P == Compiling \cup Elements(output_queue)
           clean == /\ P \cap (freed \cup waiting) = {}
                    /\ fresh \cap (freed \cup waiting \cup osr_buffer) = {}
                    /\ osr_buffer \cap freed = {}
<1>0. osr_buffer \subseteq Osr /\ waiting \subseteq Osr /\ fresh \cap P = {}
  BY DEF JobsInv, TypeOK, PlaceInv
<1>a. ASSUME clean,
             Compiling' \cup Elements(output_queue') \subseteq P,
             fresh' \subseteq fresh, UNCHANGED <<freed, waiting, osr_buffer>>
      PROVE  ExistInv'
  BY <1>a DEF ExistInv
<1>1. ASSUME NEW j \in Task, QueueForOptimization(j) PROVE ExistInv'
  <2>1. /\ main = "idle" /\ j \in fresh /\ fresh' = fresh \ {j}
        /\ osr_buffer' = osr_buffer \cup ({j} \cap Osr)
        /\ UNCHANGED <<freed, waiting, output_queue, osr_lost>>
    BY <1>1 DEF QueueForOptimization
  <2>2. Compiling' = Compiling \cup {j}
    BY <1>1, QueueSteps
  <2> QED
    BY <2>1, <2>2 DEF ExistInv
<1>2. ASSUME NEW j \in Task, FindReadyOSRCandidate(j) PROVE ExistInv'
  <2>1. /\ main = "idle" /\ j \in osr_buffer \cap waiting
        /\ osr_buffer' = osr_buffer \ {j} /\ waiting' = waiting \ {j}
        /\ freed' = freed \cup {j}
        /\ UNCHANGED <<fresh, output_queue, osr_lost>>
    BY <1>2 DEF FindReadyOSRCandidate
  <2>2. Compiling' = Compiling
    BY <1>2 DEF FindReadyOSRCandidate, Compiling
  <2> QED
    BY <2>1, <2>2 DEF ExistInv
<1>3. CASE \/ InstallBegin \/ FlushBegin \/ StopBegin \/ StopWaitReturns
           \/ (Stop /\ main' = "sleep") \/ UNCHANGED vars
  <2>1. UNCHANGED <<fresh, freed, waiting, osr_buffer, output_queue, osr_lost>>
    BY <1>3 DEF InstallBegin, FlushBegin, StopBegin, StopWaitReturns, Stop,
                vars, jobVars
  <2>2. main \notin {"stopped", "join"}
    BY <1>3 DEF InstallBegin, FlushBegin, StopBegin, StopWaitReturns, Stop,
                vars, jobVars
  <2>3. Compiling' = Compiling
    BY <1>3 DEF InstallBegin, FlushBegin, StopBegin, StopWaitReturns, Stop,
                vars, Compiling
  <2> QED
    BY <1>a, <2>1, <2>2, <2>3 DEF ExistInv
<1>4. CASE InstallOptimizedFunctions
  <2>1. Compiling' = Compiling
    BY <1>4 DEF InstallOptimizedFunctions, Compiling
  <2>2. clean /\ UNCHANGED <<fresh, osr_buffer, osr_lost>>
    BY <1>4 DEF InstallOptimizedFunctions, ExistInv
  <2>3. CASE output_queue = <<>>
    <3>1. UNCHANGED <<output_queue, waiting, freed>>
      BY <1>4, <2>3 DEF InstallOptimizedFunctions
    <3> QED
      BY <1>a, <2>1, <2>2, <3>1
  <2>4. CASE output_queue # <<>>
    <3> DEFINE h == Head(output_queue)
    <3>1. /\ output_queue' = Tail(output_queue)
          /\ waiting' = waiting \cup ({h} \cap Osr)
          /\ freed' = freed \cup ({h} \ Osr)
      BY <1>4, <2>4 DEF InstallOptimizedFunctions
    <3>2. /\ Elements(output_queue) = {h} \cup Elements(output_queue')
          /\ h \notin Compiling \cup Elements(output_queue') \cup fresh
      BY <2>4, <3>1, HeadIsAlone
    <3> HIDE DEF h
    <3> QED
      BY <1>0, <2>1, <2>2, <3>1, <3>2 DEF ExistInv
  <2> QED
    BY <2>3, <2>4
<1>5. CASE Flush
  <2>1. Compiling' = Compiling
    BY <1>5 DEF Flush, Compiling
  <2>2. clean /\ fresh' = fresh
    BY <1>5 DEF Flush, ExistInv
  <2>3. CASE output_queue = <<>>
    <3>1. /\ freed' = freed \cup osr_buffer
          /\ osr_buffer' = {} /\ waiting' = {} /\ output_queue' = <<>>
          /\ osr_buffer \cap Compiling = {}
      BY <1>5, <2>3 DEF Flush
    <3>2. Elements(output_queue') = {}
      BY <3>1, EmptyElements
    <3> QED
      BY <2>1, <2>2, <3>1, <3>2 DEF ExistInv
  <2>4. CASE output_queue # <<>>
    <3> DEFINE h == Head(output_queue)
    <3>1. /\ output_queue' = Tail(output_queue)
          /\ freed' = freed \cup ({h} \ Osr)
          /\ UNCHANGED <<osr_buffer, waiting>>
      BY <1>5, <2>4 DEF Flush
    <3>2. /\ Elements(output_queue) = {h} \cup Elements(output_queue')
          /\ h \notin Compiling \cup Elements(output_queue') \cup fresh
      BY <2>4, <3>1, HeadIsAlone
    <3> HIDE DEF h
    <3> QED
      BY <1>0, <2>1, <2>2, <3>1, <3>2 DEF ExistInv
  <2> QED
    BY <2>3, <2>4
<1>6. ASSUME NEW w \in Worker, WorkerStep(w) PROVE ExistInv'
  <2>1. /\ Compiling' \cup Elements(output_queue)' = P
        /\ UNCHANGED <<main, fresh, freed, osr_buffer, waiting, osr_lost>>
    BY <1>6, WorkerSteps
  <2> QED
    BY <1>a, <2>1 DEF ExistInv
<1>7. ~DestroyPlatform /\ (Stop => main' = "sleep")
  BY DEF DestroyPlatform, Stop
<1> QED
  BY <1>1, <1>2, <1>3, <1>4, <1>5, <1>6, <1>7 DEF Next

(* Unless Flush took an OSR job away from its task, no task and no queue     *)
(* refers to a deleted job, although jobs are deleted by the install loop,   *)
(* by the back edge, by Flush and by Stop.                                   *)
THEOREM JobsExist == Spec => []QueuedJobsExist
<1>1. JobsInv /\ ExistInv => QueuedJobsExist
  <2> SUFFICES ASSUME JobsInv, ExistInv, ~osr_lost PROVE QueuedJobsExist
    BY DEF QueuedJobsExist
  <2>1. CASE main \in {"stopped", "join"}
    <3>1. Compiling = {}
      BY <2>1, NothingCounted DEF JobsInv, CountInv
    <3> QED
      BY <2>1, <3>1 DEF QueuedJobsExist
  <2>2. CASE main \notin {"stopped", "join"}
    BY <2>2 DEF ExistInv, QueuedJobsExist
  <2> QED
    BY <2>1, <2>2
<1> QED
  BY <1>1, JobsInit, ExistStep, JobsInductive, PTL DEF Spec
=============================================================================
