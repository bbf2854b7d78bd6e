--------------------------- MODULE DefaultPlatform ---------------------------
(***************************************************************************)
(* The task queue of the default platform and its pool of worker threads.  *)
(* A worker looks at the queue under lock_ and waits on a semaphore when   *)
(* it is empty; Append signals once for every task, Terminate once, and a  *)
(* worker that leaves passes that signal on.  What a task does is the      *)
(* business of the module that extends this one.                           *)
(***************************************************************************)
EXTENDS Naturals, Sequences, FiniteSets

CONSTANTS Task,       \* tasks, each appended at most once
          Worker,     \* thread_pool_
          NoTask

ASSUME PlatformAssumption == IsFiniteSet(Worker) /\ NoTask \notin Task

VARIABLES
  task_queue,                 \* task_queue_
  process_queue_semaphore,    \* its count
  terminated,                 \* terminated_
  worker,                     \* worker -> "get" | "wait" | "exit" | a step of
                              \* the task it runs
  task                        \* worker -> the task it runs

queueVars == <<task_queue, process_queue_semaphore, terminated>>
platformVars == <<queueVars, worker, task>>

PlatformInit ==
  /\ task_queue = <<>> /\ process_queue_semaphore = 0
  /\ terminated = FALSE
  /\ worker = [w \in Worker |-> "get"]
  /\ task = [w \in Worker |-> NoTask]

(* TaskQueue::Append.                                                      *)
CallOnBackgroundThread(t) ==
  /\ ~terminated
  /\ task_queue' = Append(task_queue, t)
  /\ process_queue_semaphore' = process_queue_semaphore + 1
  /\ UNCHANGED <<terminated, worker, task>>

(* Mutation: a leaving worker does not pass the signal on. *)
GetNextSilent(w) ==
  /\ worker[w] = "get"
  /\ \/ /\ task_queue # <<>>
        /\ task' = [task EXCEPT ![w] = Head(task_queue)]
        /\ task_queue' = Tail(task_queue)
        /\ worker' = [worker EXCEPT ![w] = "run"]
     \/ /\ task_queue = <<>>
        /\ worker' = [worker EXCEPT ![w] = IF terminated THEN "exit" ELSE "wait"]
        /\ UNCHANGED <<task_queue, task>>
  /\ UNCHANGED <<process_queue_semaphore, terminated>>

(* TaskQueue::GetNext up to Wait: the front task, or the end, or a wait.     *)
GetNext(w) ==
  /\ worker[w] = "get"
  /\ \/ /\ task_queue # <<>>
        /\ task' = [task EXCEPT ![w] = Head(task_queue)]
        /\ task_queue' = Tail(task_queue)
        /\ worker' = [worker EXCEPT ![w] = "run"]
        /\ UNCHANGED process_queue_semaphore
     \/ /\ task_queue = <<>> /\ terminated
        /\ process_queue_semaphore' = process_queue_semaphore + 1
        /\ worker' = [worker EXCEPT ![w] = "exit"]
        /\ UNCHANGED <<task_queue, task>>
     \/ /\ task_queue = <<>> /\ ~terminated
        /\ worker' = [worker EXCEPT ![w] = "wait"]
        /\ UNCHANGED <<task_queue, process_queue_semaphore, task>>
  /\ UNCHANGED terminated

(* process_queue_semaphore_.Wait() returns; the queue is looked at again.    *)
WaitReturns(w) ==
  /\ worker[w] = "wait" /\ process_queue_semaphore > 0
  /\ process_queue_semaphore' = process_queue_semaphore - 1
  /\ worker' = [worker EXCEPT ![w] = "get"]
  /\ UNCHANGED <<task_queue, terminated, task>>

(* ~DefaultPlatform: Terminate, before the workers are joined.               *)
Terminate ==
  /\ ~terminated
  /\ terminated' = TRUE
  /\ process_queue_semaphore' = process_queue_semaphore + 1
  /\ UNCHANGED <<task_queue, worker, task>>
============================================================================
