------------------------ MODULE JobBasedRecompilation ------------------------
(***************************************************************************)
(* Concurrent recompilation with --job-based-recompilation: there is no    *)
(* compiler thread; each job is a CompileTask for the worker pool of the   *)
(* platform.  Several workers compile at once, input_queue_length_ counts  *)
(* the tasks that are not done, input_queue_semaphore_ tells Stop that one *)
(* is.  Followed to the end of the process: the isolate stops and deletes  *)
(* the OptimizingCompilerThread, then the platform is destroyed.           *)
(***************************************************************************)
EXTENDS DefaultPlatform

CONSTANTS Osr,        \* the jobs that are for on-stack replacement
          Capacity    \* input_queue_capacity_

ASSUME JobBasedAssumption == Osr \subseteq Task /\ Capacity \in Nat \ {0}

VARIABLES
  main,                   \* "idle" | "install" | "flush" | "stop" | "sleep" |
                          \* "stopped" | "join"
  fresh,                  \* jobs not yet made
  freed,                  \* jobs whose CompilationInfo is deleted
  input_queue_length, input_queue_semaphore,
  output_queue,           \* output_queue_
  osr_buffer,             \* the jobs in osr_buffer_
  waiting,                \* OSR jobs with IsWaitingForInstall()
  install_code,           \* the INSTALL_CODE interrupt is requested
  osr_lost                \* history: Flush disposed of a job a task still has

mainVars == <<main, fresh>>
threadVars == <<input_queue_length, input_queue_semaphore, output_queue,
                install_code>>
osrVars == <<osr_buffer, waiting>>
jobVars == <<mainVars, freed, threadVars, osrVars, osr_lost>>
vars == <<platformVars, jobVars>>

Elements(q) == {q[i] : i \in DOMAIN q}

(* The jobs of tasks that are queued or not past the output queue.           *)
Compiling ==
  Elements(task_queue) \cup {task[w] : w \in {w \in Worker : worker[w] = "run"}}

Init ==
  /\ PlatformInit
  /\ main = "idle" /\ fresh = Task /\ freed = {}
  /\ input_queue_length = 0 /\ input_queue_semaphore = 0
  /\ output_queue = <<>> /\ osr_buffer = {} /\ waiting = {}
  /\ install_code = FALSE
  /\ osr_lost = FALSE

-----------------------------------------------------------------------------
(* The main thread.                                                          *)

(* QueueForOptimization, behind IsQueueAvailable.  An OSR job goes into the  *)
(* OSR buffer first; eviction from a full buffer is OptimizingCompilerThread.*)
QueueForOptimization(j) ==
  /\ main = "idle" /\ j \in fresh
  /\ input_queue_length < Capacity
  /\ fresh' = fresh \ {j}
  /\ osr_buffer' = osr_buffer \cup ({j} \cap Osr)
  /\ input_queue_length' = input_queue_length + 1
  /\ CallOnBackgroundThread(j)
  /\ UNCHANGED <<main, freed, input_queue_semaphore, output_queue, waiting,
                 install_code, osr_lost>>

(* HandleInterrupts takes the request and calls InstallOptimizedFunctions.   *)
InstallBegin ==
  /\ main = "idle" /\ install_code
  /\ install_code' = FALSE
  /\ main' = "install"
  /\ UNCHANGED <<platformVars, fresh, freed, input_queue_length,
                 input_queue_semaphore, output_queue, osrVars,
                 osr_lost>>

(* Mutation: an OSR job is deleted like any other. *)
InstallDeletesOsr ==
  /\ main = "install"
  /\ \/ /\ output_queue # <<>>
        /\ output_queue' = Tail(output_queue)
        /\ freed' = freed \cup {Head(output_queue)}
        /\ UNCHANGED main
     \/ /\ output_queue = <<>>
        /\ main' = "idle"
        /\ UNCHANGED <<output_queue, freed>>
  /\ UNCHANGED <<platformVars, fresh, input_queue_length,
                 input_queue_semaphore, osrVars, install_code, osr_lost>>

(* One turn of its loop: an OSR job waits in the buffer, another is          *)
(* installed and deleted.                                                    *)
InstallOptimizedFunctions ==
  /\ main = "install"
  /\ \/ /\ output_queue # <<>>
        /\ output_queue' = Tail(output_queue)
        /\ waiting' = waiting \cup ({Head(output_queue)} \cap Osr)
        /\ freed' = freed \cup ({Head(output_queue)} \ Osr)
        /\ UNCHANGED main
     \/ /\ output_queue = <<>>
        /\ main' = "idle"
        /\ UNCHANGED <<output_queue, waiting, freed>>
  /\ UNCHANGED <<platformVars, fresh, input_queue_length,
                 input_queue_semaphore, osr_buffer, install_code, osr_lost>>

(* The back edge takes a job that is ready out of the buffer.                *)
FindReadyOSRCandidate(j) ==
  /\ main = "idle" /\ j \in osr_buffer \cap waiting
  /\ osr_buffer' = osr_buffer \ {j}
  /\ waiting' = waiting \ {j}
  /\ freed' = freed \cup {j}
  /\ UNCHANGED <<platformVars, mainVars, threadVars, osr_lost>>

(* Flush tells nobody to stop in this mode: it goes straight to the queues.  *)
FlushBegin ==
  /\ main = "idle"
  /\ main' = "flush"
  /\ UNCHANGED <<platformVars, fresh, freed, threadVars, osrVars, osr_lost>>

(* FlushOutputQueue, then FlushOsrBuffer on all of the OSR buffer.           *)
Flush ==
  /\ main = "flush"
  /\ \/ /\ output_queue # <<>>
        /\ output_queue' = Tail(output_queue)
        /\ freed' = freed \cup ({Head(output_queue)} \ Osr)
        /\ UNCHANGED <<main, osrVars, osr_lost>>
     \/ /\ output_queue = <<>>
        /\ freed' = freed \cup osr_buffer
        /\ osr_buffer' = {} /\ waiting' = {}
        /\ osr_lost' = (osr_lost \/ osr_buffer \cap Compiling # {})
        /\ main' = "idle"
        /\ UNCHANGED <<output_queue>>
  /\ UNCHANGED <<platformVars, fresh, input_queue_length,
                 input_queue_semaphore, install_code>>

StopBegin ==
  /\ main = "idle"
  /\ main' = "stop"
  /\ UNCHANGED <<platformVars, fresh, freed, threadVars, osrVars, osr_lost>>

(* Mutation: Stop waits only once. *)
StopOnce ==
  /\ main = "stop"
  /\ \/ /\ input_queue_length = 0 \/ input_queue_semaphore > 0
        /\ main' = "stopped"
        /\ freed' = freed \cup osr_buffer
        /\ osr_buffer' = {} /\ waiting' = {}
     \/ /\ input_queue_length # 0 /\ input_queue_semaphore = 0
        /\ main' = "sleep"
        /\ UNCHANGED <<freed, osrVars>>
  /\ UNCHANGED <<platformVars, fresh, threadVars, osr_lost>>

(* The loop of Stop: with no task left it goes on to FlushOsrBuffer, and     *)
(* the isolate deletes the OptimizingCompilerThread; else it sleeps.         *)
Stop ==
  /\ main = "stop"
  /\ \/ /\ input_queue_length = 0
        /\ main' = "stopped"
        /\ freed' = freed \cup osr_buffer
        /\ osr_buffer' = {} /\ waiting' = {}
     \/ /\ input_queue_length # 0
        /\ main' = "sleep"
        /\ UNCHANGED <<freed, osrVars>>
  /\ UNCHANGED <<platformVars, fresh, threadVars, osr_lost>>

StopWaitReturns ==
  /\ main = "sleep" /\ input_queue_semaphore > 0
  /\ input_queue_semaphore' = input_queue_semaphore - 1
  /\ main' = "stop"
  /\ UNCHANGED <<platformVars, fresh, freed, input_queue_length, output_queue,
                 install_code, osrVars, osr_lost>>

(* ~DefaultPlatform, after the isolate is gone.                              *)
DestroyPlatform ==
  /\ main = "stopped"
  /\ Terminate
  /\ main' = "join"
  /\ UNCHANGED <<fresh, freed, threadVars, osrVars, osr_lost>>

-----------------------------------------------------------------------------
(* CompileTask::Run on worker w, one step per access another thread sees.    *)

TaskStep(w, from, to) ==
  /\ worker[w] = from
  /\ worker' = [worker EXCEPT ![w] = to]
  /\ UNCHANGED <<queueVars, mainVars, freed, osrVars, osr_lost>>

(* Mutation: the task is counted off before the main thread hears of it. *)
TaskEnqueueCounted(w) ==
  /\ TaskStep(w, "run", "signal")
  /\ output_queue' = Append(output_queue, task[w])
  /\ input_queue_length' = input_queue_length - 1
  /\ UNCHANGED <<task, input_queue_semaphore, install_code>>

(* OptimizeGraph is done; output_queue_.Enqueue under its mutex.             *)
TaskEnqueue(w) ==
  /\ TaskStep(w, "run", "announce")
  /\ output_queue' = Append(output_queue, task[w])
  /\ UNCHANGED <<task, input_queue_length, input_queue_semaphore, install_code>>

(* stack_guard()->RequestInstallCode()                                       *)
TaskAnnounce(w) ==
  /\ TaskStep(w, "announce", "decrement")
  /\ install_code' = TRUE
  /\ UNCHANGED <<task, input_queue_length, input_queue_semaphore, output_queue>>

(* input_queue_length_-- under its mutex.                                    *)
TaskDecrement(w) ==
  /\ TaskStep(w, "decrement", "signal")
  /\ input_queue_length' = input_queue_length - 1
  /\ UNCHANGED <<task, input_queue_semaphore, output_queue, install_code>>

(* Mutation: nobody is told that a task is done. *)
TaskEnd(w) ==
  /\ TaskStep(w, "signal", "get")
  /\ task' = [task EXCEPT ![w] = NoTask]
  /\ UNCHANGED threadVars

(* input_queue_semaphore_.Signal(); the worker deletes the task.             *)
TaskSignal(w) ==
  /\ TaskStep(w, "signal", "get")
  /\ input_queue_semaphore' = input_queue_semaphore + 1
  /\ task' = [task EXCEPT ![w] = NoTask]
  /\ UNCHANGED <<input_queue_length, output_queue, install_code>>

WorkerStep(w) ==
  \/ (GetNext(w) \/ WaitReturns(w)) /\ UNCHANGED jobVars
  \/ TaskEnqueue(w) \/ TaskAnnounce(w) \/ TaskDecrement(w) \/ TaskSignal(w)

Next ==
  \/ \E j \in Task : QueueForOptimization(j) \/ FindReadyOSRCandidate(j)
  \/ InstallBegin \/ InstallOptimizedFunctions
  \/ FlushBegin \/ Flush
  \/ StopBegin \/ Stop \/ StopWaitReturns \/ DestroyPlatform
  \/ \E w \in Worker : WorkerStep(w)

Spec == Init /\ [][Next]_vars

(* Every worker is scheduled, a compilation ends, and the main thread goes   *)
(* on with a call it has begun.  Nothing makes it begin one.                 *)
Fairness ==
  /\ \A w \in Worker : WF_vars(WorkerStep(w))
  /\ WF_vars(InstallOptimizedFunctions) /\ WF_vars(Flush)
  /\ WF_vars(Stop) /\ WF_vars(StopWaitReturns)

FairSpec == Spec /\ Fairness

-----------------------------------------------------------------------------
(* Properties.                                                               *)

(* When Stop has left its loop, no task is queued or compiling: the mutex    *)
(* and the counter join the tasks (a task may still be about to signal).     *)
StopJoinsTasks ==
  main \in {"stopped", "join"} =>
    /\ task_queue = <<>>
    /\ \A w \in Worker : worker[w] \in {"get", "wait", "exit", "signal"}

(* Code in output_queue_ has an interrupt requested, or about to be, or the  *)
(* main thread is at the queue: it is not forgotten between a clear of the   *)
(* request by one thread and an Enqueue by another.                          *)
ReadyCodeIsAnnounced ==
  output_queue # <<>> /\ main = "idle" =>
    install_code \/ \E w \in Worker : worker[w] = "announce"

(* Unless Flush took an OSR job away from its task, no task and no queue     *)
(* refers to a job that is deleted (Stop deletes the queues themselves).     *)
QueuedJobsExist ==
  \/ osr_lost
  \/ /\ Compiling \cap freed = {}
     /\ \/ main \in {"stopped", "join"}
        \/ (Elements(output_queue) \cup osr_buffer) \cap freed = {}

(* Stop returns: each wake-up it waits for is sent after a decrement it can  *)
(* see, whatever tokens earlier tasks left in the semaphore.                 *)
StopReturns == main = "stop" ~> main = "stopped"

(* Every task given to the platform is run to its end, and once the platform *)
(* is destroyed every worker leaves, so that its destructor returns.         *)
TasksRunAndWorkersLeave ==
  /\ \A t \in Task : t \in Elements(task_queue) ~> \E w \in Worker : task[w] = t
  /\ main = "join" ~> \A w \in Worker : worker[w] = "exit"
============================================================================
