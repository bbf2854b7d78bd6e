------------------------ MODULE RecompilationQueues ------------------------
(***************************************************************************)
(* The way of a job through both queues of OptimizingCompilerThread: the   *)
(* main thread puts it into the circular input queue, the compiler thread  *)
(* takes it out, compiles it and enqueues it in the lock-free output       *)
(* queue, where the main thread finds it again.  The steps of the two      *)
(* threads inside the output queue interleave with everything else.        *)
(***************************************************************************)
EXTENDS InputQueue, UnboundQueue, FiniteSets

ASSUME RecordAssumption == Record = Job /\ NoRecord = NoJob

VARIABLES compiling,  \* the compiler thread holds job
          pending     \* history: jobs queued and not yet dequeued again

queuesVars == <<vars, unboundVars, compiling, pending>>

QueuesInit == Init /\ UnboundQueueInit /\ compiling = FALSE /\ pending = {}

(* QueueForOptimization, on the main thread when it is not inside Dequeue.   *)
QueueForOptimization(j) ==
  /\ cpc = "idle" /\ j \notin pending
  /\ QueueFront(j) \/ QueueBack(j)
  /\ pending' = pending \cup {j}
  /\ UNCHANGED <<unboundVars, compiling>>

(* CompileNext: the job is taken out of the input queue ...                  *)
CompileNext ==
  /\ ~compiling /\ ppc = "idle"
  /\ NextInput
  /\ compiling' = TRUE
  /\ UNCHANGED <<unboundVars, pending>>

(* Mutation: the job that is enqueued is read from the queue again. *)
EnqueueFrontAgain ==
  /\ compiling
  /\ \E j \in Job : /\ j = (IF input_queue_length = 0 THEN job
                            ELSE input_queue[InputQueueIndex(0)])
                    /\ EnqueueLink(j)
  /\ compiling' = FALSE
  /\ UNCHANGED <<vars, pending>>

(* ... and enqueued in the output queue once it is compiled.                 *)
EnqueueOutput ==
  /\ compiling
  /\ EnqueueLink(job)
  /\ compiling' = FALSE
  /\ UNCHANGED <<vars, pending>>

EnqueueGoesOn ==
  /\ EnqueuePublish \/ Reclaim
  /\ UNCHANGED <<vars, compiling, pending>>

(* Dequeue, called by InstallOptimizedFunctions and FlushOutputQueue.        *)
Dequeue ==
  /\ \/ (DequeueTest \/ DequeueRead) /\ UNCHANGED pending
     \/ DequeueMove /\ pending' = pending \ {rec}
  /\ UNCHANGED <<vars, compiling>>

CompilerThread == CompileNext \/ EnqueueOutput \/ EnqueueGoesOn
QueuesNext == (\E j \in Job : QueueForOptimization(j)) \/ CompilerThread \/ Dequeue

(* The compiler thread is never blocked while it has work; the main thread   *)
(* comes back to its interrupts.                                             *)
QueuesSpec ==
  /\ QueuesInit /\ [][QueuesNext]_queuesVars
  /\ WF_queuesVars(CompilerThread) /\ WF_queuesVars(Dequeue)

-----------------------------------------------------------------------------
(* A job that was queued and has not come back is in exactly one place: a    *)
(* slot of the input queue, the compiler thread, a node it is about to       *)
(* publish, or the output list.  None is lost or compiled twice.             *)
EachJobInOnePlace ==
  \A j \in Job :
    Cardinality({i \in 0 .. input_queue_length - 1 :
                   input_queue[InputQueueIndex(i)] = j})
    + (IF compiling /\ job = j THEN 1 ELSE 0)
    + (IF ppc = "publish" /\ value[node] = j THEN 1 ELSE 0)
    + Cardinality({i \in 1 .. Len(sent) : sent[i] = j})
      = IF j \in pending THEN 1 ELSE 0

(* A job the compiler thread has taken reaches the main thread again,        *)
(* however the two threads interleave in the output queue.  (A job in the    *)
(* input queue may be overtaken by OSR jobs for ever.)                       *)
Delivered == \A j \in Job : compiling /\ job = j ~> j \notin pending
=============================================================================
