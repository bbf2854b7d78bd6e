---------------------- MODULE OptimizingCompilerThread ----------------------
(***************************************************************************)
(* Concurrent recompilation: the main (JavaScript) thread hands            *)
(* OptimizedCompileJobs to the optimizing compiler thread and installs     *)
(* what comes back.  One component of the model is the class               *)
(* OptimizingCompilerThread itself (input queue, output queue, cyclic OSR  *)
(* buffer, stop flag, the two semaphores); the other is the code on the    *)
(* main thread that drives it: the tier-up profiler, the two runtime       *)
(* functions that submit jobs, the interrupt handler that installs them,   *)
(* and the GC, context disposal, debugger and teardown calls of            *)
(* AgeBufferedOsrJobs, Flush and Stop.                                     *)
(*                                                                         *)
(* The input queue is a sequence here; InputQueue shows that the circular  *)
(* array of the code implements it.  The output queue is a sequence too;   *)
(* UnboundQueue shows that for the lock-free list of the code.             *)
(***************************************************************************)
EXTENDS Integers, Sequences, FiniteSets

CONSTANTS
  Job,              \* addresses a CompilationInfo (and its job) can live at
  Function,         \* JSFunctions (closures)
  Shared,           \* SharedFunctionInfos, each with one unoptimized Code
  SharedOf,         \* Function -> Shared
  Loop,             \* back edges (osr_ast_ids) of the unoptimized codes
  LoopOf,           \* Loop -> Shared
  LoopDepth,        \* Loop -> 1..MaxNesting
  Large,            \* those with ast_node_count > 512: concurrent OSR
  NoJob, NoFunction, NoLoop,
  Capacity,         \* input_queue_capacity_
  OsrSlack,         \* osr_buffer_capacity_ - input_queue_capacity_ (4)
  MaxNesting,       \* Code::kMaxLoopNestingMarker
  Block,            \* FLAG_block_concurrent_recompilation
  Delay,            \* FLAG_concurrent_recompilation_delay # 0
  ApiCallbacks      \* an interrupt may call back into JavaScript

ASSUME JobAssumption == NoJob \notin Job
ASSUME FunctionAssumption == /\ NoFunction \notin Function
                             /\ SharedOf \in [Function -> Shared]
                             /\ Large \subseteq Shared
ASSUME LoopAssumption == /\ NoLoop \notin Loop
                         /\ LoopOf \in [Loop -> Shared]
                         /\ MaxNesting \in Nat
                         /\ LoopDepth \in [Loop -> 1..MaxNesting]
ASSUME CapacityAssumption == Capacity \in Nat \ {0} /\ OsrSlack \in Nat
ASSUME FlagAssumption == /\ Block \in BOOLEAN
                         /\ Delay \in BOOLEAN
                         /\ ApiCallbacks \in BOOLEAN

OsrCapacity == Capacity + OsrSlack
Slot == 0 .. OsrCapacity - 1

VARIABLES
  stop,        \* stop_thread_
  sem,         \* input_queue_semaphore_
  stopSem,     \* stop_semaphore_
  blocked,     \* blocked_jobs_
  inputQ,      \* input_queue_
  outputQ,     \* output_queue_
  osrBuf,      \* osr_buffer_
  cursor,      \* osr_buffer_cursor_
  info,        \* the CompilationInfo at each address; Freed when deleted
  code,        \* JSFunction::code() of each function
  edge,        \* BackEdgeState of each loop
  level,       \* allow_osr_at_loop_nesting_level of each unoptimized code
  installReq,  \* the INSTALL_CODE bit of the stack guard
  tpc, tjob,   \* compiler thread: where it is, the job it holds
  mpc, mjob,   \* main thread: where it is, the job it holds
  req,         \* the function and loop the main thread is working on
  iret,        \* where InstallOptimizedFunctions returns to
  fret,        \* where Flush returns to
  suspended    \* OSR request whose interrupt handler is running JavaScript

queueVars == <<stop, sem, stopSem, blocked, inputQ, outputQ>>
osrVars == <<osrBuf, cursor>>
edgeVars == <<edge, level>>
threadVars == <<tpc, tjob>>
mainVars == <<mpc, mjob, req, iret, fret, suspended>>
vars == <<queueVars, osrVars, info, code, edgeVars, installReq, threadVars,
          mainVars>>

-----------------------------------------------------------------------------
(* Jobs. *)

Freed == [closure |-> NoFunction, osr |-> NoLoop, waiting |-> FALSE]
Info == [closure: Function, osr: Loop \cup {NoLoop}, waiting: BOOLEAN]

Live == {j \in Job : info[j].closure # NoFunction}
IsOsr(j) == info[j].osr # NoLoop
Waiting(j) == info[j].waiting

Request == [fn: Function \cup {NoFunction}, loop: Loop \cup {NoLoop}]
NoRequest == [fn |-> NoFunction, loop |-> NoLoop]

Elements(q) == {q[i] : i \in 1..Len(q)}

(* Mutation: OSR jobs are left to somebody else. *)
DeleteRegular(S) ==
  info' = [j \in Job |-> IF j \in S /\ ~IsOsr(j) THEN Freed ELSE info[j]]

(* delete info, for every job of S. *)
Delete(S) == info' = [j \in Job |-> IF j \in S THEN Freed ELSE info[j]]

(* JSFunction::ReplaceCode for every function of F. *)
ReplaceCode(F, c) == code' = [f \in Function |-> IF f \in F THEN c ELSE code[f]]

-----------------------------------------------------------------------------
(* The back edge table of an unoptimized code. *)

Patch(s) ==
  /\ level[s] + 1 <= MaxNesting
  /\ edge' = [l \in Loop |->
                IF LoopOf[l] = s /\ LoopDepth[l] = level[s] + 1
                THEN "osr" ELSE edge[l]]
  /\ level' = [level EXCEPT ![s] = @ + 1]

(* Mutation: the nesting level is not reset. *)
RevertKeepingLevel(s) ==
  /\ edge' = [l \in Loop |->
                IF LoopOf[l] = s /\ LoopDepth[l] <= level[s]
                THEN "interrupt" ELSE edge[l]]
  /\ UNCHANGED level

Revert(s) ==
  /\ edge' = [l \in Loop |->
                IF LoopOf[l] = s /\ LoopDepth[l] <= level[s]
                THEN "interrupt" ELSE edge[l]]
  /\ level' = [level EXCEPT ![s] = 0]

(* Revert after AddStackCheck(l): the check added at l is undone only when   *)
(* l is one of the edges the table counts as patched.                        *)
AddStackCheckAndRevert(s, l) ==
  /\ edge' = [k \in Loop |->
                IF LoopOf[k] = s /\ LoopDepth[k] <= level[s]
                THEN "interrupt"
                ELSE IF k = l THEN "gated" ELSE edge[k]]
  /\ level' = [level EXCEPT ![s] = 0]

AddStackCheck(l) ==
  /\ edge' = [edge EXCEPT ![l] = "gated"]
  /\ UNCHANGED level

(* Mutation: the stack check stays. *)
KeepStackChecks(L) == UNCHANGED <<edge, level>>

RemoveStackChecks(L) ==
  /\ edge' = [l \in Loop |->
                IF l \in L /\ edge[l] = "gated" THEN "osr" ELSE edge[l]]
  /\ UNCHANGED level

-----------------------------------------------------------------------------
(* The OSR buffer. *)

SameOsrEntry(j, f, l) ==
  /\ j # NoJob
  /\ info[j].closure = f
  /\ info[j].osr = l

(* The first slot, in index order, whose job satisfies P. *)
IsFirst(i, P(_)) == P(i) /\ \A k \in Slot : k < i => ~P(k)

(* Mutation: jobs still being compiled are not seen. *)
IsNeverQueued(f, l) == FALSE

(* IsQueuedForOSR(function, osr_ast_id) *)
IsQueuedForOsrEntry(f, l) ==
  \E i \in Slot :
    /\ IsFirst(i, LAMBDA k : SameOsrEntry(osrBuf[k], f, l))
    /\ ~Waiting(osrBuf[i])

(* IsQueuedForOSR(function) *)
IsQueuedForOsr(f) ==
  \E i \in Slot :
    /\ IsFirst(i, LAMBDA k : osrBuf[k] # NoJob /\ info[osrBuf[k]].closure = f)
    /\ ~Waiting(osrBuf[i])

(* The slot FindReadyOSRCandidate empties. *)
IsReadyCandidate(i, f, l) ==
  IsFirst(i, LAMBDA k : SameOsrEntry(osrBuf[k], f, l) /\ Waiting(osrBuf[k]))

(* Mutation: jobs are evicted whether or not they are ready. *)
AlwaysReusable(i) == TRUE

(* A slot AddToOsrBuffer may reuse, and the one its search stops at. *)
Reusable(i) == osrBuf[i] # NoJob => Waiting(osrBuf[i])
IsFound(i) ==
  \E d \in Slot :
    /\ i = (cursor + d) % OsrCapacity
    /\ Reusable(i)
    /\ \A e \in Slot : e < d => ~Reusable((cursor + e) % OsrCapacity)

-----------------------------------------------------------------------------
(* The main thread submits jobs. *)

(* RuntimeProfiler::Optimize *)
Optimize(f) ==
  /\ mpc \in {"run", "osr"}
  /\ code[f] = "full"
  /\ ~IsQueuedForOsr(f)
  /\ ReplaceCode({f}, "marked")
  /\ UNCHANGED <<queueVars, osrVars, info, edgeVars, installReq, threadVars,
                 mainVars>>

(* RuntimeProfiler::AttemptOnStackReplacement *)
AttemptOnStackReplacement(f) ==
  /\ mpc \in {"run", "osr"}
  /\ code[f] \in {"marked", "optimized"}
  /\ Patch(SharedOf[f])
  /\ UNCHANGED <<queueVars, osrVars, info, code, installReq, threadVars,
                 mainVars>>

(* Mutation: IsQueueAvailable is not asked. *)
CompileOptimizedUnchecked(f) ==
  /\ mpc = "run"
  /\ code[f] = "marked"
  /\ mpc' = "create"
  /\ req' = [fn |-> f, loop |-> NoLoop]
  /\ UNCHANGED <<queueVars, osrVars, info, code, edgeVars, installReq,
                 threadVars, mjob, iret, fret, suspended>>

(* Runtime_CompileOptimized(f, concurrent), up to GetOptimizedCodeLater's    *)
(* CreateGraph.  It ends here when optimization is disabled or the queue is  *)
(* full (the code from the full compiler) or the optimized code map has the  *)
(* code already.                                                             *)
CompileOptimized(f) ==
  /\ mpc = "run"
  /\ code[f] = "marked"
  /\ \/ /\ \E c \in {"full", "optimized"} : ReplaceCode({f}, c)
        /\ UNCHANGED <<mpc, req>>
     \/ /\ Len(inputQ) < Capacity
        /\ mpc' = "create"
        /\ req' = [fn |-> f, loop |-> NoLoop]
        /\ UNCHANGED code
  /\ UNCHANGED <<queueVars, osrVars, info, edgeVars, installReq, threadVars,
                 mjob, iret, fret, suspended>>

(* The end of Runtime_CompileForOnStackReplacement without a queued job: the *)
(* table is reverted and the function gets the OSR code, or, when there is   *)
(* none, the full code unless it is optimized.                               *)
OsrReturn(f) ==
  \/ ReplaceCode({f}, "optimized")
  \/ IF code[f] = "optimized" THEN UNCHANGED code ELSE ReplaceCode({f}, "full")

(* Runtime_CompileForOnStackReplacement.                                     *)
CompileForOnStackReplacement(f, l) ==
  /\ \/ \* NOT_CONCURRENT: compiles, or fails to, on this thread
        /\ SharedOf[f] \notin Large
        /\ Revert(SharedOf[f])
        /\ OsrReturn(f)
        /\ mpc' = "run"
        /\ req' = NoRequest
        /\ UNCHANGED <<osrBuf, mjob>>
     \/ \* still waiting for queued
        /\ SharedOf[f] \in Large
        /\ IsQueuedForOsrEntry(f, l)
        /\ AddStackCheck(l)
        /\ mpc' = "run"
        /\ req' = NoRequest
        /\ UNCHANGED <<osrBuf, code, mjob>>
     \/ \* found ready: to GetConcurrentlyOptimizedCode
        /\ SharedOf[f] \in Large
        /\ ~IsQueuedForOsrEntry(f, l)
        /\ AddStackCheck(l)
        /\ \E i \in Slot :
             /\ IsReadyCandidate(i, f, l)
             /\ mjob' = osrBuf[i]
             /\ osrBuf' = [osrBuf EXCEPT ![i] = NoJob]
        /\ mpc' = "finish"
        /\ req' = [fn |-> f, loop |-> l]
        /\ UNCHANGED code
     \/ \* no job: not suitable, queue full, or code in the code map
        /\ SharedOf[f] \in Large
        /\ ~IsQueuedForOsrEntry(f, l)
        /\ ~\E i \in Slot : IsReadyCandidate(i, f, l)
        /\ AddStackCheckAndRevert(SharedOf[f], l)
        /\ OsrReturn(f)
        /\ mpc' = "run"
        /\ req' = NoRequest
        /\ UNCHANGED <<osrBuf, mjob>>
     \/ \* no job: to CreateGraph
        /\ SharedOf[f] \in Large
        /\ ~IsQueuedForOsrEntry(f, l)
        /\ ~\E i \in Slot : IsReadyCandidate(i, f, l)
        /\ Len(inputQ) < Capacity
        /\ AddStackCheck(l)
        /\ mpc' = "create"
        /\ req' = [fn |-> f, loop |-> l]
        /\ UNCHANGED <<osrBuf, code, mjob>>
  /\ UNCHANGED <<queueVars, cursor, info, installReq, threadVars, iret, fret,
                 suspended>>

(* An unoptimized frame of f takes the patched back edge l. *)
OnStackReplacement(f, l) ==
  /\ mpc = "run"
  /\ SharedOf[f] = LoopOf[l]
  /\ edge[l] = "osr"
  /\ CompileForOnStackReplacement(f, l)

(* The builtin OsrAfterStackCheck with an interrupt pending: the interrupts  *)
(* are handled first, then OnStackReplacement is entered.                    *)
OsrAfterStackCheck(f, l) ==
  /\ mpc = "run"
  /\ SharedOf[f] = LoopOf[l]
  /\ edge[l] = "gated"
  /\ suspended = NoRequest
  /\ req' = [fn |-> f, loop |-> l]
  /\ IF installReq
     THEN mpc' = "install" /\ iret' = "osr" /\ installReq' = FALSE
     ELSE mpc' = "osr" /\ UNCHANGED <<iret, installReq>>
  /\ UNCHANGED <<queueVars, osrVars, info, code, edgeVars, threadVars, mjob,
                 fret, suspended>>

OsrAfterInterrupt ==
  /\ mpc = "osr"
  /\ CompileForOnStackReplacement(req.fn, req.loop)

(* The API interrupt of the same stack check calls JavaScript. *)
CallbackEnter ==
  /\ ApiCallbacks
  /\ mpc = "osr"
  /\ suspended' = req
  /\ req' = NoRequest
  /\ mpc' = "run"
  /\ UNCHANGED <<queueVars, osrVars, info, code, edgeVars, installReq,
                 threadVars, mjob, iret, fret>>

CallbackReturn ==
  /\ mpc = "run"
  /\ suspended # NoRequest
  /\ req' = suspended
  /\ suspended' = NoRequest
  /\ mpc' = "osr"
  /\ UNCHANGED <<queueVars, osrVars, info, code, edgeVars, installReq,
                 threadVars, mjob, iret, fret>>

(* Mutation: a blocked job is signalled as well. *)
SignalJobTwice ==
  /\ sem' = sem + 1
  /\ blocked' = blocked + (IF Block THEN 1 ELSE 0)

(* The end of QueueForOptimization: one signal for the job, or a blocked one. *)
SignalJob ==
  IF Block THEN blocked' = blocked + 1 /\ UNCHANGED sem
           ELSE sem' = sem + 1 /\ UNCHANGED blocked

(* CreateGraph did not succeed. *)
CreateGraphFails ==
  /\ mpc = "create"
  /\ mpc' = "run"
  /\ req' = NoRequest
  /\ IF req.loop = NoLoop
     THEN ReplaceCode({req.fn}, "full") /\ UNCHANGED edgeVars
     ELSE /\ Revert(SharedOf[req.fn])
          /\ IF code[req.fn] = "optimized" THEN UNCHANGED code
             ELSE ReplaceCode({req.fn}, "full")
  /\ UNCHANGED <<queueVars, osrVars, info, installReq, threadVars, mjob, iret,
                 fret, suspended>>

(* QueueForOptimization of a regular job, and MarkInOptimizationQueue's      *)
(* effect by the ReplaceCode of Runtime_CompileOptimized.                    *)
QueueForOptimization ==
  /\ mpc = "create"
  /\ req.loop = NoLoop
  /\ \E j \in Job \ Live :
       /\ info' = [info EXCEPT ![j] =
                     [closure |-> req.fn, osr |-> NoLoop, waiting |-> FALSE]]
       /\ inputQ' = Append(inputQ, j)
  /\ SignalJob
  /\ ReplaceCode({req.fn}, "queued")
  /\ mpc' = "run"
  /\ req' = NoRequest
  /\ UNCHANGED <<stop, stopSem, outputQ, osrVars, edgeVars, installReq,
                 threadVars, mjob, iret, fret, suspended>>

(* QueueForOptimization of an OSR job: AddToOsrBuffer, disposing the stale   *)
(* job of the slot found, then the front of the input queue.                 *)
QueueForOsr ==
  /\ mpc = "create"
  /\ req.loop # NoLoop
  /\ \E i \in Slot, j \in Job \ Live :
       /\ IsFound(i)
       /\ osrBuf' = [osrBuf EXCEPT ![i] = j]
       /\ cursor' = (i + 1) % OsrCapacity
       /\ info' = [k \in Job |->
                     IF k = j THEN [closure |-> req.fn, osr |-> req.loop,
                                    waiting |-> FALSE]
                     ELSE IF k = osrBuf[i] THEN Freed ELSE info[k]]
       /\ inputQ' = <<j>> \o inputQ
  /\ SignalJob
  /\ mpc' = "run"
  /\ req' = NoRequest
  /\ UNCHANGED <<stop, stopSem, outputQ, code, edgeVars, installReq,
                 threadVars, mjob, iret, fret, suspended>>

(* AddToOsrBuffer, for a job or for a GC, finds every slot taken by a job    *)
(* that is not ready.  Only this thread empties slots or marks jobs ready,   *)
(* so its search loop never ends.                                            *)
AddToOsrBufferSpins ==
  /\ mpc \in {"run", "create", "finish", "spin"}
  /\ \A i \in Slot : ~Reusable(i)
  /\ mpc' = "spin"
  /\ UNCHANGED <<queueVars, osrVars, info, code, edgeVars, installReq,
                 threadVars, mjob, req, iret, fret, suspended>>

(* AgeBufferedOsrJobs, called by every GC prologue.                          *)
AgeBufferedOsrJobs ==
  /\ mpc \in {"run", "create", "finish"}
  /\ \E i \in Slot :
       /\ IsFound(i)
       /\ osrBuf' = [osrBuf EXCEPT ![i] = NoJob]
       /\ cursor' = (i + 1) % OsrCapacity
       /\ Delete({osrBuf[i]})
  /\ UNCHANGED <<queueVars, code, edgeVars, installReq, threadVars, mainVars>>

(* %UnblockConcurrentRecompilation *)
Unblock ==
  /\ Block
  /\ mpc = "run"
  /\ blocked > 0
  /\ sem' = sem + blocked
  /\ blocked' = 0
  /\ UNCHANGED <<stop, stopSem, inputQ, outputQ, osrVars, info, code,
                 edgeVars, installReq, threadVars, mainVars>>

(* Deoptimization of f, or sync compilation: the runtime replaces its code.  *)
Deoptimize(f) ==
  /\ mpc = "run"
  /\ code[f] = "optimized"
  /\ ReplaceCode({f}, "full")
  /\ UNCHANGED <<queueVars, osrVars, info, edgeVars, installReq, threadVars,
                 mainVars>>

-----------------------------------------------------------------------------
(* The main thread installs jobs. *)

(* StackGuard::HandleInterrupts *)
HandleInterrupts ==
  /\ mpc = "run"
  /\ installReq
  /\ installReq' = FALSE
  /\ mpc' = "install"
  /\ iret' = "run"
  /\ UNCHANGED <<queueVars, osrVars, info, code, edgeVars, threadVars, mjob,
                 req, fret, suspended>>

(* Runtime_TryInstallOptimizedCode, from the InOptimizationQueue builtin.    *)
TryInstallOptimizedCode(f) ==
  /\ mpc = "run"
  /\ code[f] = "queued"
  /\ mpc' = "install"
  /\ iret' = "run"
  /\ UNCHANGED <<queueVars, osrVars, info, code, edgeVars, installReq,
                 threadVars, mjob, req, fret, suspended>>

(* One iteration of InstallOptimizedFunctions, and its end. *)
InstallNext ==
  /\ mpc = "install"
  /\ outputQ # <<>>
  /\ outputQ' = Tail(outputQ)
  /\ LET j == Head(outputQ) IN
       \/ /\ IsOsr(j)
          /\ info' = [info EXCEPT ![j].waiting = TRUE]
          /\ RemoveStackChecks({info[j].osr})
          /\ UNCHANGED <<mpc, mjob>>
       \/ /\ ~IsOsr(j)
          /\ code[info[j].closure] = "optimized"
          /\ Delete({j})
          /\ UNCHANGED <<edgeVars, mpc, mjob>>
       \/ /\ ~IsOsr(j)
          /\ code[info[j].closure] # "optimized"
          /\ mpc' = "finish"
          /\ mjob' = j
          /\ UNCHANGED <<edgeVars, info>>
  /\ UNCHANGED <<stop, sem, stopSem, blocked, inputQ, osrVars, code,
                 installReq, threadVars, req, iret, fret, suspended>>

InstallReturn ==
  /\ mpc = "install"
  /\ outputQ = <<>>
  /\ mpc' = iret
  /\ iret' = "run"
  /\ UNCHANGED <<queueVars, osrVars, info, code, edgeVars, installReq,
                 threadVars, mjob, req, fret, suspended>>

(* The end of GetConcurrentlyOptimizedCode, for the install loop: the code,  *)
(* or the full code when the job failed or was invalidated.                  *)
FinishRegular ==
  /\ mpc = "finish"
  /\ ~IsOsr(mjob)
  /\ \E c \in {"optimized", "full"} : ReplaceCode({info[mjob].closure}, c)
  /\ Delete({mjob})
  /\ mjob' = NoJob
  /\ mpc' = "install"
  /\ UNCHANGED <<queueVars, osrVars, edgeVars, installReq, threadVars, req,
                 iret, fret, suspended>>

(* The same for Runtime_CompileForOnStackReplacement. *)
FinishOsr ==
  /\ mpc = "finish"
  /\ IsOsr(mjob)
  /\ Revert(SharedOf[req.fn])
  /\ OsrReturn(req.fn)
  /\ Delete({mjob})
  /\ mjob' = NoJob
  /\ mpc' = "run"
  /\ req' = NoRequest
  /\ UNCHANGED <<queueVars, osrVars, installReq, threadVars, iret, fret,
                 suspended>>

-----------------------------------------------------------------------------
(* Flush and Stop. *)

(* Flush: from a last-resort GC inside a compilation, or from the running    *)
(* state (GC, context disposal, first break point).                          *)
FlushBegin ==
  /\ mpc \in {"run", "create", "finish"}
  /\ stop' = "FLUSH"
  /\ fret' = mpc
  /\ mpc' = "flushSignal"
  /\ UNCHANGED <<sem, stopSem, blocked, inputQ, outputQ, osrVars, info, code,
                 edgeVars, installReq, threadVars, mjob, req, iret, suspended>>

StopBegin ==
  /\ mpc = "run"
  /\ suspended = NoRequest
  /\ stop' = "STOP"
  /\ mpc' = "stopSignal"
  /\ UNCHANGED <<sem, stopSem, blocked, inputQ, outputQ, osrVars, info, code,
                 edgeVars, installReq, threadVars, mjob, req, iret, fret,
                 suspended>>

(* Unblock() and input_queue_semaphore_.Signal() of Flush and of Stop. *)
SignalThread(from, to) ==
  /\ mpc = from
  /\ sem' = sem + blocked + 1
  /\ blocked' = 0
  /\ mpc' = to
  /\ UNCHANGED <<stop, stopSem, inputQ, outputQ, osrVars, info, code,
                 edgeVars, installReq, threadVars, mjob, req, iret, fret,
                 suspended>>

FlushSignal == SignalThread("flushSignal", "flushWait")
StopSignal == SignalThread("stopSignal", "stopWait")

AwaitThread(from, to) ==
  /\ mpc = from
  /\ stopSem > 0
  /\ stopSem' = stopSem - 1
  /\ mpc' = to
  /\ UNCHANGED <<stop, sem, blocked, inputQ, outputQ, osrVars, info, code,
                 edgeVars, installReq, threadVars, mjob, req, iret, fret,
                 suspended>>

FlushWait == AwaitThread("flushWait", "flushOut")
StopWait == AwaitThread("stopWait", IF Delay THEN "stopCompile" ELSE "stopFlush")

Buffered == {osrBuf[i] : i \in Slot} \ {NoJob}
Regular(S) == {j \in S : ~IsOsr(j)}
Closures(S) == {info[j].closure : j \in S}

(* FlushOutputQueue(true) and FlushOsrBuffer(true). *)
FlushFinish ==
  /\ mpc = "flushOut"
  /\ LET regular == Regular(Elements(outputQ)) IN
       /\ ReplaceCode(Closures(regular), "full")
       /\ Delete(regular \cup Buffered)
  /\ RemoveStackChecks({info[j].osr : j \in {b \in Buffered : ~Waiting(b)}})
  /\ outputQ' = <<>>
  /\ osrBuf' = [i \in Slot |-> NoJob]
  /\ mpc' = fret
  /\ fret' = "run"
  /\ UNCHANGED <<stop, sem, stopSem, blocked, inputQ, cursor, installReq,
                 threadVars, mjob, req, iret, suspended>>

(* Mutation: the job's signal stays in the semaphore. *)
FlushInputWithoutWait(restore) ==
  /\ inputQ # <<>>
  /\ inputQ' = Tail(inputQ)
  /\ LET regular == Regular({Head(inputQ)}) IN
       /\ Delete(regular)
       /\ IF restore THEN ReplaceCode(Closures(regular), "full")
                     ELSE UNCHANGED code
  /\ UNCHANGED sem

(* Mutation: the functions keep the InOptimizationQueue builtin. *)
FlushInputWithoutRestore(restore) ==
  /\ inputQ # <<>>
  /\ sem > 0
  /\ inputQ' = Tail(inputQ)
  /\ sem' = sem - 1
  /\ Delete(Regular({Head(inputQ)}))
  /\ UNCHANGED code

(* One iteration of FlushInputQueue(restore): a job and its signal. *)
FlushInput(restore) ==
  /\ inputQ # <<>>
  /\ sem > 0
  /\ inputQ' = Tail(inputQ)
  /\ sem' = sem - 1
  /\ LET regular == Regular({Head(inputQ)}) IN
       /\ Delete(regular)
       /\ IF restore THEN ReplaceCode(Closures(regular), "full")
                     ELSE UNCHANGED code

(* Stop without a compilation delay: FlushInputQueue(false), then            *)
(* FlushOutputQueue(false), FlushOsrBuffer(false) and Join.                  *)
StopFlushInput ==
  /\ mpc = "stopFlush"
  /\ FlushInput(FALSE)
  /\ UNCHANGED <<stop, stopSem, blocked, outputQ, osrVars, edgeVars,
                 installReq, threadVars, mainVars>>

StopFlushOutput ==
  /\ mpc = "stopFlush"
  /\ inputQ = <<>>
  /\ Delete(Regular(Elements(outputQ)) \cup Buffered)
  /\ outputQ' = <<>>
  /\ osrBuf' = [i \in Slot |-> NoJob]
  /\ mpc' = "stopped"
  /\ UNCHANGED <<stop, sem, stopSem, blocked, inputQ, cursor, code, edgeVars,
                 installReq, threadVars, mjob, req, iret, fret, suspended>>

(* Stop with a compilation delay: CompileNext for each job, then             *)
(* InstallOptimizedFunctions.                                                *)
StopCompileNext ==
  /\ mpc = "stopCompile"
  /\ inputQ # <<>>
  /\ inputQ' = Tail(inputQ)
  /\ outputQ' = Append(outputQ, Head(inputQ))
  /\ installReq' = TRUE
  /\ UNCHANGED <<stop, sem, stopSem, blocked, osrVars, info, code, edgeVars,
                 threadVars, mainVars>>

StopInstall ==
  /\ mpc = "stopCompile"
  /\ inputQ = <<>>
  /\ mpc' = "install"
  /\ iret' = "stopOsr"
  /\ UNCHANGED <<queueVars, osrVars, info, code, edgeVars, installReq,
                 threadVars, mjob, req, fret, suspended>>

(* Mutation: FlushOsrBuffer is not called. *)
StopWithoutOsr ==
  /\ mpc = "stopOsr"
  /\ mpc' = "stopped"
  /\ UNCHANGED <<queueVars, osrVars, info, code, edgeVars, installReq,
                 threadVars, mjob, req, iret, fret, suspended>>

(* FlushOsrBuffer(false) and Join, after the delayed jobs were installed. *)
StopFinish ==
  /\ mpc = "stopOsr"
  /\ Delete(Buffered)
  /\ osrBuf' = [i \in Slot |-> NoJob]
  /\ mpc' = "stopped"
  /\ UNCHANGED <<queueVars, cursor, code, edgeVars, installReq, threadVars,
                 mjob, req, iret, fret, suspended>>

-----------------------------------------------------------------------------
(* The compiler thread: Run. *)

ThreadWait ==
  /\ tpc = "wait"
  /\ sem > 0
  /\ sem' = sem - 1
  /\ tpc' = "awake"
  /\ UNCHANGED <<stop, stopSem, blocked, inputQ, outputQ, osrVars, info, code,
                 edgeVars, installReq, tjob, mainVars>>

(* The switch on stop_thread_. *)
ThreadSwitch ==
  /\ tpc = "awake"
  /\ \/ stop = "CONTINUE" /\ tpc' = "next" /\ UNCHANGED stopSem
     \/ stop = "STOP" /\ tpc' = "exited" /\ stopSem' = stopSem + 1
     \/ stop = "FLUSH" /\ tpc' = "flush" /\ UNCHANGED stopSem
  /\ UNCHANGED <<stop, sem, blocked, inputQ, outputQ, osrVars, info, code,
                 edgeVars, installReq, tjob, mainVars>>

ThreadFlushInput ==
  /\ tpc = "flush"
  /\ FlushInput(TRUE)
  /\ UNCHANGED <<stop, stopSem, blocked, outputQ, osrVars, edgeVars,
                 installReq, threadVars, mainVars>>

ThreadFlushed ==
  /\ tpc = "flush"
  /\ inputQ = <<>>
  /\ stop' = "CONTINUE"
  /\ tpc' = "ack"
  /\ UNCHANGED <<sem, stopSem, blocked, inputQ, outputQ, osrVars, info, code,
                 edgeVars, installReq, tjob, mainVars>>

(* Mutation: the main thread is not woken up. *)
ThreadAckWithoutSignal ==
  /\ tpc = "ack"
  /\ tpc' = "wait"
  /\ UNCHANGED <<queueVars, osrVars, info, code, edgeVars, installReq, tjob,
                 mainVars>>

ThreadAck ==
  /\ tpc = "ack"
  /\ stopSem' = stopSem + 1
  /\ tpc' = "wait"
  /\ UNCHANGED <<stop, sem, blocked, inputQ, outputQ, osrVars, info, code,
                 edgeVars, installReq, tjob, mainVars>>

(* Mutation: input_queue_length_ is not decremented. *)
ThreadPeekInput ==
  /\ tpc = "next"
  /\ tjob' = IF inputQ = <<>> THEN NoJob ELSE Head(inputQ)
  /\ tpc' = "compile"
  /\ UNCHANGED <<queueVars, osrVars, info, code, edgeVars, installReq,
                 mainVars>>

(* CompileNext: NextInput, OptimizeGraph and Enqueue, RequestInstallCode. *)
ThreadNextInput ==
  /\ tpc = "next"
  /\ IF inputQ = <<>>
     THEN tjob' = NoJob /\ UNCHANGED inputQ
     ELSE tjob' = Head(inputQ) /\ inputQ' = Tail(inputQ)
  /\ tpc' = "compile"
  /\ UNCHANGED <<stop, sem, stopSem, blocked, outputQ, osrVars, info, code,
                 edgeVars, installReq, mainVars>>

ThreadOptimizeGraph ==
  /\ tpc = "compile"
  /\ outputQ' = Append(outputQ, tjob)
  /\ tjob' = NoJob
  /\ tpc' = "request"
  /\ UNCHANGED <<stop, sem, stopSem, blocked, inputQ, osrVars, info, code,
                 edgeVars, installReq, mainVars>>

(* Mutation: no interrupt is requested. *)
ThreadRequestNothing ==
  /\ tpc = "request"
  /\ tpc' = "wait"
  /\ UNCHANGED <<queueVars, osrVars, info, code, edgeVars, installReq, tjob,
                 mainVars>>

ThreadRequestInstallCode ==
  /\ tpc = "request"
  /\ installReq' = TRUE
  /\ tpc' = "wait"
  /\ UNCHANGED <<queueVars, osrVars, info, code, edgeVars, tjob, mainVars>>

-----------------------------------------------------------------------------
Init ==
  /\ stop = "CONTINUE"
  /\ sem = 0 /\ stopSem = 0 /\ blocked = 0
  /\ inputQ = <<>> /\ outputQ = <<>>
  /\ osrBuf = [i \in Slot |-> NoJob] /\ cursor = 0
  /\ info = [j \in Job |-> Freed]
  /\ code = [f \in Function |-> "full"]
  /\ edge = [l \in Loop |-> "interrupt"]
  /\ level = [s \in Shared |-> 0]
  /\ installReq = FALSE
  /\ tpc = "wait" /\ tjob = NoJob
  /\ mpc = "run" /\ mjob = NoJob
  /\ req = NoRequest
  /\ iret = "run" /\ fret = "run"
  /\ suspended = NoRequest

(* What the main thread does of its own accord. *)
Script ==
  \/ \E f \in Function :
       \/ Optimize(f) \/ AttemptOnStackReplacement(f) \/ CompileOptimized(f)
       \/ Deoptimize(f) \/ TryInstallOptimizedCode(f)
       \/ \E l \in Loop : OnStackReplacement(f, l) \/ OsrAfterStackCheck(f, l)
  \/ CallbackEnter \/ CallbackReturn
  \/ AgeBufferedOsrJobs \/ Unblock
  \/ FlushBegin \/ StopBegin

(* The ends of the compilation phases on the main thread. *)
Compile ==
  \/ CreateGraphFails \/ QueueForOptimization \/ QueueForOsr
  \/ FinishRegular \/ FinishOsr

(* What it does to get back from the other calls it has made. *)
Continue ==
  \/ OsrAfterInterrupt \/ InstallNext \/ InstallReturn
  \/ FlushSignal \/ FlushWait \/ FlushFinish
  \/ StopSignal \/ StopWait \/ StopFlushInput \/ StopFlushOutput
  \/ StopCompileNext \/ StopInstall \/ StopFinish

Thread ==
  \/ ThreadWait \/ ThreadSwitch \/ ThreadFlushInput \/ ThreadFlushed
  \/ ThreadAck \/ ThreadNextInput \/ ThreadOptimizeGraph
  \/ ThreadRequestInstallCode

(* The isolate is torn down. *)
Terminated == mpc = "stopped" /\ UNCHANGED vars

Next ==
  \/ Script \/ HandleInterrupts \/ Compile \/ Continue
  \/ AddToOsrBufferSpins \/ Thread \/ Terminated

Spec == Init /\ [][Next]_vars

(* The operating system schedules both threads.  A compilation phase         *)
(* allocates finitely often, so only finitely many GCs interrupt it.         *)
(* Running JavaScript keeps reaching stack checks, so a requested interrupt  *)
(* is handled in the end, although the main thread may be inside another     *)
(* call at any given moment.                                                 *)
Fairness ==
  /\ WF_vars(Thread)
  /\ WF_vars(Continue)
  /\ SF_vars(Compile)
  /\ SF_vars(HandleInterrupts)

FairSpec == Spec /\ Fairness

-----------------------------------------------------------------------------
(* Properties. *)

StopFlag == {"CONTINUE", "STOP", "FLUSH"}
CodeKind == {"full", "marked", "queued", "optimized"}
BackEdgeState == {"interrupt", "osr", "gated"}
ThreadPc == {"wait", "awake", "next", "compile", "request", "flush", "ack",
             "exited"}
FlushPc == {"flushSignal", "flushWait", "flushOut"}
StopPc == {"stopSignal", "stopWait", "stopFlush", "stopCompile", "stopOsr",
           "stopped"}
MainPc == {"run", "osr", "create", "install", "finish", "spin"}
          \cup FlushPc \cup StopPc

(* Type invariant: the fields of OptimizingCompilerThread, the jobs, the     *)
(* functions and the back edges hold values the code can give them, and the  *)
(* input queue never exceeds its capacity.                                   *)
TypeOK ==
  /\ stop \in StopFlag
  /\ sem \in Nat /\ stopSem \in Nat /\ blocked \in Nat
  /\ inputQ \in Seq(Job) /\ Len(inputQ) <= Capacity
  /\ outputQ \in Seq(Job)
  /\ osrBuf \in [Slot -> Job \cup {NoJob}]
  /\ cursor \in Slot
  /\ info \in [Job -> Info \cup {Freed}]
  /\ code \in [Function -> CodeKind]
  /\ edge \in [Loop -> BackEdgeState]
  /\ level \in [Shared -> 0..MaxNesting]
  /\ installReq \in BOOLEAN
  /\ tpc \in ThreadPc
  /\ tjob \in Job \cup {NoJob}
  /\ mpc \in MainPc
  /\ mjob \in Job \cup {NoJob}
  /\ req \in Request
  /\ iret \in {"run", "osr", "stopOsr"}
  /\ fret \in {"run", "create", "finish"}
  /\ suspended \in Request

(* The jobs somebody still holds a pointer to. *)
Held == (Elements(inputQ) \cup Elements(outputQ) \cup Buffered
         \cup {tjob, mjob}) \ {NoJob}

(* The jobs that queues, the OSR buffer and the threads refer to are exactly *)
(* those whose CompilationInfo (and zone) exists: Flush, Stop, eviction from *)
(* the OSR buffer and the install loop each dispose of jobs other actors     *)
(* once held, and none may be used after that or be left behind unreachable. *)
HeldIsLive == Held = Live

(* A job sits in the pipeline (input queue, compiler thread, output queue,   *)
(* main thread) at most once and in the OSR buffer at most once, and a job   *)
(* the main thread took for itself is not in the buffer: two disposals of    *)
(* the same job cannot happen.                                               *)
SingleOwner ==
  LET q == inputQ \o <<tjob>> \o outputQ \o <<mjob>> IN
  /\ \A i, k \in 1..Len(q) : i # k /\ q[i] # NoJob => q[i] # q[k]
  /\ \A i, k \in Slot : i # k /\ osrBuf[i] # NoJob => osrBuf[i] # osrBuf[k]
  /\ mjob \notin Buffered
  /\ \A j \in Live : j \in Buffered \cap Elements(q) => ~Waiting(j)

(* Signals of the input queue semaphore.  The thread spends one when it      *)
(* wakes up, on a job, on a Flush or on its exit; Flush and Stop add one of  *)
(* their own.                                                                *)
Token == IF tpc \in {"awake", "next", "flush", "exited"} THEN 1 ELSE 0
OwnSignal ==
  IF \/ mpc = "flushWait" /\ stop = "FLUSH"
     \/ mpc \in StopPc \ {"stopSignal"}
  THEN 1 ELSE 0

(* With a compilation delay Stop takes the remaining jobs and leaves their   *)
(* signals behind.                                                           *)
Accounted == Delay /\ tpc = "exited" => mpc \in {"stopSignal", "stopWait"}

(* "We have one signal on the input queue semaphore corresponding to each    *)
(* element in the input queue", exactly: whatever Flush, Stop, Unblock and   *)
(* the consumer interleave, no signal is lost and none is left over, so the  *)
(* Waits of FlushInputQueue return and the thread never wakes for nothing.   *)
TokenAccounting ==
  Accounted => sem + Token + blocked = Len(inputQ) + OwnSignal

(* The job CompileNext gets from NextInput is never NULL (DCHECK_NE).        *)
CompileNextHasJob ==
  /\ tpc = "next" => inputQ # <<>>
  /\ tpc = "compile" <=> tjob # NoJob

(* IsQueuedForOSR keeps the OSR buffer free of two jobs for one OSR entry.   *)
UniqueOsrEntry ==
  \A i, k \in Slot :
    /\ osrBuf[i] # NoJob /\ osrBuf[k] # NoJob
    /\ info[osrBuf[i]].closure = info[osrBuf[k]].closure
    /\ info[osrBuf[i]].osr = info[osrBuf[k]].osr
    => i = k

(* BackEdgeTable::Verify: all back edges of loops at most as deep as the     *)
(* allowed nesting level, and only those, are patched.                       *)
BackEdgesMatchLevel ==
  \A l \in Loop : LoopDepth[l] <= level[LoopOf[l]] <=> edge[l] # "interrupt"

(* Finished code is always announced: as long as the output queue holds a    *)
(* job, the INSTALL_CODE interrupt is pending or about to be requested, or   *)
(* the main thread is already emptying the queue.                            *)
ReadyCodeIsAnnounced ==
  outputQ # <<>> =>
    \/ installReq
    \/ tpc = "request"
    \/ mpc = "install"
    \/ mjob # NoJob /\ ~IsOsr(mjob)
    \/ mpc \in StopPc

(* ~OptimizingCompilerThread: the input queue and the OSR buffer are empty   *)
(* when the thread is deleted, and no job survives it.                       *)
StoppedClean ==
  mpc = "stopped" => /\ inputQ = <<>> /\ Buffered = {} /\ Live = {}
                     /\ tpc = "exited"

(* When Flush returns nothing is queued any more and every function has its  *)
(* code back, except for the job the interrupted caller of Flush owns.       *)
FlushForgetsEverything ==
  [][mpc = "flushOut" /\ mpc' # "flushOut" =>
       /\ Held' \subseteq {mjob}
       /\ Live' \subseteq {mjob}
       /\ \A f \in Function : code'[f] = "queued" =>
            Closures({mjob} \ {NoJob}) = {f}
       /\ \A l \in Loop : edge'[l] = "gated" => req.loop = l
    ]_vars

(* AddToOsrBuffer: "Find the next slot that is empty or has a stale job" -   *)
(* there is one whenever it is called.                                       *)
OsrSlotIsFound == mpc # "spin"

(* Flush and Stop return: the compiler thread answers the stop semaphore     *)
(* whatever it is doing when stop_thread_ is set.                            *)
FlushAndStopReturn ==
  /\ mpc \in FlushPc ~> mpc \notin FlushPc
  /\ mpc = "stopSignal" ~> mpc = "stopped"

(* A function does not stay in the InOptimizationQueue state for ever (until *)
(* the isolate is torn down).                                                *)
QueuedIsResolved ==
  \A f \in Function : code[f] = "queued" ~>
    code[f] # "queued" \/ mpc \in StopPc

(* A gated loop is opened again in the end, unless the isolate is torn down  *)
(* or the main thread searches a full OSR buffer for ever.                   *)
GateOpens ==
  \A l \in Loop : edge[l] = "gated" ~>
    edge[l] # "gated" \/ mpc \in StopPc \cup {"spin"}

-----------------------------------------------------------------------------
(* What the component promises about jobs: RecompilationJobs. *)

JobState(j) ==
  IF j \notin Live THEN "none"
  ELSE IF j = tjob THEN "compiling"
  ELSE IF j \in Elements(outputQ) \/ Waiting(j) \/ j = mjob THEN "compiled"
  ELSE "pending"

Abstract == INSTANCE RecompilationJobs
              WITH st <- [j \in Job |-> JobState(j)],
                   closing <- stop # "CONTINUE" \/ mpc \in FlushPc

(* The pipeline of queues, buffer, semaphores and stop flag behaves like the *)
(* abstract set of jobs: no job is released while it is being compiled, none *)
(* is dropped before it is compiled unless everything is, and Flush returns  *)
(* only when everything is gone.                                             *)
ImplementsJobs == Abstract!Spec
=============================================================================
