------------------- MODULE OptimizingCompilerThreadProofs -------------------
(***************************************************************************)
(* Proofs about concurrent recompilation, for every number of jobs,        *)
(* functions and loops and every capacity of the queue and of the OSR      *)
(* buffer: the state keeps its types, and the signals of the input queue   *)
(* semaphore are balanced whatever Flush, Stop and the two threads         *)
(* interleave.                                                             *)
(***************************************************************************)
EXTENDS OptimizingCompilerThread, SequenceTheorems, TLAPS

(* The main thread is inside the creation, or the finalization, of a job,    *)
(* perhaps interrupted by a GC that flushes.                                 *)
Creating == mpc = "create" \/ (mpc \in FlushPc /\ fret = "create")
Finishing == mpc = "finish" \/ (mpc \in FlushPc /\ fret = "finish")

(* The request the main thread works on has a function, and a job being      *)
(* created still has its place in the input queue.                           *)
RequestInv ==
  /\ Creating => req.fn \in Function /\ Len(inputQ) < Capacity
  /\ mpc = "osr" \/ iret = "osr" => req.fn \in Function
  /\ suspended # NoRequest => suspended.fn \in Function

(* InstallOptimizedFunctions returns to its caller, not to that of an OSR    *)
(* request, and Stop installs only with a compilation delay.                 *)
ReturnInv ==
  /\ iret # "run" => \/ mpc \in {"install", "spin"}
                     \/ Finishing /\ mjob \in Job /\ ~IsOsr(mjob)
  /\ iret = "stopOsr" => Delay /\ tpc = "exited"

(* The stop flag follows the call of the main thread until the thread exits, *)
(* and the stop semaphore is signalled only for the call that waits.         *)
StopInv ==
  /\ mpc \in {"stopFlush", "stopCompile", "stopOsr", "stopped"}
       => tpc = "exited"
  /\ mpc \in {"stopCompile", "stopOsr"} => Delay
  /\ tpc = "exited" => mpc \in StopPc \/ iret = "stopOsr"
  /\ tpc # "exited" =>
       /\ stop = "STOP" <=> mpc \in {"stopSignal", "stopWait"}
       /\ mpc = "flushSignal" => stop = "FLUSH"
       /\ stop = "FLUSH" => mpc \in {"flushSignal", "flushWait"}
       /\ tpc = "flush" => stop = "FLUSH"
       /\ tpc = "ack" => stop = "CONTINUE" /\ mpc = "flushWait"
       /\ stopSem > 0 => /\ mpc = "flushWait" /\ stop = "CONTINUE"
                         /\ tpc # "ack" /\ stopSem = 1

(* The inductive invariant: neither the balance of signals nor the types are *)
(* inductive without the control facts above.                                *)
IInv ==
  /\ TypeOK /\ RequestInv /\ ReturnInv /\ StopInv
  /\ TokenAccounting /\ CompileNextHasJob

-----------------------------------------------------------------------------
(* Jobs, queues and back edges keep their types whatever is done to them. *)

(* A deleted CompilationInfo is neither a regular nor an OSR job. *)
LEMMA FreedFields == Freed.osr = NoLoop /\ Freed.closure = NoFunction
BY DEF Freed

(* Taking the first job of a queue. *)
LEMMA PopTypes ==
  ASSUME NEW q \in Seq(Job), q # <<>>
  PROVE  /\ Head(q) \in Job /\ Tail(q) \in Seq(Job)
         /\ Len(q) \in Nat /\ Len(q) > 0 /\ Len(Tail(q)) = Len(q) - 1
BY HeadTailProperties, LenProperties

(* Deleting jobs never turns a regular job into an OSR job. *)
LEMMA DeleteTypes ==
  ASSUME TypeOK, NEW S, Delete(S)
  PROVE  /\ info' \in [Job -> Info \cup {Freed}]
         /\ \A j \in Job : ~IsOsr(j) => ~IsOsr(j)'
BY FreedFields DEF TypeOK, Delete, IsOsr

(* JSFunction::ReplaceCode with one of the four kinds of code. *)
LEMMA ReplaceCodeTypes ==
  ASSUME TypeOK, NEW F, NEW c \in CodeKind, ReplaceCode(F, c)
  PROVE  code' \in [Function -> CodeKind]
BY DEF TypeOK, ReplaceCode

(* Everything that is done to a back edge table. *)
LEMMA EdgeTypes ==
  ASSUME TypeOK, NEW s \in Shared, NEW l, NEW L,
         \/ Patch(s) \/ Revert(s) \/ AddStackCheckAndRevert(s, l)
         \/ AddStackCheck(l) \/ RemoveStackChecks(L) \/ UNCHANGED edgeVars
  PROVE  edge' \in [Loop -> BackEdgeState] /\ level' \in [Shared -> 0..MaxNesting]
<1>1. CASE Patch(s)
  BY <1>1, LoopAssumption DEF TypeOK, Patch, BackEdgeState
<1>2. CASE Revert(s)
  BY <1>2, LoopAssumption DEF TypeOK, Revert, BackEdgeState
<1>3. CASE AddStackCheckAndRevert(s, l)
  BY <1>3, LoopAssumption DEF TypeOK, AddStackCheckAndRevert, BackEdgeState
<1>4. CASE AddStackCheck(l)
  BY <1>4 DEF TypeOK, AddStackCheck, BackEdgeState
<1>5. CASE RemoveStackChecks(L)
  BY <1>5 DEF TypeOK, RemoveStackChecks, BackEdgeState
<1>6. CASE UNCHANGED edgeVars
  BY <1>6 DEF TypeOK, edgeVars
<1> QED
  BY <1>1, <1>2, <1>3, <1>4, <1>5, <1>6

(* BackEdgeTable::Revert, of whatever function. *)
LEMMA RevertTypes ==
  ASSUME TypeOK, NEW s, Revert(s)
  PROVE  edge' \in [Loop -> BackEdgeState] /\ level' \in [Shared -> 0..MaxNesting]
<1>1. edge' \in [Loop -> BackEdgeState]
  BY DEF TypeOK, Revert, BackEdgeState
<1>2. 0 \in 0..MaxNesting
  BY LoopAssumption
<1>3. level' = [t \in Shared |-> IF t = s THEN 0 ELSE level[t]]
  BY DEF TypeOK, Revert
<1> QED
  BY <1>1, <1>2, <1>3 DEF TypeOK

(* AddToOsrBuffer stays inside the buffer. *)
LEMMA CursorTypes ==
  ASSUME NEW i \in Slot
  PROVE  (i + 1) % OsrCapacity \in Slot
BY CapacityAssumption DEF Slot, OsrCapacity

-----------------------------------------------------------------------------
(* Types. *)

(* The code a function gets at the end of an OSR request. *)
LEMMA OsrReturnTypes ==
  ASSUME TypeOK, NEW f, OsrReturn(f)
  PROVE  code' \in [Function -> CodeKind]
BY ReplaceCodeTypes DEF OsrReturn, TypeOK, CodeKind

(* Runtime_CompileForOnStackReplacement, all five ways it can go. *)
LEMMA CompileForOsrTypes ==
  ASSUME TypeOK, NEW f \in Function, NEW l \in Loop \cup {NoLoop},
         CompileForOnStackReplacement(f, l)
  PROVE  TypeOK'
<1> USE FunctionAssumption
<1>1. SharedOf[f] \in Shared
  OBVIOUS
<1>2. edge' \in [Loop -> BackEdgeState] /\ level' \in [Shared -> 0..MaxNesting]
  BY <1>1, EdgeTypes DEF CompileForOnStackReplacement
<1>3. code' \in [Function -> CodeKind]
  BY OsrReturnTypes DEF CompileForOnStackReplacement, TypeOK
<1>4. osrBuf' \in [Slot -> Job \cup {NoJob}] /\ mjob' \in Job \cup {NoJob}
  BY DEF CompileForOnStackReplacement, TypeOK
<1>5. req' \in Request
  BY DEF CompileForOnStackReplacement, Request, NoRequest
<1>6. mpc' \in MainPc
  BY DEF CompileForOnStackReplacement, MainPc
<1> QED
  BY <1>2, <1>3, <1>4, <1>5, <1>6
  DEF CompileForOnStackReplacement, TypeOK, queueVars, threadVars

(* Every step keeps the types; the jobs of the queues are jobs because the  *)
(* thread never compiles NULL, and the input queue has room because only the *)
(* main thread adds to it.                                                   *)
LEMMA TypeStep == IInv /\ [Next]_vars => TypeOK'
<1> SUFFICES ASSUME IInv, [Next]_vars PROVE TypeOK'
  OBVIOUS
<1> USE DEF IInv, queueVars, osrVars, edgeVars, threadVars, mainVars
<1>1. CASE Script
  <2>1. ASSUME NEW f \in Function, Optimize(f) PROVE TypeOK'
    BY <2>1, ReplaceCodeTypes DEF Optimize, TypeOK, CodeKind
  <2>2. ASSUME NEW f \in Function, AttemptOnStackReplacement(f) PROVE TypeOK'
    BY <2>2, EdgeTypes, FunctionAssumption
    DEF AttemptOnStackReplacement, TypeOK
  <2>3. ASSUME NEW f \in Function, CompileOptimized(f) PROVE TypeOK'
    BY <2>3, ReplaceCodeTypes
    DEF CompileOptimized, TypeOK, CodeKind, Request, MainPc
  <2>4. ASSUME NEW f \in Function, Deoptimize(f) PROVE TypeOK'
    BY <2>4, ReplaceCodeTypes DEF Deoptimize, TypeOK, CodeKind
  <2>5. ASSUME NEW f \in Function, TryInstallOptimizedCode(f) PROVE TypeOK'
    BY <2>5 DEF TryInstallOptimizedCode, TypeOK, MainPc
  <2>6. ASSUME NEW f \in Function, NEW l \in Loop, OnStackReplacement(f, l)
        PROVE  TypeOK'
    BY <2>6, CompileForOsrTypes DEF OnStackReplacement
  <2>7. ASSUME NEW f \in Function, NEW l \in Loop, OsrAfterStackCheck(f, l)
        PROVE  TypeOK'
    BY <2>7 DEF OsrAfterStackCheck, TypeOK, MainPc, Request
  <2>8. CASE CallbackEnter
    BY <2>8 DEF CallbackEnter, TypeOK, MainPc, Request, NoRequest
  <2>9. CASE CallbackReturn
    BY <2>9 DEF CallbackReturn, TypeOK, MainPc, Request, NoRequest
  <2>10. CASE AgeBufferedOsrJobs
    <3> PICK i \in Slot : /\ osrBuf' = [osrBuf EXCEPT ![i] = NoJob]
                          /\ cursor' = (i + 1) % OsrCapacity
                          /\ Delete({osrBuf[i]})
      BY <2>10 DEF AgeBufferedOsrJobs
    <3>1. cursor' \in Slot
      BY CursorTypes
    <3> QED
      BY <2>10, <3>1, DeleteTypes DEF AgeBufferedOsrJobs, TypeOK
  <2>11. CASE Unblock
    BY <2>11 DEF Unblock, TypeOK
  <2>12. CASE FlushBegin
    BY <2>12 DEF FlushBegin, TypeOK, StopFlag, MainPc, FlushPc
  <2>13. CASE StopBegin
    BY <2>13 DEF StopBegin, TypeOK, StopFlag, MainPc, StopPc
  <2> QED
    BY <1>1, <2>1, <2>2, <2>3, <2>4, <2>5, <2>6, <2>7, <2>8, <2>9, <2>10,
       <2>11, <2>12, <2>13 DEF Script
<1>2. CASE HandleInterrupts
  BY <1>2 DEF HandleInterrupts, TypeOK, MainPc
<1>3. CASE Compile
  <2>1. CASE CreateGraphFails
    <3>1. req.fn \in Function /\ SharedOf[req.fn] \in Shared
      BY <2>1, FunctionAssumption DEF CreateGraphFails, RequestInv, Creating
    <3>2. edge' \in [Loop -> BackEdgeState]
          /\ level' \in [Shared -> 0..MaxNesting]
      BY <2>1, <3>1, EdgeTypes DEF CreateGraphFails
    <3>3. code' \in [Function -> CodeKind]
      BY <2>1, ReplaceCodeTypes DEF CreateGraphFails, TypeOK, CodeKind
    <3> QED
      BY <2>1, <3>2, <3>3
      DEF CreateGraphFails, TypeOK, MainPc, Request, NoRequest
  <2>2. CASE QueueForOptimization
    <3>1. req.fn \in Function /\ Len(inputQ) < Capacity
      BY <2>2 DEF QueueForOptimization, RequestInv, Creating
    <3> PICK j \in Job : /\ info' = [info EXCEPT ![j] =
                                       [closure |-> req.fn, osr |-> NoLoop,
                                        waiting |-> FALSE]]
                         /\ inputQ' = Append(inputQ, j)
      BY <2>2 DEF QueueForOptimization
    <3>2. inputQ' \in Seq(Job) /\ Len(inputQ') <= Capacity
      BY <3>1, CapacityAssumption, AppendProperties DEF TypeOK
    <3>3. info' \in [Job -> Info \cup {Freed}]
      BY <3>1 DEF TypeOK, Info
    <3>4. sem' \in Nat /\ blocked' \in Nat
      BY <2>2 DEF QueueForOptimization, SignalJob, TypeOK
    <3>5. code' \in [Function -> CodeKind]
      BY <2>2, ReplaceCodeTypes DEF QueueForOptimization, CodeKind
    <3> QED
      BY <2>2, <3>2, <3>3, <3>4, <3>5
      DEF QueueForOptimization, TypeOK, MainPc, Request, NoRequest
  <2>3. CASE QueueForOsr
    <3>1. req.fn \in Function /\ Len(inputQ) < Capacity
      BY <2>3 DEF QueueForOsr, RequestInv, Creating
    <3> PICK i \in Slot, j \in Job :
          /\ osrBuf' = [osrBuf EXCEPT ![i] = j]
          /\ cursor' = (i + 1) % OsrCapacity
          /\ info' = [k \in Job |->
                        IF k = j THEN [closure |-> req.fn, osr |-> req.loop,
                                       waiting |-> FALSE]
                        ELSE IF k = osrBuf[i] THEN Freed ELSE info[k]]
          /\ inputQ' = <<j>> \o inputQ
      BY <2>3 DEF QueueForOsr
    <3>2. inputQ' \in Seq(Job) /\ Len(inputQ') <= Capacity
      BY <3>1, CapacityAssumption, ConcatProperties DEF TypeOK
    <3>3. info' \in [Job -> Info \cup {Freed}]
      BY <3>1 DEF TypeOK, Info, Request
    <3>4. sem' \in Nat /\ blocked' \in Nat
      BY <2>3 DEF QueueForOsr, SignalJob, TypeOK
    <3>5. cursor' \in Slot /\ osrBuf' \in [Slot -> Job \cup {NoJob}]
      BY CursorTypes DEF TypeOK
    <3> QED
      BY <2>3, <3>2, <3>3, <3>4, <3>5
      DEF QueueForOsr, TypeOK, MainPc, Request, NoRequest
  <2>4. CASE FinishRegular
    BY <2>4, DeleteTypes, ReplaceCodeTypes
    DEF FinishRegular, TypeOK, MainPc, CodeKind
  <2>5. CASE FinishOsr
    <3>1. code' \in [Function -> CodeKind]
      BY <2>5, OsrReturnTypes DEF FinishOsr
    <3>2. edge' \in [Loop -> BackEdgeState]
          /\ level' \in [Shared -> 0..MaxNesting]
      BY <2>5, RevertTypes DEF FinishOsr
    <3> QED
      BY <2>5, <3>1, <3>2, DeleteTypes
      DEF FinishOsr, TypeOK, MainPc, Request, NoRequest
  <2> QED
    BY <1>3, <2>1, <2>2, <2>3, <2>4, <2>5 DEF Compile
<1>4. CASE Continue
  <2>1. CASE OsrAfterInterrupt
    BY <2>1, CompileForOsrTypes
    DEF OsrAfterInterrupt, RequestInv, TypeOK, Request
  <2>2. CASE InstallNext
    <3> DEFINE j == Head(outputQ)
    <3>1. j \in Job /\ outputQ' \in Seq(Job)
      BY <2>2, HeadTailProperties DEF InstallNext, TypeOK
    <3>2. info' \in [Job -> Info \cup {Freed}]
      <4>1. CASE IsOsr(j) /\ info' = [info EXCEPT ![j].waiting = TRUE]
        BY <3>1, <4>1, FreedFields DEF TypeOK, IsOsr, Info
      <4> QED
        BY <2>2, <4>1, DeleteTypes DEF InstallNext, TypeOK
    <3>3. edge' \in [Loop -> BackEdgeState]
          /\ level' \in [Shared -> 0..MaxNesting]
      BY <2>2 DEF InstallNext, RemoveStackChecks, TypeOK, BackEdgeState
    <3> QED
      BY <2>2, <3>1, <3>2, <3>3 DEF InstallNext, TypeOK, MainPc
  <2>3. CASE InstallReturn
    BY <2>3 DEF InstallReturn, TypeOK, MainPc, StopPc
  <2>4. CASE FlushSignal \/ StopSignal
    BY <2>4
    DEF FlushSignal, StopSignal, SignalThread, TypeOK, MainPc, FlushPc, StopPc
  <2>5. CASE FlushWait \/ StopWait
    BY <2>5
    DEF FlushWait, StopWait, AwaitThread, TypeOK, MainPc, FlushPc, StopPc
  <2>6. CASE FlushFinish
    <3>1. code' \in [Function -> CodeKind]
      BY <2>6, ReplaceCodeTypes DEF FlushFinish, CodeKind
    <3>2. info' \in [Job -> Info \cup {Freed}]
      BY <2>6, DeleteTypes DEF FlushFinish
    <3>3. edge' \in [Loop -> BackEdgeState]
          /\ level' \in [Shared -> 0..MaxNesting]
      BY <2>6 DEF FlushFinish, RemoveStackChecks, TypeOK, BackEdgeState
    <3> QED
      BY <2>6, <3>1, <3>2, <3>3 DEF FlushFinish, TypeOK, MainPc
  <2>7. CASE StopFlushInput
    <3>1. inputQ' \in Seq(Job) /\ Len(inputQ') <= Capacity
      BY <2>7, PopTypes, CapacityAssumption
      DEF StopFlushInput, FlushInput, TypeOK
    <3>2. info' \in [Job -> Info \cup {Freed}]
      BY <2>7, DeleteTypes DEF StopFlushInput, FlushInput
    <3> QED
      BY <2>7, <3>1, <3>2 DEF StopFlushInput, FlushInput, TypeOK
  <2>8. CASE StopFlushOutput
    BY <2>8, DeleteTypes DEF StopFlushOutput, TypeOK, MainPc, StopPc
  <2>9. CASE StopCompileNext
    <3>1. inputQ' \in Seq(Job) /\ Len(inputQ') <= Capacity
      BY <2>9, PopTypes, CapacityAssumption DEF StopCompileNext, TypeOK
    <3>2. outputQ' \in Seq(Job)
      BY <2>9, PopTypes, AppendProperties DEF StopCompileNext, TypeOK
    <3> QED
      BY <2>9, <3>1, <3>2 DEF StopCompileNext, TypeOK
  <2>10. CASE StopInstall
    BY <2>10 DEF StopInstall, TypeOK, MainPc
  <2>11. CASE StopFinish
    BY <2>11, DeleteTypes DEF StopFinish, TypeOK, MainPc, StopPc
  <2> QED
    BY <1>4, <2>1, <2>2, <2>3, <2>4, <2>5, <2>6, <2>7, <2>8, <2>9, <2>10,
       <2>11 DEF Continue
<1>5. CASE AddToOsrBufferSpins
  BY <1>5 DEF AddToOsrBufferSpins, TypeOK, MainPc
<1>6. CASE Thread
  <2>1. CASE ThreadWait \/ ThreadSwitch \/ ThreadFlushed \/ ThreadAck
    BY <2>1 DEF ThreadWait, ThreadSwitch, ThreadFlushed, ThreadAck, TypeOK,
                ThreadPc, StopFlag
  <2>2. CASE ThreadFlushInput
    <3>1. code' \in [Function -> CodeKind]
      BY <2>2, ReplaceCodeTypes
      DEF ThreadFlushInput, FlushInput, CodeKind
    <3>2. inputQ' \in Seq(Job) /\ Len(inputQ') <= Capacity
      BY <2>2, PopTypes, CapacityAssumption
      DEF ThreadFlushInput, FlushInput, TypeOK
    <3>3. info' \in [Job -> Info \cup {Freed}]
      BY <2>2, DeleteTypes DEF ThreadFlushInput, FlushInput
    <3> QED
      BY <2>2, <3>1, <3>2, <3>3 DEF ThreadFlushInput, FlushInput, TypeOK
  <2>3. CASE ThreadNextInput
    <3>1. /\ inputQ' \in Seq(Job) /\ Len(inputQ') <= Capacity
          /\ tjob' \in Job \cup {NoJob}
      <4>1. CASE inputQ = <<>>
        BY <2>3, <4>1 DEF ThreadNextInput, TypeOK
      <4>2. CASE inputQ # <<>>
        <5>1. tjob' = Head(inputQ) /\ inputQ' = Tail(inputQ)
          BY <2>3, <4>2 DEF ThreadNextInput
        <5> QED
          BY <4>2, <5>1, PopTypes, CapacityAssumption DEF TypeOK
      <4> QED
        BY <4>1, <4>2
    <3> QED
      BY <2>3, <3>1 DEF ThreadNextInput, TypeOK, ThreadPc
  <2>4. CASE ThreadOptimizeGraph
    <3>1. tjob \in Job
      BY <2>4 DEF ThreadOptimizeGraph, TypeOK, CompileNextHasJob
    <3>2. outputQ' \in Seq(Job)
      BY <2>4, <3>1, AppendProperties DEF ThreadOptimizeGraph, TypeOK
    <3> QED
      BY <2>4, <3>2 DEF ThreadOptimizeGraph, TypeOK, ThreadPc
  <2>5. CASE ThreadRequestInstallCode
    BY <2>5 DEF ThreadRequestInstallCode, TypeOK, ThreadPc
  <2> QED
    BY <1>6, <2>1, <2>2, <2>3, <2>4, <2>5 DEF Thread
<1>7. CASE Terminated \/ UNCHANGED vars
  BY <1>7 DEF Terminated, vars, TypeOK
<1> QED
  BY <1>1, <1>2, <1>3, <1>4, <1>5, <1>6, <1>7 DEF Next

-----------------------------------------------------------------------------
(* The call the main thread is in. *)

(* While a job is created only the compiler thread touches the input queue,  *)
(* and it only removes jobs.                                                 *)
LEMMA RequestStep == IInv /\ [Next]_vars => RequestInv'
<1> SUFFICES ASSUME IInv, [Next]_vars PROVE RequestInv'
  OBVIOUS
<1> USE DEF IInv, queueVars, osrVars, edgeVars, threadVars, mainVars,
            RequestInv, Creating, FlushPc
<1>1. CASE Script
  <2>1. ASSUME NEW f \in Function,
               \/ Optimize(f) \/ AttemptOnStackReplacement(f)
               \/ CompileOptimized(f) \/ Deoptimize(f)
               \/ TryInstallOptimizedCode(f)
        PROVE  RequestInv'
    BY <2>1 DEF Optimize, AttemptOnStackReplacement, CompileOptimized,
                Deoptimize, TryInstallOptimizedCode, ReturnInv, Finishing
  <2>2. ASSUME NEW f \in Function, NEW l \in Loop, OnStackReplacement(f, l)
        PROVE  RequestInv'
    BY <2>2 DEF OnStackReplacement, CompileForOnStackReplacement, ReturnInv,
                Finishing
  <2>3. ASSUME NEW f \in Function, NEW l \in Loop, OsrAfterStackCheck(f, l)
        PROVE  RequestInv'
    BY <2>3 DEF OsrAfterStackCheck
  <2>4. CASE CallbackEnter \/ CallbackReturn
    BY <2>4 DEF CallbackEnter, CallbackReturn, ReturnInv, Finishing, NoRequest
  <2>5. CASE AgeBufferedOsrJobs \/ Unblock \/ FlushBegin \/ StopBegin
    BY <2>5 DEF AgeBufferedOsrJobs, Unblock, FlushBegin, StopBegin
  <2> QED
    BY <1>1, <2>1, <2>2, <2>3, <2>4, <2>5 DEF Script
<1>2. CASE HandleInterrupts
  BY <1>2 DEF HandleInterrupts
<1>3. CASE Compile
  <2>1. mpc \in {"create", "finish"}
    BY <1>3 DEF Compile, CreateGraphFails, QueueForOptimization, QueueForOsr,
                FinishRegular, FinishOsr
  <2>2. CASE FinishRegular
    BY <2>2 DEF FinishRegular
  <2>3. CASE ~FinishRegular
    <3>1. iret' = "run" /\ mpc' = "run" /\ suspended' = suspended
      BY <1>3, <2>3 DEF Compile, CreateGraphFails, QueueForOptimization,
                        QueueForOsr, FinishOsr, ReturnInv, Finishing, TypeOK
    <3> QED
      BY <3>1
  <2> QED
    BY <2>2, <2>3
<1>4. CASE Continue
  <2>1. CASE OsrAfterInterrupt
    BY <2>1 DEF OsrAfterInterrupt, CompileForOnStackReplacement, ReturnInv,
                Finishing
  <2>2. CASE \/ InstallNext \/ FlushSignal \/ FlushWait \/ StopSignal
             \/ StopWait \/ StopFlushOutput \/ StopInstall \/ StopFinish
    BY <2>2 DEF InstallNext, FlushSignal, FlushWait, StopSignal, StopWait,
                SignalThread, AwaitThread, StopFlushOutput, StopInstall,
                StopFinish
  <2>3. CASE FlushFinish
    BY <2>3 DEF FlushFinish, TypeOK
  <2>4. CASE StopFlushInput \/ StopCompileNext
    BY <2>4 DEF StopFlushInput, StopCompileNext
  <2>5. CASE InstallReturn
    BY <2>5 DEF InstallReturn, TypeOK
  <2> QED
    BY <1>4, <2>1, <2>2, <2>3, <2>4, <2>5 DEF Continue
<1>5. CASE AddToOsrBufferSpins
  BY <1>5 DEF AddToOsrBufferSpins
<1>6. CASE Thread
  <2>1. UNCHANGED mainVars
    BY <1>6 DEF Thread, ThreadWait, ThreadSwitch, ThreadFlushInput,
                ThreadFlushed, ThreadAck, ThreadNextInput,
                ThreadOptimizeGraph, ThreadRequestInstallCode
  <2>2. inputQ' = inputQ \/ (inputQ # <<>> /\ inputQ' = Tail(inputQ))
    BY <1>6 DEF Thread, ThreadWait, ThreadSwitch, ThreadFlushInput, FlushInput,
                ThreadFlushed, ThreadAck, ThreadNextInput,
                ThreadOptimizeGraph, ThreadRequestInstallCode
  <2>3. Len(inputQ') <= Len(inputQ) /\ Len(inputQ') \in Nat /\ Len(inputQ) \in Nat
    BY <2>2, PopTypes, LenProperties DEF TypeOK
  <2> QED
    BY <2>1, <2>3, CapacityAssumption
<1>7. CASE Terminated \/ UNCHANGED vars
  BY <1>7 DEF Terminated, vars
<1> QED
  BY <1>1, <1>2, <1>3, <1>4, <1>5, <1>6, <1>7 DEF Next

(* Whatever is deleted meanwhile, a regular job does not become an OSR job   *)
(* while the main thread finishes it.                                        *)
LEMMA ReturnStep == IInv /\ [Next]_vars => ReturnInv'
<1> SUFFICES ASSUME IInv, [Next]_vars PROVE ReturnInv'
  OBVIOUS
<1> USE DEF IInv, queueVars, osrVars, edgeVars, threadVars, mainVars,
            ReturnInv, Finishing, FlushPc
<1>1. CASE Script
  <2>1. ASSUME NEW f \in Function,
               \/ Optimize(f) \/ AttemptOnStackReplacement(f)
               \/ CompileOptimized(f) \/ Deoptimize(f)
               \/ TryInstallOptimizedCode(f)
        PROVE  ReturnInv'
    BY <2>1 DEF Optimize, AttemptOnStackReplacement, CompileOptimized,
                Deoptimize, TryInstallOptimizedCode
  <2>2. ASSUME NEW f \in Function, NEW l \in Loop, OnStackReplacement(f, l)
        PROVE  ReturnInv'
    BY <2>2 DEF OnStackReplacement, CompileForOnStackReplacement
  <2>3. ASSUME NEW f \in Function, NEW l \in Loop, OsrAfterStackCheck(f, l)
        PROVE  ReturnInv'
    BY <2>3 DEF OsrAfterStackCheck
  <2>4. CASE AgeBufferedOsrJobs
    <3>1. \A j \in Job : ~IsOsr(j) => ~IsOsr(j)'
      BY <2>4, DeleteTypes DEF AgeBufferedOsrJobs
    <3> QED
      BY <2>4, <3>1 DEF AgeBufferedOsrJobs, IsOsr
  <2>5. CASE FlushBegin
    BY <2>5 DEF FlushBegin, IsOsr
  <2>6. CASE CallbackEnter \/ CallbackReturn \/ Unblock \/ StopBegin
    BY <2>6 DEF CallbackEnter, CallbackReturn, Unblock, StopBegin
  <2> QED
    BY <1>1, <2>1, <2>2, <2>3, <2>4, <2>5, <2>6 DEF Script
<1>2. CASE HandleInterrupts
  BY <1>2 DEF HandleInterrupts
<1>3. CASE Compile
  BY <1>3 DEF Compile, CreateGraphFails, QueueForOptimization, QueueForOsr,
              FinishRegular, FinishOsr
<1>4. CASE Continue
  <2>1. CASE OsrAfterInterrupt
    BY <2>1 DEF OsrAfterInterrupt, CompileForOnStackReplacement
  <2>2. CASE InstallNext
    <3> DEFINE j == Head(outputQ)
    <3>1. j \in Job
      BY <2>2, PopTypes DEF InstallNext, TypeOK
    <3>2. CASE mpc' = "install"
      BY <2>2, <3>2 DEF InstallNext
    <3>3. CASE mpc' # "install"
      <4>1. mjob' = j /\ ~IsOsr(j) /\ info' = info /\ mpc' = "finish"
        BY <2>2, <3>3 DEF InstallNext
      <4> QED
        BY <2>2, <3>1, <4>1 DEF InstallNext, IsOsr
    <3> QED
      BY <3>2, <3>3
  <2>3. CASE InstallReturn
    BY <2>3 DEF InstallReturn
  <2>4. CASE FlushSignal \/ FlushWait
    BY <2>4 DEF FlushSignal, FlushWait, SignalThread, AwaitThread, IsOsr
  <2>5. CASE FlushFinish
    <3>1. \A j \in Job : ~IsOsr(j) => ~IsOsr(j)'
      BY <2>5, DeleteTypes DEF FlushFinish
    <3> QED
      BY <2>5, <3>1 DEF FlushFinish, IsOsr
  <2>6. CASE \/ StopSignal \/ StopWait \/ StopFlushInput \/ StopFlushOutput
             \/ StopCompileNext \/ StopInstall \/ StopFinish
    BY <2>6 DEF StopSignal, StopWait, SignalThread, AwaitThread,
                StopFlushInput, StopFlushOutput, StopCompileNext, StopInstall,
                StopFinish, StopInv
  <2> QED
    BY <1>4, <2>1, <2>2, <2>3, <2>4, <2>5, <2>6 DEF Continue
<1>5. CASE AddToOsrBufferSpins
  BY <1>5 DEF AddToOsrBufferSpins
<1>6. CASE Thread
  <2>1. UNCHANGED mainVars /\ (tpc = "exited" => tpc' = "exited")
    BY <1>6 DEF Thread, ThreadWait, ThreadSwitch, ThreadFlushInput,
                ThreadFlushed, ThreadAck, ThreadNextInput,
                ThreadOptimizeGraph, ThreadRequestInstallCode
  <2>2. \A j \in Job : ~IsOsr(j) => ~IsOsr(j)'
    <3>1. CASE ThreadFlushInput
      BY <3>1, DeleteTypes DEF ThreadFlushInput, FlushInput
    <3>2. CASE ~ThreadFlushInput
      BY <1>6, <3>2 DEF Thread, ThreadWait, ThreadSwitch, ThreadFlushed,
                        ThreadAck, ThreadNextInput, ThreadOptimizeGraph,
                        ThreadRequestInstallCode, IsOsr
    <3> QED
      BY <3>1, <3>2
  <2> QED
    BY <2>1, <2>2 DEF IsOsr
<1>7. CASE Terminated \/ UNCHANGED vars
  BY <1>7 DEF Terminated, vars, IsOsr
<1> QED
  BY <1>1, <1>2, <1>3, <1>4, <1>5, <1>6, <1>7 DEF Next

-----------------------------------------------------------------------------
(* The stop flag and the semaphores. *)

(* The handshake of Flush and Stop with the thread.  That Flush is already   *)
(* waiting when the thread ends its flush follows from the signal count.     *)
LEMMA StopStep == IInv /\ [Next]_vars => StopInv'
<1> SUFFICES ASSUME IInv, [Next]_vars PROVE StopInv'
  OBVIOUS
<1> USE DEF IInv, queueVars, osrVars, edgeVars, threadVars, mainVars,
            StopInv, StopPc
<1>1. CASE Script
  <2>1. ASSUME NEW f \in Function,
               \/ Optimize(f) \/ AttemptOnStackReplacement(f)
               \/ CompileOptimized(f) \/ Deoptimize(f)
               \/ TryInstallOptimizedCode(f)
        PROVE  StopInv'
    BY <2>1 DEF Optimize, AttemptOnStackReplacement, CompileOptimized,
                Deoptimize, TryInstallOptimizedCode, ReturnInv, Finishing,
                FlushPc
  <2>2. ASSUME NEW f \in Function, NEW l \in Loop, OnStackReplacement(f, l)
        PROVE  StopInv'
    BY <2>2 DEF OnStackReplacement, CompileForOnStackReplacement
  <2>3. ASSUME NEW f \in Function, NEW l \in Loop, OsrAfterStackCheck(f, l)
        PROVE  StopInv'
    BY <2>3 DEF OsrAfterStackCheck, ReturnInv, Finishing, FlushPc
  <2>4. CASE \/ CallbackEnter \/ CallbackReturn \/ AgeBufferedOsrJobs
             \/ Unblock
    BY <2>4 DEF CallbackEnter, CallbackReturn, AgeBufferedOsrJobs, Unblock
  <2>5. CASE FlushBegin \/ StopBegin
    BY <2>5 DEF FlushBegin, StopBegin, TypeOK
  <2> QED
    BY <1>1, <2>1, <2>2, <2>3, <2>4, <2>5 DEF Script
<1>2. CASE HandleInterrupts
  BY <1>2 DEF HandleInterrupts, ReturnInv, Finishing, FlushPc
<1>3. CASE Compile
  BY <1>3 DEF Compile, CreateGraphFails, QueueForOptimization, QueueForOsr,
              SignalJob, FinishRegular, FinishOsr, ReturnInv, Finishing,
              FlushPc
<1>4. CASE Continue
  <2>1. CASE OsrAfterInterrupt
    BY <2>1 DEF OsrAfterInterrupt, CompileForOnStackReplacement, ReturnInv,
                Finishing, FlushPc
  <2>2. CASE InstallNext \/ InstallReturn
    BY <2>2 DEF InstallNext, InstallReturn, ReturnInv, TypeOK
  <2>3. CASE FlushSignal \/ StopSignal
    BY <2>3 DEF FlushSignal, StopSignal, SignalThread
  <2>4. CASE FlushWait
    BY <2>4 DEF FlushWait, AwaitThread, TypeOK
  <2>5. CASE StopWait
    BY <2>5 DEF StopWait, AwaitThread, TypeOK
  <2>6. CASE FlushFinish
    BY <2>6 DEF FlushFinish, TypeOK
  <2>7. CASE \/ StopFlushInput \/ StopFlushOutput \/ StopCompileNext
             \/ StopInstall \/ StopFinish
    BY <2>7 DEF StopFlushInput, StopFlushOutput, StopCompileNext, StopInstall,
                StopFinish
  <2> QED
    BY <1>4, <2>1, <2>2, <2>3, <2>4, <2>5, <2>6, <2>7 DEF Continue
<1>5. CASE AddToOsrBufferSpins
  BY <1>5 DEF AddToOsrBufferSpins
<1>6. CASE Thread
  <2>1. CASE ThreadWait \/ ThreadSwitch
    BY <2>1 DEF ThreadWait, ThreadSwitch, TypeOK
  <2>2. CASE ThreadFlushed
    <3>1. mpc = "flushWait"
      BY <2>2 DEF ThreadFlushed, TokenAccounting, Accounted, Token, OwnSignal,
                  TypeOK
    <3> QED
      BY <2>2, <3>1 DEF ThreadFlushed, TypeOK
  <2>3. CASE ThreadAck
    BY <2>3 DEF ThreadAck, TypeOK
  <2>4. CASE \/ ThreadFlushInput \/ ThreadNextInput \/ ThreadOptimizeGraph
             \/ ThreadRequestInstallCode
    BY <2>4 DEF ThreadFlushInput, ThreadNextInput, ThreadOptimizeGraph,
                ThreadRequestInstallCode
  <2> QED
    BY <1>6, <2>1, <2>2, <2>3, <2>4 DEF Thread
<1>7. CASE Terminated \/ UNCHANGED vars
  BY <1>7 DEF Terminated, vars
<1> QED
  BY <1>1, <1>2, <1>3, <1>4, <1>5, <1>6, <1>7 DEF Next

(* The signal of Stop is counted from the moment it is given. *)
LEMMA StopSignalBalance ==
  ASSUME TypeOK, TokenAccounting, StopSignal
  PROVE  TokenAccounting'
<1>1. OwnSignal = 0 /\ OwnSignal' = 1 /\ Token' = Token /\ Accounted
  BY DEF StopSignal, SignalThread, OwnSignal, Token, Accounted, StopPc,
         threadVars
<1>2. inputQ' = inputQ /\ sem' = sem + blocked + 1 /\ blocked' = 0
  BY DEF StopSignal, SignalThread
<1>3. Len(inputQ) \in Nat /\ sem \in Nat /\ blocked \in Nat /\ Token \in Nat
  BY LenProperties DEF TypeOK, Token
<1>4. sem + Token + blocked = Len(inputQ)
  BY <1>1, <1>3 DEF TokenAccounting
<1>5. (sem + blocked + 1) + Token + 0 = Len(inputQ) + 1
  BY <1>3, <1>4
<1> QED
  BY <1>1, <1>2, <1>5 DEF TokenAccounting

(* The balance of signals, jobs and tokens is kept by every step. *)
LEMMA TokenStep == IInv /\ [Next]_vars => TokenAccounting'
<1> SUFFICES ASSUME IInv, [Next]_vars PROVE TokenAccounting'
  OBVIOUS
<1> USE DEF IInv, queueVars, osrVars, edgeVars, threadVars, mainVars,
            TokenAccounting, Accounted, Token, OwnSignal, StopInv, StopPc
<1>1. CASE Script
  <2>1. ASSUME NEW f \in Function,
               \/ Optimize(f) \/ AttemptOnStackReplacement(f)
               \/ CompileOptimized(f) \/ Deoptimize(f)
               \/ TryInstallOptimizedCode(f)
        PROVE  TokenAccounting'
    BY <2>1 DEF Optimize, AttemptOnStackReplacement, CompileOptimized,
                Deoptimize, TryInstallOptimizedCode
  <2>2. ASSUME NEW f \in Function, NEW l \in Loop, OnStackReplacement(f, l)
        PROVE  TokenAccounting'
    BY <2>2 DEF OnStackReplacement, CompileForOnStackReplacement
  <2>3. ASSUME NEW f \in Function, NEW l \in Loop, OsrAfterStackCheck(f, l)
        PROVE  TokenAccounting'
    BY <2>3 DEF OsrAfterStackCheck
  <2>4. CASE CallbackEnter \/ CallbackReturn \/ AgeBufferedOsrJobs
    BY <2>4 DEF CallbackEnter, CallbackReturn, AgeBufferedOsrJobs
  <2>5. CASE Unblock
    BY <2>5 DEF Unblock, TypeOK
  <2>6. CASE FlushBegin \/ StopBegin
    BY <2>6 DEF FlushBegin, StopBegin, ReturnInv, Finishing, FlushPc
  <2> QED
    BY <1>1, <2>1, <2>2, <2>3, <2>4, <2>5, <2>6 DEF Script
<1>2. CASE HandleInterrupts
  BY <1>2 DEF HandleInterrupts
<1>3. CASE Compile
  <2>1. CASE CreateGraphFails \/ FinishRegular \/ FinishOsr
    BY <2>1 DEF CreateGraphFails, FinishRegular, FinishOsr
  <2>2. CASE QueueForOptimization
    <3>1. Len(inputQ') = Len(inputQ) + 1
      BY <2>2, AppendProperties DEF QueueForOptimization, TypeOK
    <3>2. sem' + blocked' = sem + blocked + 1
      BY <2>2 DEF QueueForOptimization, SignalJob, TypeOK
    <3> QED
      BY <2>2, <3>1, <3>2 DEF QueueForOptimization, SignalJob, TypeOK
  <2>3. CASE QueueForOsr
    <3>1. Len(inputQ') = Len(inputQ) + 1
      BY <2>3, ConcatProperties DEF QueueForOsr, TypeOK
    <3>2. sem' + blocked' = sem + blocked + 1
      BY <2>3 DEF QueueForOsr, SignalJob, TypeOK
    <3> QED
      BY <2>3, <3>1, <3>2 DEF QueueForOsr, SignalJob, TypeOK
  <2> QED
    BY <1>3, <2>1, <2>2, <2>3 DEF Compile
<1>4. CASE Continue
  <2>1. CASE OsrAfterInterrupt
    BY <2>1 DEF OsrAfterInterrupt, CompileForOnStackReplacement
  <2>2. CASE InstallNext \/ InstallReturn
    BY <2>2 DEF InstallNext, InstallReturn, ReturnInv, TypeOK
  <2>3. CASE FlushSignal \/ StopSignal
    <3>1. sem' + blocked' = sem + blocked + 1 /\ sem' \in Nat /\ blocked' \in Nat
      BY <2>3 DEF FlushSignal, StopSignal, SignalThread, TypeOK
    <3>2. CASE FlushSignal
      BY <3>1, <3>2 DEF FlushSignal, SignalThread, TypeOK, ReturnInv
    <3>3. CASE StopSignal
      BY <3>3, StopSignalBalance
    <3> QED
      BY <2>3, <3>2, <3>3
  <2>4. CASE FlushWait \/ StopWait
    <3>1. CASE FlushWait
      BY <3>1 DEF FlushWait, AwaitThread, ReturnInv
    <3>2. CASE StopWait
      BY <3>2 DEF StopWait, AwaitThread
    <3> QED
      BY <2>4, <3>1, <3>2
  <2>5. CASE FlushFinish
    BY <2>5 DEF FlushFinish, TypeOK
  <2>6. CASE StopFlushInput
    <3>1. Len(inputQ') = Len(inputQ) - 1 /\ sem' = sem - 1
      BY <2>6, PopTypes DEF StopFlushInput, FlushInput, TypeOK
    <3> QED
      BY <2>6, <3>1 DEF StopFlushInput, TypeOK
  <2>7. CASE StopFlushOutput \/ StopCompileNext \/ StopInstall \/ StopFinish
    BY <2>7 DEF StopFlushOutput, StopCompileNext, StopInstall, StopFinish
  <2> QED
    BY <1>4, <2>1, <2>2, <2>3, <2>4, <2>5, <2>6, <2>7 DEF Continue
<1>5. CASE AddToOsrBufferSpins
  BY <1>5 DEF AddToOsrBufferSpins
<1>6. CASE Thread
  <2>1. CASE ThreadWait \/ ThreadSwitch
    <3>1. CASE ThreadWait
      BY <3>1 DEF ThreadWait, TypeOK
    <3>2. CASE ThreadSwitch
      BY <3>2 DEF ThreadSwitch
    <3> QED
      BY <2>1, <3>1, <3>2
  <2>2. CASE ThreadFlushInput
    <3>1. Len(inputQ') = Len(inputQ) - 1 /\ sem' = sem - 1
      BY <2>2, PopTypes DEF ThreadFlushInput, FlushInput, TypeOK
    <3> QED
      BY <2>2, <3>1 DEF ThreadFlushInput, TypeOK
  <2>3. CASE ThreadFlushed
    <3>1. mpc = "flushWait"
      BY <2>3 DEF ThreadFlushed, TypeOK
    <3> QED
      BY <2>3, <3>1 DEF ThreadFlushed, TypeOK
  <2>4. CASE ThreadNextInput
    <3>1. Len(inputQ') = Len(inputQ) - 1
      BY <2>4, PopTypes DEF ThreadNextInput, TypeOK, CompileNextHasJob
    <3> QED
      BY <2>4, <3>1 DEF ThreadNextInput, TypeOK
  <2>5. CASE ThreadAck \/ ThreadOptimizeGraph \/ ThreadRequestInstallCode
    BY <2>5 DEF ThreadAck, ThreadOptimizeGraph, ThreadRequestInstallCode
  <2> QED
    BY <1>6, <2>1, <2>2, <2>3, <2>4, <2>5 DEF Thread
<1>7. CASE Terminated \/ UNCHANGED vars
  BY <1>7 DEF Terminated, vars
<1> QED
  BY <1>1, <1>2, <1>3, <1>4, <1>5, <1>6, <1>7 DEF Next

(* A thread that was woken for a job still finds one when it takes it. *)
LEMMA JobStep == IInv /\ [Next]_vars => CompileNextHasJob'
<1> SUFFICES ASSUME IInv, [Next]_vars PROVE CompileNextHasJob'
  OBVIOUS
<1> USE DEF IInv, queueVars, osrVars, edgeVars, threadVars, mainVars,
            CompileNextHasJob
<1>1. CASE Script \/ HandleInterrupts \/ AddToOsrBufferSpins
  <2>1. UNCHANGED <<inputQ, tpc, tjob>>
    BY <1>1 DEF Script, Optimize, AttemptOnStackReplacement, CompileOptimized,
                Deoptimize, TryInstallOptimizedCode, OnStackReplacement,
                CompileForOnStackReplacement, OsrAfterStackCheck,
                CallbackEnter, CallbackReturn, AgeBufferedOsrJobs, Unblock,
                FlushBegin, StopBegin, HandleInterrupts, AddToOsrBufferSpins
  <2> QED
    BY <2>1
<1>2. CASE Compile
  <2>1. UNCHANGED threadVars
    BY <1>2 DEF Compile, CreateGraphFails, QueueForOptimization, QueueForOsr,
                FinishRegular, FinishOsr
  <2>2. inputQ # <<>> => inputQ' # <<>>
    <3>1. CASE QueueForOptimization
      BY <3>1, AppendProperties DEF QueueForOptimization, TypeOK
    <3>2. CASE QueueForOsr
      <4> PICK j \in Job : inputQ' = <<j>> \o inputQ
        BY <3>2 DEF QueueForOsr
      <4> QED
        BY ConcatProperties, LenProperties DEF TypeOK
    <3>3. CASE CreateGraphFails \/ FinishRegular \/ FinishOsr
      BY <3>3 DEF CreateGraphFails, FinishRegular, FinishOsr
    <3> QED
      BY <1>2, <3>1, <3>2, <3>3 DEF Compile
  <2> QED
    BY <2>1, <2>2
<1>3. CASE Continue
  <2>1. UNCHANGED threadVars
    BY <1>3 DEF Continue, OsrAfterInterrupt, CompileForOnStackReplacement,
                InstallNext, InstallReturn, FlushSignal, FlushWait,
                StopSignal, StopWait, SignalThread, AwaitThread, FlushFinish,
                StopFlushInput, StopFlushOutput, StopCompileNext, StopInstall,
                StopFinish
  <2>2. inputQ' = inputQ \/ mpc \in {"stopFlush", "stopCompile"}
    BY <1>3 DEF Continue, OsrAfterInterrupt, CompileForOnStackReplacement,
                InstallNext, InstallReturn, FlushSignal, FlushWait,
                StopSignal, StopWait, SignalThread, AwaitThread, FlushFinish,
                StopFlushInput, StopFlushOutput, StopCompileNext, StopInstall,
                StopFinish
  <2> QED
    BY <2>1, <2>2 DEF StopInv
<1>4. CASE Thread
  <2>1. CASE ThreadSwitch
    <3>1. CASE stop = "CONTINUE"
      <4>1. OwnSignal = 0 /\ Token = 1 /\ Accounted
        BY <2>1, <3>1
        DEF ThreadSwitch, OwnSignal, Token, Accounted, StopInv, StopPc
      <4>2. Len(inputQ) > 0
        BY <4>1 DEF TokenAccounting, TypeOK
      <4> QED
        BY <2>1, <4>2 DEF ThreadSwitch
    <3> QED
      BY <2>1, <3>1 DEF ThreadSwitch
  <2>2. CASE ThreadNextInput
    BY <2>2, PopTypes, JobAssumption DEF ThreadNextInput, TypeOK
  <2>3. CASE \/ ThreadWait \/ ThreadFlushInput \/ ThreadFlushed \/ ThreadAck
             \/ ThreadOptimizeGraph \/ ThreadRequestInstallCode
    BY <2>3 DEF ThreadWait, ThreadFlushInput, ThreadFlushed, ThreadAck,
                ThreadOptimizeGraph, ThreadRequestInstallCode
  <2> QED
    BY <1>4, <2>1, <2>2, <2>3 DEF Thread
<1>5. CASE Terminated \/ UNCHANGED vars
  BY <1>5 DEF Terminated, vars
<1> QED
  BY <1>1, <1>2, <1>3, <1>4, <1>5 DEF Next

-----------------------------------------------------------------------------
(* Theorems. *)

(* The inductive invariant holds in every reachable state. *)
LEMMA Inductive == Spec => []IInv
<1>1. Init => IInv
  <2> SUFFICES ASSUME Init PROVE IInv
    OBVIOUS
  <2>1. TypeOK
    <3>1. 0 \in Slot /\ 0 \in 0..MaxNesting /\ Len(<<>>) <= Capacity
      BY CapacityAssumption, LoopAssumption DEF Slot, OsrCapacity
    <3>2. inputQ \in Seq(Job) /\ outputQ \in Seq(Job)
      BY DEF Init
    <3>3. req \in Request /\ suspended \in Request
      BY DEF Init, Request, NoRequest
    <3>4. /\ info \in [Job -> Info \cup {Freed}]
          /\ code \in [Function -> CodeKind]
          /\ edge \in [Loop -> BackEdgeState]
          /\ level \in [Shared -> 0..MaxNesting]
          /\ osrBuf \in [Slot -> Job \cup {NoJob}]
      BY <3>1 DEF Init, CodeKind, BackEdgeState
    <3> QED
      BY <3>1, <3>2, <3>3, <3>4
      DEF Init, TypeOK, StopFlag, ThreadPc, MainPc
  <2>2. RequestInv /\ ReturnInv /\ StopInv
    BY DEF Init, RequestInv, Creating, ReturnInv, StopInv, FlushPc, StopPc
  <2>3. TokenAccounting /\ CompileNextHasJob
    BY DEF Init, TokenAccounting, Token, OwnSignal, StopPc, CompileNextHasJob
  <2> QED
    BY <2>1, <2>2, <2>3 DEF IInv
<1>2. IInv /\ [Next]_vars => IInv'
  BY TypeStep, RequestStep, ReturnStep, StopStep, TokenStep, JobStep DEF IInv
<1> QED
  BY <1>1, <1>2, PTL DEF Spec

(* Whatever the main thread, the compiler thread, Flush, Stop and GCs        *)
(* interleave, the fields keep their types: the input queue never exceeds    *)
(* its capacity (a job is created only after IsQueueAvailable), the cursor   *)
(* stays inside the OSR buffer, the counters never go below zero.            *)
THEOREM TypeCorrect == Spec => []TypeOK
BY Inductive, PTL DEF IInv

(* Every Wait of FlushInputQueue has its signal and no signal is left over:  *)
(* the comment of FlushInputQueue, for every capacity.                       *)
THEOREM SignalsBalanced == Spec => []TokenAccounting
BY Inductive, PTL DEF IInv

(* CompileNext's DCHECK_NE(NULL, job): NextInput has a job whenever the      *)
(* thread asks for one outside a Flush.                                      *)
THEOREM JobForCompileNext == Spec => []CompileNextHasJob
BY Inductive, PTL DEF IInv
=============================================================================
