------------------------- MODULE JobOwnershipProofs -------------------------
(***************************************************************************)
(* Proofs about who owns the jobs of concurrent recompilation, for every   *)
(* number of jobs, functions and loops, every capacity of the queue and of *)
(* the OSR buffer, and every combination of the flags: no job is used      *)
(* after its disposal, disposed of twice or left behind, finished code is  *)
(* announced, Flush and Stop leave nothing, and the whole pipeline         *)
(* implements the abstract set of jobs of RecompilationJobs.               *)
(***************************************************************************)
EXTENDS OptimizingCompilerThreadProofs, WellFoundedInduction

Distinct(q) == \A i, k \in 1..Len(q) : q[i] = q[k] => i = k

(* The jobs on their way from QueueForOptimization to the install loop. *)
Pipeline == (Elements(inputQ) \cup Elements(outputQ) \cup {tjob}) \ {NoJob}

(* Ownership: a job is at one place of the pipeline and in one slot of the   *)
(* OSR buffer; an OSR job stays in the buffer as long as the pipeline has    *)
(* it, and only then is it not ready; nobody holds a deleted job and nobody  *)
(* forgets a live one.                                                       *)
OwnInv ==
  /\ Distinct(inputQ) /\ Distinct(outputQ)
  /\ Elements(inputQ) \cap Elements(outputQ) = {}
  /\ tjob \notin Elements(inputQ) \cup Elements(outputQ)
  /\ \A i, k \in Slot : osrBuf[i] = osrBuf[k] /\ osrBuf[i] # NoJob => i = k
  /\ mjob \notin Pipeline \cup Buffered
  /\ \A j \in Pipeline : ~Waiting(j) /\ (IsOsr(j) => j \in Buffered)
  /\ \A j \in Buffered : IsOsr(j)
  /\ HeldIsLive

(* The main thread holds a job exactly while it finishes it; an OSR job it   *)
(* took out of the buffer was ready.                                         *)
HoldInv ==
  /\ mjob # NoJob => Finishing \/ mpc = "spin"
  /\ Finishing => mjob # NoJob /\ (IsOsr(mjob) => Waiting(mjob))

(* What Flush and Stop may rely on once the thread has answered: the input   *)
(* queue is drained and the thread holds no job.                             *)
DrainInv ==
  /\ tpc = "exited" =>
       /\ stop # "CONTINUE"
       /\ stopSem > 0 => stopSem = 1 /\ mpc \in {"stopSignal", "stopWait"}
  /\ mpc = "flushOut" \/ (mpc = "flushWait" /\ stop = "CONTINUE")
       => inputQ = <<>> /\ tpc \in {"wait", "ack"}
  /\ iret = "stopOsr" => inputQ = <<>>
  /\ mpc \in {"stopOsr", "stopped"} => inputQ = <<>> /\ outputQ = <<>>
  /\ mpc = "stopped" => Buffered = {}

(* The inductive invariant of ownership, on top of that of the signals. *)
JInv == IInv /\ OwnInv /\ HoldInv /\ DrainInv

-----------------------------------------------------------------------------
(* Queues as sets of distinct jobs. *)

(* An empty queue holds nothing. *)
LEMMA EmptyElements == Elements(<<>>) = {} /\ Distinct(<<>>)
BY DEF Elements, Distinct

(* Taking the first job out of a queue. *)
LEMMA PopElements ==
  ASSUME NEW q \in Seq(Job), q # <<>>
  PROVE  /\ Elements(q) = {Head(q)} \cup Elements(Tail(q))
         /\ Distinct(q) => Distinct(Tail(q)) /\ Head(q) \notin Elements(Tail(q))
<1>1. /\ Head(q) = q[1] /\ Tail(q) \in Seq(Job) /\ Len(q) \in Nat /\ Len(q) > 0
      /\ Len(Tail(q)) = Len(q) - 1
      /\ \A i \in 1 .. Len(q) - 1 : Tail(q)[i] = q[i + 1]
  BY HeadTailProperties, LenProperties
<1>2. \A i \in 1..Len(q) : i = 1 \/ (i - 1 \in 1 .. Len(q) - 1 /\ (i - 1) + 1 = i)
  BY <1>1
<1>3. \A i \in 1 .. Len(q) - 1 : i + 1 \in 1..Len(q)
  BY <1>1
<1>4. Elements(q) \subseteq {Head(q)} \cup Elements(Tail(q))
  BY <1>1, <1>2 DEF Elements
<1>5. Elements(Tail(q)) \subseteq Elements(q) /\ Head(q) \in Elements(q)
  BY <1>1, <1>3 DEF Elements
<1>6. ASSUME Distinct(q)
      PROVE  Distinct(Tail(q)) /\ Head(q) \notin Elements(Tail(q))
  BY <1>1, <1>3, <1>6 DEF Distinct, Elements
<1> QED
  BY <1>4, <1>5, <1>6

(* Adding a job at the back. *)
LEMMA AppendElements ==
  ASSUME NEW q \in Seq(Job), NEW j \in Job
  PROVE  /\ Elements(Append(q, j)) = Elements(q) \cup {j}
         /\ Distinct(q) /\ j \notin Elements(q) => Distinct(Append(q, j))
<1>1. /\ Len(q) \in Nat
      /\ Len(Append(q, j)) = Len(q) + 1
      /\ \A i \in 1..Len(q) : Append(q, j)[i] = q[i]
      /\ Append(q, j)[Len(q) + 1] = j
  BY AppendProperties, LenProperties
<1>2. \A i \in 1 .. Len(q) + 1 : i \in 1..Len(q) \/ i = Len(q) + 1
  BY <1>1
<1>3. /\ Len(q) + 1 \in 1 .. Len(q) + 1
      /\ \A i \in 1..Len(q) : i \in 1 .. Len(q) + 1
  BY <1>1
<1> QED
  BY <1>1, <1>2, <1>3 DEF Elements, Distinct

(* Adding a job at the front. *)
LEMMA ConsElements ==
  ASSUME NEW q \in Seq(Job), NEW j \in Job
  PROVE  /\ Elements(<<j>> \o q) = Elements(q) \cup {j}
         /\ Distinct(q) /\ j \notin Elements(q) => Distinct(<<j>> \o q)
<1>1. /\ Len(q) \in Nat
      /\ Len(<<j>> \o q) = Len(q) + 1
      /\ (<<j>> \o q)[1] = j
      /\ \A i \in 1..Len(q) : (<<j>> \o q)[i + 1] = q[i]
  BY ConcatProperties, LenProperties
<1>2. \A i \in 1 .. Len(q) + 1 : i = 1 \/ (i - 1 \in 1..Len(q) /\ (i - 1) + 1 = i)
  BY <1>1
<1>3. Elements(<<j>> \o q) \subseteq Elements(q) \cup {j}
  BY <1>1, <1>2 DEF Elements
<1>4. ASSUME NEW i \in 1..Len(q) PROVE q[i] \in Elements(<<j>> \o q)
  <2>1. i + 1 \in 1 .. Len(<<j>> \o q) /\ q[i] = (<<j>> \o q)[i + 1]
    BY <1>1
  <2> QED
    BY <2>1 DEF Elements
<1>5. j \in Elements(<<j>> \o q)
  <2>1. 1 \in 1 .. Len(<<j>> \o q)
    BY <1>1
  <2> QED
    BY <1>1, <2>1 DEF Elements
<1>6. Elements(q) \subseteq Elements(<<j>> \o q)
  BY <1>4 DEF Elements
<1>7. ASSUME Distinct(q), j \notin Elements(q) PROVE Distinct(<<j>> \o q)
  BY <1>1, <1>2, <1>7 DEF Elements, Distinct
<1> QED
  BY <1>3, <1>5, <1>6, <1>7

(* The jobs of the queues, the buffer and the threads are jobs. *)
LEMMA HeldAreJobs ==
  ASSUME TypeOK
  PROVE  /\ Elements(inputQ) \subseteq Job /\ Elements(outputQ) \subseteq Job
         /\ Buffered \subseteq Job /\ Pipeline \subseteq Job
         /\ NoJob \notin Elements(inputQ) \cup Elements(outputQ) \cup Buffered
BY JobAssumption DEF TypeOK, Elements, Buffered, Pipeline

(* delete info, for a set of jobs. *)
LEMMA DeleteLive ==
  ASSUME TypeOK, NEW S, Delete(S)
  PROVE  /\ Live' = Live \ S
         /\ \A j \in Job \ S : IsOsr(j)' = IsOsr(j) /\ Waiting(j)' = Waiting(j)
BY FreedFields DEF TypeOK, Delete, Live, IsOsr, Waiting

(* A slot of the OSR buffer is filled or emptied. *)
LEMMA BufferedExcept ==
  ASSUME TypeOK, OwnInv, NEW i \in Slot, NEW x \in Job \cup {NoJob},
         osrBuf' = [osrBuf EXCEPT ![i] = x], x \notin Buffered
  PROVE  /\ Buffered' = (Buffered \ {osrBuf[i]}) \cup ({x} \ {NoJob})
         /\ \A m, k \in Slot :
              osrBuf'[m] = osrBuf'[k] /\ osrBuf'[m] # NoJob => m = k
<1>1. \A k \in Slot : osrBuf'[k] = IF k = i THEN x ELSE osrBuf[k]
  BY DEF TypeOK
<1>2. \A k \in Slot : osrBuf[k] # NoJob => osrBuf[k] \in Buffered
  BY DEF Buffered
<1>3. \A m, k \in Slot :
        osrBuf'[m] = osrBuf'[k] /\ osrBuf'[m] # NoJob => m = k
  BY <1>1, <1>2 DEF OwnInv
<1>4. Buffered' \subseteq (Buffered \ {osrBuf[i]}) \cup ({x} \ {NoJob})
  BY <1>1, <1>2 DEF OwnInv, Buffered
<1>5. (Buffered \ {osrBuf[i]}) \cup ({x} \ {NoJob}) \subseteq Buffered'
  BY <1>1 DEF Buffered
<1> QED
  BY <1>3, <1>4, <1>5

-----------------------------------------------------------------------------
(* Ownership is kept, action by action. *)

(* A step that leaves the jobs and everything that refers to them alone. *)
LEMMA OwnUnchanged ==
  ASSUME OwnInv, UNCHANGED <<inputQ, outputQ, tjob, osrBuf, mjob, info>>
  PROVE  OwnInv'
BY DEF OwnInv, Pipeline, Buffered, Waiting, IsOsr, HeldIsLive, Held, Live

(* FindReadyOSRCandidate hands a ready job over to the main thread. *)
LEMMA OwnCompileForOsr ==
  ASSUME JInv, NEW f, NEW l, mpc \in {"run", "osr"},
         CompileForOnStackReplacement(f, l)
  PROVE  OwnInv'
<1> USE DEF JInv, IInv, queueVars, threadVars
<1>1. UNCHANGED <<inputQ, outputQ, tjob, info>>
  BY DEF CompileForOnStackReplacement
<1>2. CASE UNCHANGED <<osrBuf, mjob>>
  BY <1>1, <1>2, OwnUnchanged
<1>3. CASE ~UNCHANGED <<osrBuf, mjob>>
  <2> PICK i \in Slot : /\ IsReadyCandidate(i, f, l)
                        /\ mjob' = osrBuf[i]
                        /\ osrBuf' = [osrBuf EXCEPT ![i] = NoJob]
    BY <1>3 DEF CompileForOnStackReplacement
  <2>1. osrBuf[i] \in Buffered /\ Waiting(osrBuf[i])
    BY DEF IsReadyCandidate, IsFirst, SameOsrEntry, Buffered
  <2>2. mjob = NoJob
    BY DEF HoldInv, Finishing, FlushPc
  <2>3. /\ Buffered' = Buffered \ {osrBuf[i]}
        /\ \A m, k \in Slot :
             osrBuf'[m] = osrBuf'[k] /\ osrBuf'[m] # NoJob => m = k
    BY HeldAreJobs, BufferedExcept
  <2>4. Pipeline' = Pipeline /\ osrBuf[i] \notin Pipeline
    BY <1>1, <2>1 DEF Pipeline, OwnInv
  <2>5. \A j \in Job : IsOsr(j)' = IsOsr(j) /\ Waiting(j)' = Waiting(j)
    BY <1>1 DEF IsOsr, Waiting
  <2>6. Live' = Live
    BY <1>1 DEF Live
  <2>7. Held' = Held
    BY <1>1, <2>1, <2>2, <2>3, HeldAreJobs DEF Held
  <2> QED
    BY <1>1, <2>1, <2>3, <2>4, <2>5, <2>6, <2>7, HeldAreJobs
    DEF OwnInv, HeldIsLive
<1> QED
  BY <1>2, <1>3

(* QueueForOptimization of a regular job. *)
LEMMA OwnQueueForOptimization ==
  ASSUME JInv, QueueForOptimization
  PROVE  OwnInv'
<1> USE DEF JInv, IInv, threadVars, osrVars
<1> PICK j \in Job \ Live :
      /\ info' = [info EXCEPT ![j] = [closure |-> req.fn, osr |-> NoLoop,
                                      waiting |-> FALSE]]
      /\ inputQ' = Append(inputQ, j)
  BY DEF QueueForOptimization
<1>1. req.fn \in Function /\ req.fn # NoFunction
  BY FunctionAssumption DEF QueueForOptimization, RequestInv, Creating
<1>2. UNCHANGED <<outputQ, tjob, osrBuf, mjob>>
  BY DEF QueueForOptimization
<1>3. j \notin Held
  BY DEF OwnInv, HeldIsLive
<1>4. /\ Elements(inputQ') = Elements(inputQ) \cup {j}
      /\ Distinct(inputQ')
  BY <1>3, AppendElements, JobAssumption DEF TypeOK, OwnInv, Held
<1>5. /\ Live' = Live \cup {j} /\ ~IsOsr(j)' /\ ~Waiting(j)'
      /\ \A k \in Job \ {j} :
           IsOsr(k)' = IsOsr(k) /\ Waiting(k)' = Waiting(k)
  BY <1>1 DEF TypeOK, Live, IsOsr, Waiting
<1>6. Buffered' = Buffered /\ Pipeline' = Pipeline \cup {j}
  BY <1>2, <1>4, JobAssumption DEF Buffered, Pipeline
<1>7. Held' = Held \cup {j}
  BY <1>2, <1>4, <1>6, JobAssumption DEF Held
<1>8. j \notin Pipeline \cup Buffered \cup Elements(outputQ) \cup {tjob, mjob}
  BY <1>3, JobAssumption, HeldAreJobs DEF Held, Pipeline
<1> QED
  BY <1>2, <1>4, <1>5, <1>6, <1>7, <1>8, HeldAreJobs DEF OwnInv, HeldIsLive

(* QueueForOptimization of an OSR job: the job it evicts was ready, so the   *)
(* pipeline does not have it.                                                *)
LEMMA OwnQueueForOsr ==
  ASSUME JInv, QueueForOsr
  PROVE  OwnInv'
<1> USE DEF JInv, IInv, threadVars, osrVars
<1> PICK i \in Slot, j \in Job \ Live :
      /\ IsFound(i)
      /\ osrBuf' = [osrBuf EXCEPT ![i] = j]
      /\ info' = [k \in Job |->
                    IF k = j THEN [closure |-> req.fn, osr |-> req.loop,
                                   waiting |-> FALSE]
                    ELSE IF k = osrBuf[i] THEN Freed ELSE info[k]]
      /\ inputQ' = <<j>> \o inputQ
  BY DEF QueueForOsr
<1> DEFINE old == osrBuf[i]
<1>1. req.fn # NoFunction /\ req.loop # NoLoop
  BY FunctionAssumption DEF QueueForOsr, RequestInv, Creating
<1>2. UNCHANGED <<outputQ, tjob, mjob>>
  BY DEF QueueForOsr
<1>3. j \notin Held
  BY DEF OwnInv, HeldIsLive
<1>4. /\ Elements(inputQ') = Elements(inputQ) \cup {j}
      /\ Distinct(inputQ')
  BY <1>3, ConsElements, JobAssumption DEF TypeOK, OwnInv, Held
<1>5. j \notin Pipeline \cup Buffered \cup Elements(inputQ)
                 \cup Elements(outputQ) \cup {tjob, mjob}
  BY <1>3, JobAssumption, HeldAreJobs DEF Held, Pipeline
<1>6. old # NoJob => old \in Buffered /\ Waiting(old)
  BY DEF IsFound, Reusable, Buffered
<1>7. old \notin Pipeline /\ (old = mjob => old = NoJob) /\ old # j
  <2>1. CASE old = NoJob
    BY <2>1, JobAssumption DEF Pipeline
  <2>2. CASE old # NoJob
    BY <1>5, <1>6, <2>2 DEF OwnInv
  <2> QED
    BY <2>1, <2>2
<1>8. /\ Buffered' = (Buffered \ {old}) \cup {j}
      /\ \A m, k \in Slot :
           osrBuf'[m] = osrBuf'[k] /\ osrBuf'[m] # NoJob => m = k
  BY <1>5, BufferedExcept, JobAssumption
<1>9. /\ Live' = (Live \ {old}) \cup {j} /\ IsOsr(j)' /\ ~Waiting(j)'
      /\ \A k \in Job \ {j, old} :
           IsOsr(k)' = IsOsr(k) /\ Waiting(k)' = Waiting(k)
  BY <1>1, <1>7, FreedFields DEF TypeOK, Live, IsOsr, Waiting
<1>10. Pipeline' = Pipeline \cup {j}
  BY <1>2, <1>4, JobAssumption DEF Pipeline
<1>11. Held' = (Held \ {old}) \cup {j}
  <2>1. Held = (Pipeline \cup Buffered \cup {mjob}) \ {NoJob}
    BY DEF Held, Pipeline
  <2>2. Held' = (Pipeline' \cup Buffered' \cup {mjob'}) \ {NoJob}
    BY DEF Held, Pipeline
  <2> QED
    BY <1>2, <1>5, <1>7, <1>8, <1>10, <2>1, <2>2, JobAssumption
<1>12. \A k \in Pipeline' : ~Waiting(k)' /\ (IsOsr(k)' => k \in Buffered')
  BY <1>7, <1>8, <1>9, <1>10, HeldAreJobs DEF OwnInv
<1>13. \A k \in Buffered' : IsOsr(k)'
  BY <1>8, <1>9, HeldAreJobs DEF OwnInv
<1> QED
  BY <1>2, <1>4, <1>5, <1>8, <1>9, <1>10, <1>11, <1>12, <1>13
  DEF OwnInv, HeldIsLive

(* AgeBufferedOsrJobs disposes of a ready job, or of none. *)
LEMMA OwnAge ==
  ASSUME JInv, AgeBufferedOsrJobs
  PROVE  OwnInv'
<1> USE DEF JInv, IInv, queueVars, threadVars, mainVars
<1> PICK i \in Slot : /\ IsFound(i)
                      /\ osrBuf' = [osrBuf EXCEPT ![i] = NoJob]
                      /\ Delete({osrBuf[i]})
  BY DEF AgeBufferedOsrJobs
<1> DEFINE old == osrBuf[i]
<1>1. UNCHANGED <<inputQ, outputQ, tjob, mjob>>
  BY DEF AgeBufferedOsrJobs
<1>2. old # NoJob => old \in Buffered /\ Waiting(old)
  BY DEF IsFound, Reusable, Buffered
<1>3. old \notin Pipeline /\ (old = mjob => old = NoJob)
  <2>1. CASE old = NoJob
    BY <2>1, JobAssumption DEF Pipeline
  <2>2. CASE old # NoJob
    BY <1>2, <2>2 DEF OwnInv
  <2> QED
    BY <2>1, <2>2
<1>4. /\ Buffered' = Buffered \ {old}
      /\ \A m, k \in Slot :
           osrBuf'[m] = osrBuf'[k] /\ osrBuf'[m] # NoJob => m = k
  <2>1. NoJob \notin Buffered
    BY DEF Buffered
  <2> HIDE DEF old
  <2>2. /\ Buffered' = (Buffered \ {osrBuf[i]}) \cup ({NoJob} \ {NoJob})
        /\ \A m, k \in Slot :
             osrBuf'[m] = osrBuf'[k] /\ osrBuf'[m] # NoJob => m = k
    BY <2>1, BufferedExcept
  <2> QED
    BY <2>2 DEF old
<1>5. /\ Live' = Live \ {old}
      /\ \A k \in Job \ {old} :
           IsOsr(k)' = IsOsr(k) /\ Waiting(k)' = Waiting(k)
  BY DeleteLive
<1>6. Pipeline' = Pipeline
  BY <1>1 DEF Pipeline
<1>7. Held' = Held \ {old}
  <2>1. /\ Held = (Pipeline \cup Buffered \cup {mjob}) \ {NoJob}
        /\ Held' = (Pipeline' \cup Buffered' \cup {mjob'}) \ {NoJob}
    BY DEF Held, Pipeline
  <2> QED
    BY <1>1, <1>3, <1>4, <1>6, <2>1
<1> QED
  BY <1>1, <1>3, <1>4, <1>5, <1>6, <1>7, HeldAreJobs DEF OwnInv, HeldIsLive

(* One iteration of InstallOptimizedFunctions. *)
LEMMA OwnInstallNext ==
  ASSUME JInv, InstallNext
  PROVE  OwnInv'
<1> USE DEF JInv, IInv, queueVars, threadVars, osrVars
<1> DEFINE j == Head(outputQ)
<1>1. UNCHANGED <<inputQ, tjob, osrBuf>> /\ Buffered' = Buffered
  BY DEF InstallNext, Buffered
<1>2. /\ j \in Job /\ j # NoJob
      /\ Elements(outputQ) = {j} \cup Elements(outputQ')
      /\ Distinct(outputQ') /\ j \notin Elements(outputQ')
  BY PopTypes, PopElements, JobAssumption DEF InstallNext, TypeOK, OwnInv
<1>3. mjob = NoJob
  BY DEF InstallNext, HoldInv, Finishing, FlushPc
<1>4. Pipeline' = Pipeline \ {j} /\ j \in Pipeline /\ j # tjob
  BY <1>1, <1>2 DEF Pipeline, OwnInv
<1>5. /\ Held = (Pipeline \cup Buffered \cup {mjob}) \ {NoJob}
      /\ Held' = (Pipeline' \cup Buffered' \cup {mjob'}) \ {NoJob}
  BY DEF Held, Pipeline
<1>6. CASE IsOsr(j) /\ info' = [info EXCEPT ![j].waiting = TRUE] /\ mjob' = mjob
  <2>1. /\ Live' = Live
        /\ \A k \in Job : IsOsr(k)' = IsOsr(k)
        /\ \A k \in Job \ {j} : Waiting(k)' = Waiting(k)
    BY <1>2, <1>6, FreedFields DEF TypeOK, Live, IsOsr, Waiting, Info
  <2>2. Held' = Held
    BY <1>1, <1>4, <1>5, <1>6 DEF OwnInv
  <2> QED
    BY <1>1, <1>2, <1>3, <1>4, <1>6, <2>1, <2>2, HeldAreJobs
    DEF OwnInv, HeldIsLive
<1>7. CASE ~IsOsr(j) /\ Delete({j}) /\ mjob' = mjob
  <2>1. /\ Live' = Live \ {j}
        /\ \A k \in Job \ {j} :
             IsOsr(k)' = IsOsr(k) /\ Waiting(k)' = Waiting(k)
    BY <1>7, DeleteLive
  <2>2. j \notin Buffered
    BY <1>7 DEF OwnInv
  <2>3. Held' = Held \ {j}
    BY <1>1, <1>2, <1>3, <1>4, <1>5, <1>7, <2>2
  <2> QED
    BY <1>1, <1>2, <1>3, <1>4, <1>7, <2>1, <2>2, <2>3, HeldAreJobs
    DEF OwnInv, HeldIsLive
<1>8. CASE ~IsOsr(j) /\ info' = info /\ mjob' = j
  <2>1. /\ Live' = Live
        /\ \A k \in Job : IsOsr(k)' = IsOsr(k) /\ Waiting(k)' = Waiting(k)
    BY <1>8 DEF Live, IsOsr, Waiting
  <2>2. j \notin Buffered
    BY <1>8 DEF OwnInv
  <2>3. Held' = Held
    BY <1>1, <1>2, <1>3, <1>4, <1>5, <1>8
  <2> QED
    BY <1>1, <1>2, <1>4, <1>8, <2>1, <2>2, <2>3, HeldAreJobs
    DEF OwnInv, HeldIsLive
<1> QED
  BY <1>6, <1>7, <1>8 DEF InstallNext

(* The job the main thread has finished is disposed of. *)
LEMMA OwnFinish ==
  ASSUME JInv, FinishRegular \/ FinishOsr
  PROVE  OwnInv'
<1> USE DEF JInv, IInv, queueVars, threadVars, osrVars
<1>1. /\ UNCHANGED <<inputQ, outputQ, tjob, osrBuf>>
      /\ Delete({mjob}) /\ mjob' = NoJob
  BY DEF FinishRegular, FinishOsr
<1>2. Buffered' = Buffered /\ Pipeline' = Pipeline
  BY <1>1 DEF Buffered, Pipeline
<1>3. /\ Live' = Live \ {mjob}
      /\ \A k \in Job \ {mjob} :
           IsOsr(k)' = IsOsr(k) /\ Waiting(k)' = Waiting(k)
  BY <1>1, DeleteLive
<1>4. Held' = Held \ {mjob}
  <2>1. /\ Held = (Pipeline \cup Buffered \cup {mjob}) \ {NoJob}
        /\ Held' = (Pipeline' \cup Buffered' \cup {mjob'}) \ {NoJob}
    BY DEF Held, Pipeline
  <2> QED
    BY <1>1, <1>2, <2>1 DEF OwnInv
<1>5. NoJob \notin Pipeline \cup Buffered
  BY DEF Pipeline, Buffered
<1> QED
  BY <1>1, <1>2, <1>3, <1>4, <1>5, HeldAreJobs DEF OwnInv, HeldIsLive

(* FlushInputQueue disposes of regular jobs only: an OSR job is left to the  *)
(* flush of the buffer, which still has it.                                  *)
LEMMA OwnFlushInput ==
  ASSUME JInv, NEW restore, FlushInput(restore),
         UNCHANGED <<outputQ, tjob, osrBuf, mjob>>
  PROVE  OwnInv'
<1> USE DEF JInv, IInv
<1> DEFINE j == Head(inputQ)
<1>1. inputQ # <<>> /\ inputQ' = Tail(inputQ) /\ Delete(Regular({j}))
  BY DEF FlushInput
<1>2. /\ j \in Job /\ j # NoJob
      /\ Elements(inputQ) = {j} \cup Elements(inputQ')
      /\ Distinct(inputQ') /\ j \notin Elements(inputQ')
  BY <1>1, PopTypes, PopElements, JobAssumption DEF TypeOK, OwnInv
<1>3. Buffered' = Buffered
  BY DEF Buffered
<1>4. Pipeline' = Pipeline \ {j} /\ j \in Pipeline /\ j # tjob
  BY <1>2 DEF Pipeline, OwnInv
<1>5. /\ Live' = Live \ Regular({j})
      /\ \A k \in Job \ Regular({j}) :
           IsOsr(k)' = IsOsr(k) /\ Waiting(k)' = Waiting(k)
  BY <1>1, DeleteLive
<1>6. Regular({j}) = IF IsOsr(j) THEN {} ELSE {j}
  BY DEF Regular
<1>7. Held' = Held \ Regular({j})
  <2>1. /\ Held = (Pipeline \cup Buffered \cup {mjob}) \ {NoJob}
        /\ Held' = (Pipeline' \cup Buffered' \cup {mjob'}) \ {NoJob}
    BY DEF Held, Pipeline
  <2>2. j # mjob /\ (IsOsr(j) <=> j \in Buffered)
    BY <1>4 DEF OwnInv
  <2> QED
    BY <1>3, <1>4, <1>6, <2>1, <2>2
<1>8. \A k \in Pipeline' \cup Buffered' : k \notin Regular({j}) /\ k \in Job
  BY <1>3, <1>4, <1>6, HeldAreJobs DEF OwnInv
<1> QED
  BY <1>2, <1>3, <1>4, <1>5, <1>7, <1>8 DEF OwnInv, HeldIsLive

(* The flush of the output queue and of the buffer, when the input queue is  *)
(* empty and the thread holds no job: nothing but the job of the main thread *)
(* is left.                                                                  *)
LEMMA OwnFlushAll ==
  ASSUME JInv, inputQ = <<>>, tjob = NoJob,
         Delete(Regular(Elements(outputQ)) \cup Buffered),
         outputQ' = <<>>, osrBuf' = [i \in Slot |-> NoJob],
         UNCHANGED <<inputQ, tjob, mjob>>
  PROVE  OwnInv' /\ Held' = {mjob} \ {NoJob} /\ Buffered' = {}
<1> USE DEF JInv, IInv
<1> DEFINE S == Regular(Elements(outputQ)) \cup Buffered
<1>1. Elements(inputQ) = {} /\ Elements(inputQ') = {} /\ Elements(outputQ') = {}
  BY EmptyElements
<1>2. Buffered' = {} /\ Pipeline' = {} /\ Held' = {mjob} \ {NoJob}
  BY <1>1 DEF Buffered, Pipeline, Held
<1>3. Pipeline = Elements(outputQ) /\ Held = (Pipeline \cup Buffered \cup {mjob}) \ {NoJob}
  BY <1>1, HeldAreJobs DEF Pipeline, Held
<1>4. Pipeline \subseteq S
  BY <1>3 DEF OwnInv, Regular
<1>5. S \subseteq Pipeline \cup Buffered
  BY <1>3 DEF Regular
<1>6. Live' = Live \ S
  BY DeleteLive
<1>7. HeldIsLive'
  BY <1>2, <1>3, <1>4, <1>5, <1>6 DEF HeldIsLive, OwnInv
<1>8. \A i, k \in Slot : osrBuf'[i] = osrBuf'[k] /\ osrBuf'[i] # NoJob => i = k
  OBVIOUS
<1> QED
  BY <1>1, <1>2, <1>7, <1>8, EmptyElements DEF OwnInv

(* Stop with a delay moves a job from the input to the output queue. *)
LEMMA OwnStopCompileNext ==
  ASSUME JInv, StopCompileNext
  PROVE  OwnInv'
<1> USE DEF JInv, IInv, threadVars, osrVars, mainVars
<1> DEFINE j == Head(inputQ)
<1>1. UNCHANGED <<tjob, osrBuf, mjob, info>> /\ Buffered' = Buffered
  BY DEF StopCompileNext, Buffered
<1>2. /\ j \in Job /\ j # NoJob
      /\ Elements(inputQ) = {j} \cup Elements(inputQ')
      /\ Distinct(inputQ') /\ j \notin Elements(inputQ')
  BY PopTypes, PopElements, JobAssumption DEF StopCompileNext, TypeOK, OwnInv
<1>3. /\ Elements(outputQ') = Elements(outputQ) \cup {j}
      /\ Distinct(outputQ')
  BY <1>2, AppendElements DEF StopCompileNext, TypeOK, OwnInv
<1>4. Pipeline' = Pipeline
  BY <1>1, <1>2, <1>3 DEF Pipeline
<1>5. Live' = Live /\ Held' = Held
  BY <1>1, <1>2, <1>3 DEF Live, Held
<1>6. \A k \in Job : IsOsr(k)' = IsOsr(k) /\ Waiting(k)' = Waiting(k)
  BY <1>1 DEF IsOsr, Waiting
<1> QED
  BY <1>1, <1>2, <1>3, <1>4, <1>5, <1>6, HeldAreJobs DEF OwnInv, HeldIsLive

(* NextInput hands a job to the thread, Enqueue takes it from there. *)
LEMMA OwnThread ==
  ASSUME JInv, ThreadNextInput \/ ThreadOptimizeGraph
  PROVE  OwnInv'
<1> USE DEF JInv, IInv, threadVars, osrVars, mainVars
<1>1. UNCHANGED <<osrBuf, mjob, info>> /\ Buffered' = Buffered
  BY DEF ThreadNextInput, ThreadOptimizeGraph, Buffered
<1>2. \A k \in Job : IsOsr(k)' = IsOsr(k) /\ Waiting(k)' = Waiting(k)
  BY <1>1 DEF IsOsr, Waiting
<1>3. CASE ThreadNextInput
  <2> DEFINE j == Head(inputQ)
  <2>1. tjob = NoJob /\ tjob' = j /\ inputQ # <<>> /\ inputQ' = Tail(inputQ)
    BY <1>3 DEF ThreadNextInput, CompileNextHasJob
  <2>2. /\ j \in Job /\ j # NoJob
        /\ Elements(inputQ) = {j} \cup Elements(inputQ')
        /\ Distinct(inputQ') /\ j \notin Elements(inputQ')
    BY <2>1, PopTypes, PopElements, JobAssumption DEF TypeOK, OwnInv
  <2>3. outputQ' = outputQ
    BY <1>3 DEF ThreadNextInput
  <2>4. Pipeline' = Pipeline
    BY <2>1, <2>2, <2>3 DEF Pipeline
  <2>5. Live' = Live /\ Held' = Held
    BY <1>1, <2>1, <2>2, <2>3 DEF Live, Held
  <2> QED
    BY <1>1, <1>2, <2>1, <2>2, <2>3, <2>4, <2>5, HeldAreJobs
    DEF OwnInv, HeldIsLive
<1>4. CASE ThreadOptimizeGraph
  <2>1. tjob \in Job /\ tjob # NoJob /\ tjob' = NoJob /\ inputQ' = inputQ
    BY <1>4, JobAssumption DEF ThreadOptimizeGraph, CompileNextHasJob, TypeOK
  <2>2. /\ Elements(outputQ') = Elements(outputQ) \cup {tjob}
        /\ Distinct(outputQ')
    BY <1>4, <2>1, AppendElements DEF ThreadOptimizeGraph, TypeOK, OwnInv
  <2>3. Pipeline' = Pipeline
    BY <2>1, <2>2 DEF Pipeline
  <2>4. Live' = Live /\ Held' = Held
    BY <1>1, <2>1, <2>2 DEF Live, Held
  <2> QED
    BY <1>1, <1>2, <2>1, <2>2, <2>3, <2>4, HeldAreJobs
    DEF OwnInv, HeldIsLive
<1> QED
  BY <1>3, <1>4

(* When the delayed jobs are installed only the buffer is left to Stop. *)
LEMMA OwnStopFinish ==
  ASSUME JInv, StopFinish
  PROVE  OwnInv' /\ Held' = {} /\ Buffered' = {}
<1> USE DEF JInv, IInv, threadVars, queueVars
<1>1. inputQ = <<>> /\ outputQ = <<>> /\ tpc = "exited"
  BY DEF StopFinish, DrainInv, StopInv
<1>2. tjob = NoJob /\ mjob = NoJob
  BY <1>1 DEF StopFinish, CompileNextHasJob, HoldInv, Finishing, FlushPc
<1>3. Regular(Elements(outputQ)) = {}
  BY <1>1, EmptyElements DEF Regular
<1>4. Delete(Regular(Elements(outputQ)) \cup Buffered)
  BY <1>3 DEF StopFinish
<1>5. /\ outputQ' = <<>> /\ osrBuf' = [i \in Slot |-> NoJob]
      /\ UNCHANGED <<inputQ, tjob, mjob>>
  BY <1>1 DEF StopFinish
<1> QED
  BY <1>1, <1>2, <1>4, <1>5, OwnFlushAll

(* Every step keeps ownership. *)
LEMMA OwnStep == JInv /\ [Next]_vars => OwnInv'
<1> SUFFICES ASSUME JInv, [Next]_vars PROVE OwnInv'
  OBVIOUS
<1> DEFINE same == UNCHANGED <<inputQ, outputQ, tjob, osrBuf, mjob, info>>
<1>0. same => OwnInv'
  BY OwnUnchanged DEF JInv
<1> USE DEF queueVars, osrVars, edgeVars, threadVars, mainVars
<1>1. CASE Script
  <2>1. ASSUME NEW f \in Function,
               \/ Optimize(f) \/ AttemptOnStackReplacement(f)
               \/ CompileOptimized(f) \/ Deoptimize(f)
               \/ TryInstallOptimizedCode(f)
        PROVE  same
    BY <2>1 DEF Optimize, AttemptOnStackReplacement, CompileOptimized,
                Deoptimize, TryInstallOptimizedCode
  <2>2. ASSUME NEW f \in Function, NEW l \in Loop, OnStackReplacement(f, l)
        PROVE  OwnInv'
    BY <2>2, OwnCompileForOsr DEF OnStackReplacement
  <2>3. ASSUME NEW f \in Function, NEW l \in Loop, OsrAfterStackCheck(f, l)
        PROVE  same
    BY <2>3 DEF OsrAfterStackCheck
  <2>4. CASE \/ CallbackEnter \/ CallbackReturn \/ Unblock \/ FlushBegin
             \/ StopBegin
    <3>1. same
      BY <2>4 DEF CallbackEnter, CallbackReturn, Unblock, FlushBegin, StopBegin
    <3> QED
      BY <1>0, <3>1
  <2>5. CASE AgeBufferedOsrJobs
    BY <2>5, OwnAge
  <2> QED
    BY <1>0, <1>1, <2>1, <2>2, <2>3, <2>4, <2>5 DEF Script
<1>2. CASE HandleInterrupts \/ AddToOsrBufferSpins
  <2>1. same
    BY <1>2 DEF HandleInterrupts, AddToOsrBufferSpins
  <2> QED
    BY <1>0, <2>1
<1>3. CASE Compile
  <2>1. CASE CreateGraphFails
    BY <1>0, <2>1 DEF CreateGraphFails
  <2> QED
    BY <1>3, <2>1, OwnQueueForOptimization, OwnQueueForOsr, OwnFinish
    DEF Compile
<1>4. CASE Continue
  <2>1. CASE OsrAfterInterrupt
    BY <2>1, OwnCompileForOsr DEF OsrAfterInterrupt
  <2>2. CASE InstallNext
    BY <2>2, OwnInstallNext
  <2>3. CASE \/ InstallReturn \/ FlushSignal \/ FlushWait \/ StopSignal
             \/ StopWait \/ StopInstall
    <3>1. same
      BY <2>3 DEF InstallReturn, FlushSignal, FlushWait, StopSignal, StopWait,
                  SignalThread, AwaitThread, StopInstall
    <3> QED
      BY <1>0, <3>1
  <2>4. CASE FlushFinish
    <3>1. inputQ = <<>> /\ tjob = NoJob
      BY <2>4 DEF FlushFinish, JInv, IInv, DrainInv, CompileNextHasJob
    <3> QED
      BY <2>4, <3>1, OwnFlushAll DEF FlushFinish
  <2>5. CASE StopFlushInput
    BY <2>5, OwnFlushInput DEF StopFlushInput
  <2>6. CASE StopFlushOutput
    <3>1. inputQ = <<>> /\ tjob = NoJob
      BY <2>6 DEF StopFlushOutput, JInv, IInv, StopInv, CompileNextHasJob
    <3> QED
      BY <2>6, <3>1, OwnFlushAll DEF StopFlushOutput
  <2>7. CASE StopCompileNext
    BY <2>7, OwnStopCompileNext
  <2>8. CASE StopFinish
    BY <2>8, OwnStopFinish
  <2> QED
    BY <1>4, <2>1, <2>2, <2>3, <2>4, <2>5, <2>6, <2>7, <2>8 DEF Continue
<1>5. CASE Thread
  <2>1. CASE \/ ThreadWait \/ ThreadSwitch \/ ThreadFlushed \/ ThreadAck
             \/ ThreadRequestInstallCode
    <3>1. same
      BY <2>1 DEF ThreadWait, ThreadSwitch, ThreadFlushed, ThreadAck,
                  ThreadRequestInstallCode
    <3> QED
      BY <1>0, <3>1
  <2>2. CASE ThreadFlushInput
    BY <2>2, OwnFlushInput DEF ThreadFlushInput
  <2> QED
    BY <1>5, <2>1, <2>2, OwnThread DEF Thread
<1>6. CASE Terminated \/ UNCHANGED vars
  BY <1>0, <1>6 DEF Terminated, vars
<1> QED
  BY <1>1, <1>2, <1>3, <1>4, <1>5, <1>6 DEF Next

(* A job that is not deleted keeps its kind and its state. *)
LEMMA MainJobKept ==
  ASSUME JInv, mjob' = mjob,
         \/ UNCHANGED info
         \/ \E S : Delete(S) /\ S \subseteq Pipeline \cup Buffered \cup {NoJob}
  PROVE  mjob # NoJob => IsOsr(mjob)' = IsOsr(mjob) /\ Waiting(mjob)' = Waiting(mjob)
<1> USE DEF JInv, IInv
<1>1. CASE UNCHANGED info
  BY <1>1 DEF IsOsr, Waiting
<1>2. ASSUME NEW S, Delete(S), S \subseteq Pipeline \cup Buffered \cup {NoJob},
             mjob # NoJob
      PROVE  IsOsr(mjob)' = IsOsr(mjob) /\ Waiting(mjob)' = Waiting(mjob)
  <2>1. mjob \in Job \ S
    BY <1>2 DEF OwnInv, TypeOK
  <2>2. info'[mjob] = info[mjob]
    BY <1>2, <2>1 DEF Delete
  <2> QED
    BY <2>2 DEF IsOsr, Waiting
<1> QED
  BY <1>1, <1>2

(* Who holds a job, and why, is kept: what a GC or the compiler thread       *)
(* disposes of meanwhile is never the job the main thread is finishing.      *)
LEMMA HoldStep == JInv /\ [Next]_vars => HoldInv'
<1> SUFFICES ASSUME JInv, [Next]_vars PROVE HoldInv'
  OBVIOUS
<1> DEFINE kept == mjob # NoJob => /\ IsOsr(mjob)' = IsOsr(mjob)
                                   /\ Waiting(mjob)' = Waiting(mjob)
<1> USE DEF queueVars, osrVars, edgeVars, threadVars, mainVars
<1>0. ASSUME NEW f, NEW l, mpc \in {"run", "osr"},
             CompileForOnStackReplacement(f, l)
      PROVE  HoldInv'
  <2>1. mpc' \in {"run", "create"} => mjob' = NoJob
    BY <1>0 DEF CompileForOnStackReplacement, JInv, HoldInv, Finishing, FlushPc
  <2>2. ASSUME mpc' = "finish" PROVE mjob' # NoJob /\ Waiting(mjob)'
    <3> PICK i \in Slot : IsReadyCandidate(i, f, l) /\ mjob' = osrBuf[i]
      BY <1>0, <2>2 DEF CompileForOnStackReplacement
    <3>1. info' = info
      BY <1>0 DEF CompileForOnStackReplacement
    <3> QED
      BY <3>1 DEF IsReadyCandidate, IsFirst, SameOsrEntry, Waiting
  <2>3. mpc' \in {"run", "create", "finish"}
    BY <1>0 DEF CompileForOnStackReplacement
  <2> QED
    BY <2>1, <2>2, <2>3 DEF HoldInv, Finishing, FlushPc, Waiting
<1> USE DEF JInv, HoldInv, Finishing, FlushPc
<1>1. CASE Script
  <2>1. ASSUME NEW f \in Function,
               \/ Optimize(f) \/ AttemptOnStackReplacement(f)
               \/ CompileOptimized(f) \/ Deoptimize(f)
               \/ TryInstallOptimizedCode(f)
        PROVE  HoldInv'
    BY <2>1 DEF Optimize, AttemptOnStackReplacement, CompileOptimized,
                Deoptimize, TryInstallOptimizedCode
  <2>2. ASSUME NEW f \in Function, NEW l \in Loop, OnStackReplacement(f, l)
        PROVE  HoldInv'
    BY <1>0, <2>2 DEF OnStackReplacement
  <2>3. ASSUME NEW f \in Function, NEW l \in Loop, OsrAfterStackCheck(f, l)
        PROVE  HoldInv'
    BY <2>3 DEF OsrAfterStackCheck
  <2>4. CASE CallbackEnter \/ CallbackReturn \/ Unblock \/ StopBegin
    BY <2>4 DEF CallbackEnter, CallbackReturn, Unblock, StopBegin
  <2>5. CASE FlushBegin
    BY <2>5 DEF FlushBegin, IsOsr, Waiting
  <2>6. CASE AgeBufferedOsrJobs
    <3> PICK i \in Slot : Delete({osrBuf[i]})
      BY <2>6 DEF AgeBufferedOsrJobs
    <3>1. {osrBuf[i]} \subseteq Pipeline \cup Buffered \cup {NoJob}
      BY DEF Buffered
    <3>2. kept
      BY <2>6, <3>1, MainJobKept DEF AgeBufferedOsrJobs
    <3> QED
      BY <2>6, <3>2 DEF AgeBufferedOsrJobs
  <2> QED
    BY <1>1, <2>1, <2>2, <2>3, <2>4, <2>5, <2>6 DEF Script
<1>2. CASE HandleInterrupts \/ AddToOsrBufferSpins
  BY <1>2 DEF HandleInterrupts, AddToOsrBufferSpins
<1>3. CASE Compile
  BY <1>3 DEF Compile, CreateGraphFails, QueueForOptimization, QueueForOsr,
              FinishRegular, FinishOsr
<1>4. CASE Continue
  <2>1. CASE OsrAfterInterrupt
    BY <1>0, <2>1 DEF OsrAfterInterrupt
  <2>2. CASE InstallNext
    BY <2>2, PopTypes, JobAssumption DEF InstallNext, IsOsr, IInv, TypeOK
  <2>3. CASE InstallReturn
    BY <2>3 DEF InstallReturn, IInv, TypeOK
  <2>4. CASE FlushSignal \/ FlushWait
    BY <2>4 DEF FlushSignal, FlushWait, SignalThread, AwaitThread, IsOsr,
                Waiting
  <2>5. CASE StopSignal \/ StopWait \/ StopInstall \/ StopCompileNext
    BY <2>5 DEF StopSignal, StopWait, SignalThread, AwaitThread, StopInstall,
                StopCompileNext
  <2>6. CASE FlushFinish
    <3>1. Regular(Elements(outputQ)) \cup Buffered
            \subseteq Pipeline \cup Buffered \cup {NoJob}
      BY DEF Regular, Pipeline
    <3>2. kept
      BY <2>6, <3>1, MainJobKept DEF FlushFinish
    <3>3. fret \in {"run", "create", "finish"}
      BY DEF IInv, TypeOK
    <3> QED
      BY <2>6, <3>2, <3>3 DEF FlushFinish
  <2>7. CASE StopFlushInput \/ StopFlushOutput \/ StopFinish
    BY <2>7 DEF StopFlushInput, StopFlushOutput, StopFinish
  <2> QED
    BY <1>4, <2>1, <2>2, <2>3, <2>4, <2>5, <2>6, <2>7 DEF Continue
<1>5. CASE Thread
  <2>1. CASE ~ThreadFlushInput
    <3>1. UNCHANGED <<info, mjob, mpc, fret>>
      BY <1>5, <2>1
      DEF Thread, ThreadWait, ThreadSwitch, ThreadFlushed, ThreadAck,
          ThreadNextInput, ThreadOptimizeGraph, ThreadRequestInstallCode
    <3> QED
      BY <3>1 DEF IsOsr, Waiting
  <2>2. CASE ThreadFlushInput
    <3>1. Delete(Regular({Head(inputQ)})) /\ UNCHANGED <<mjob, mpc, fret>>
      BY <2>2 DEF ThreadFlushInput, FlushInput
    <3>2. Head(inputQ) \in Elements(inputQ)
      BY <2>2, PopElements DEF ThreadFlushInput, FlushInput, IInv, TypeOK
    <3>3. Regular({Head(inputQ)}) \subseteq Pipeline \cup Buffered \cup {NoJob}
      BY <3>2 DEF Regular, Pipeline
    <3>4. kept
      BY <3>1, <3>3, MainJobKept
    <3> QED
      BY <3>1, <3>4
  <2> QED
    BY <2>1, <2>2
<1>6. CASE Terminated \/ UNCHANGED vars
  BY <1>6 DEF Terminated, vars, IsOsr, Waiting
<1> QED
  BY <1>1, <1>2, <1>3, <1>4, <1>5, <1>6 DEF Next

(* What is drained stays drained: nobody queues a job while Flush or Stop    *)
(* runs, and the thread has no signal left to wake up on.                    *)
LEMMA DrainStep == JInv /\ [Next]_vars => DrainInv'
<1> SUFFICES ASSUME JInv, [Next]_vars PROVE DrainInv'
  OBVIOUS
<1> USE DEF JInv, IInv, DrainInv, StopInv, StopPc, queueVars, osrVars,
            edgeVars, threadVars, mainVars
<1>1. CASE Script
  <2>1. ASSUME NEW f \in Function,
               \/ Optimize(f) \/ AttemptOnStackReplacement(f)
               \/ CompileOptimized(f) \/ Deoptimize(f)
               \/ TryInstallOptimizedCode(f)
        PROVE  DrainInv'
    BY <2>1 DEF Optimize, AttemptOnStackReplacement, CompileOptimized,
                Deoptimize, TryInstallOptimizedCode
  <2>2. ASSUME NEW f \in Function, NEW l \in Loop, OnStackReplacement(f, l)
        PROVE  DrainInv'
    BY <2>2 DEF OnStackReplacement, CompileForOnStackReplacement
  <2>3. ASSUME NEW f \in Function, NEW l \in Loop, OsrAfterStackCheck(f, l)
        PROVE  DrainInv'
    BY <2>3 DEF OsrAfterStackCheck
  <2>4. CASE CallbackEnter \/ CallbackReturn \/ Unblock \/ AgeBufferedOsrJobs
    BY <2>4 DEF CallbackEnter, CallbackReturn, Unblock, AgeBufferedOsrJobs
  <2>5. CASE FlushBegin \/ StopBegin
    BY <2>5 DEF FlushBegin, StopBegin
  <2> QED
    BY <1>1, <2>1, <2>2, <2>3, <2>4, <2>5 DEF Script
<1>2. CASE HandleInterrupts \/ AddToOsrBufferSpins
  BY <1>2 DEF HandleInterrupts, AddToOsrBufferSpins
<1>3. CASE Compile
  BY <1>3 DEF Compile, CreateGraphFails, QueueForOptimization, QueueForOsr,
              FinishRegular, FinishOsr, ReturnInv, Finishing, FlushPc
<1>4. CASE Continue
  <2>1. CASE OsrAfterInterrupt
    BY <2>1 DEF OsrAfterInterrupt, CompileForOnStackReplacement
  <2>2. CASE InstallNext \/ InstallReturn
    BY <2>2 DEF InstallNext, InstallReturn, TypeOK
  <2>3. CASE FlushSignal \/ StopSignal
    BY <2>3 DEF FlushSignal, StopSignal, SignalThread
  <2>4. CASE FlushWait \/ StopWait
    BY <2>4 DEF FlushWait, StopWait, AwaitThread, TypeOK
  <2>5. CASE FlushFinish
    BY <2>5 DEF FlushFinish, TypeOK
  <2>6. CASE StopFlushInput
    BY <2>6 DEF StopFlushInput, FlushInput
  <2>7. CASE StopFlushOutput
    <3>1. Buffered' = {}
      BY <2>7 DEF StopFlushOutput, Buffered
    <3> QED
      BY <2>7, <3>1 DEF StopFlushOutput, ReturnInv
  <2>8. CASE StopCompileNext \/ StopInstall
    BY <2>8 DEF StopCompileNext, StopInstall
  <2>9. CASE StopFinish
    BY <2>9 DEF StopFinish, Buffered
  <2> QED
    BY <1>4, <2>1, <2>2, <2>3, <2>4, <2>5, <2>6, <2>7, <2>8, <2>9 DEF Continue
<1>5. CASE Thread
  <2>1. CASE ThreadWait
    <3>1. Len(inputQ) + OwnSignal > 0
      BY <2>1, LenProperties
      DEF ThreadWait, TokenAccounting, Accounted, Token, TypeOK
    <3>2. ~(\/ mpc = "flushOut" \/ (mpc = "flushWait" /\ stop = "CONTINUE"))
      BY <3>1 DEF OwnSignal
    <3> QED
      BY <2>1, <3>2 DEF ThreadWait
  <2>2. CASE ThreadSwitch
    BY <2>2 DEF ThreadSwitch, TypeOK
  <2>3. CASE \/ ThreadFlushInput \/ ThreadFlushed \/ ThreadAck
             \/ ThreadNextInput \/ ThreadOptimizeGraph
             \/ ThreadRequestInstallCode
    BY <2>3 DEF ThreadFlushInput, FlushInput, ThreadFlushed, ThreadAck,
                ThreadNextInput, ThreadOptimizeGraph,
                ThreadRequestInstallCode
  <2> QED
    BY <1>5, <2>1, <2>2, <2>3 DEF Thread
<1>6. CASE Terminated \/ UNCHANGED vars
  BY <1>6 DEF Terminated, vars, Buffered
<1> QED
  BY <1>1, <1>2, <1>3, <1>4, <1>5, <1>6 DEF Next

-----------------------------------------------------------------------------
(* Ownership, in every reachable state. *)

(* The inductive invariant of ownership holds in every reachable state. *)
LEMMA JobsInductive == Spec => []JInv
<1>1. Init /\ IInv => JInv
  <2> SUFFICES ASSUME Init, IInv PROVE JInv
    OBVIOUS
  <2>1. Elements(inputQ) = {} /\ Elements(outputQ) = {} /\ Distinct(<<>>)
    BY EmptyElements DEF Init
  <2>2. Buffered = {} /\ Pipeline = {} /\ Held = {} /\ Live = {}
    BY <2>1, FreedFields DEF Init, Buffered, Pipeline, Held, Live
  <2>3. \A i, k \in Slot : osrBuf[i] = osrBuf[k] /\ osrBuf[i] # NoJob => i = k
    BY DEF Init
  <2> QED
    BY <2>1, <2>2, <2>3
    DEF Init, JInv, OwnInv, HoldInv, DrainInv, Finishing, FlushPc, HeldIsLive
<1>2. JInv /\ [Next]_vars /\ IInv' => JInv'
  BY OwnStep, HoldStep, DrainStep DEF JInv
<1> QED
  BY <1>1, <1>2, Inductive, PTL DEF Spec

(* No queue, no slot of the OSR buffer and no thread ever refers to a job    *)
(* that was disposed of, and no job that still exists is unreachable,        *)
(* whatever Flush, Stop, GCs and the two threads interleave.                 *)
THEOREM NoDanglingJob == Spec => []HeldIsLive
BY JobsInductive, PTL DEF JInv, OwnInv

(* ~OptimizingCompilerThread finds both queues and the buffer empty, every   *)
(* job disposed of and the thread gone, with and without a delay.            *)
THEOREM StopLeavesNothing == Spec => []StoppedClean
<1>1. JInv => StoppedClean
  <2> SUFFICES ASSUME JInv, mpc = "stopped"
               PROVE  /\ inputQ = <<>> /\ Buffered = {} /\ Live = {}
                      /\ tpc = "exited"
    BY DEF StoppedClean
  <2>1. inputQ = <<>> /\ outputQ = <<>> /\ Buffered = {} /\ tpc = "exited"
    BY DEF JInv, IInv, DrainInv, StopInv
  <2>2. tjob = NoJob /\ mjob = NoJob
    BY <2>1 DEF JInv, IInv, CompileNextHasJob, HoldInv, Finishing, FlushPc
  <2>3. Held = {}
    BY <2>1, <2>2, EmptyElements DEF Held
  <2> QED
    BY <2>1, <2>3 DEF JInv, OwnInv, HeldIsLive
<1> QED
  BY <1>1, JobsInductive, PTL

(* No job is twice in a queue; an empty place is not a job. *)
OnlyOnce(q) == \A i, k \in 1..Len(q) : i # k /\ q[i] # NoJob => q[i] # q[k]

(* Two queues without a common job, one behind the other. *)
LEMMA ConcatDistinct ==
  ASSUME NEW S, NEW a \in Seq(S), NEW b \in Seq(S),
         OnlyOnce(a), OnlyOnce(b),
         Elements(a) \cap Elements(b) \subseteq {NoJob}
  PROVE  /\ OnlyOnce(a \o b) /\ a \o b \in Seq(S)
         /\ Elements(a \o b) = Elements(a) \cup Elements(b)
<1>1. /\ a \o b \in Seq(S)
      /\ Len(a \o b) = Len(a) + Len(b) /\ Len(a) \in Nat /\ Len(b) \in Nat
      /\ \A i \in 1..Len(a) : (a \o b)[i] = a[i]
      /\ \A i \in 1..Len(b) : (a \o b)[i + Len(a)] = b[i]
  BY ConcatProperties, LenProperties
<1>2. \A i \in 1..Len(a \o b) :
        \/ i \in 1..Len(a) /\ (a \o b)[i] = a[i]
        \/ /\ i - Len(a) \in 1..Len(b)
           /\ (a \o b)[i] = b[i - Len(a)]
  <2> TAKE i \in 1..Len(a \o b)
  <2>1. i \in 1..Len(a) \/ (i - Len(a) \in 1..Len(b) /\ (i - Len(a)) + Len(a) = i)
    BY <1>1
  <2> QED
    BY <1>1, <2>1
<1>3. /\ \A i \in 1..Len(a) : i \in 1..Len(a \o b)
      /\ \A i \in 1..Len(b) : i + Len(a) \in 1..Len(a \o b)
  BY <1>1
<1>4. \A i \in 1..Len(a), k \in 1..Len(b) : a[i] # NoJob => a[i] # b[k]
  BY DEF Elements
<1>5. ASSUME NEW i \in 1..Len(a \o b), NEW k \in 1..Len(a \o b),
             i # k, (a \o b)[i] # NoJob
      PROVE  (a \o b)[i] # (a \o b)[k]
  <2> DEFINE inA(m) == m \in 1..Len(a) /\ (a \o b)[m] = a[m]
             inB(m) == m - Len(a) \in 1..Len(b) /\ (a \o b)[m] = b[m - Len(a)]
  <2>1. CASE inA(i) /\ inA(k)
    BY <1>5, <2>1 DEF OnlyOnce
  <2>2. CASE (inA(i) /\ inB(k)) \/ (inB(i) /\ inA(k))
    BY <1>4, <1>5, <2>2
  <2>3. CASE inB(i) /\ inB(k)
    <3>1. i - Len(a) # k - Len(a)
      BY <1>1, <1>5
    <3> QED
      BY <1>5, <2>3, <3>1 DEF OnlyOnce
  <2>4. (inA(i) \/ inB(i)) /\ (inA(k) \/ inB(k))
    BY <1>2
  <2> HIDE DEF inA, inB
  <2> QED
    BY <2>1, <2>2, <2>3, <2>4
<1>6. Elements(a \o b) \subseteq Elements(a) \cup Elements(b)
  BY <1>2 DEF Elements
<1>7. Elements(a) \subseteq Elements(a \o b)
  BY <1>1, <1>3 DEF Elements
<1>8. ASSUME NEW i \in 1..Len(b) PROVE b[i] \in Elements(a \o b)
  BY <1>1, <1>3 DEF Elements
<1>9. Elements(b) \subseteq Elements(a \o b)
  BY <1>8 DEF Elements
<1> QED
  BY <1>1, <1>5, <1>6, <1>7, <1>9 DEF OnlyOnce

(* A job is at one place of the pipeline at most, and in one slot of the OSR *)
(* buffer; what the main thread took out of either is its own, and a ready   *)
(* OSR job is in the buffer only: no interleaving disposes of a job twice.   *)
THEOREM OneOwner == Spec => []SingleOwner
<1>1. JInv => SingleOwner
  <2> SUFFICES ASSUME JInv PROVE SingleOwner
    OBVIOUS
  <2> USE DEF JInv, IInv
  <2> DEFINE S == Job \cup {NoJob}
             q1 == inputQ \o <<tjob>>
             q2 == q1 \o outputQ
             q == q2 \o <<mjob>>
  <2>1. \A p : p \in Seq(Job) => p \in Seq(S)
    OBVIOUS
  <2>2. /\ inputQ \in Seq(S) /\ outputQ \in Seq(S)
        /\ <<tjob>> \in Seq(S) /\ <<mjob>> \in Seq(S)
    BY <2>1 DEF TypeOK
  <2>3. /\ OnlyOnce(inputQ) /\ OnlyOnce(outputQ)
        /\ OnlyOnce(<<tjob>>) /\ OnlyOnce(<<mjob>>)
    BY DEF OnlyOnce, OwnInv, Distinct
  <2>4. Elements(<<tjob>>) = {tjob} /\ Elements(<<mjob>>) = {mjob}
    BY DEF Elements
  <2> HIDE DEF S, q1, q2, q
  <2>5. /\ OnlyOnce(q1) /\ q1 \in Seq(S)
        /\ Elements(q1) = Elements(inputQ) \cup {tjob}
    <3>1. Elements(inputQ) \cap Elements(<<tjob>>) \subseteq {NoJob}
      BY <2>4 DEF OwnInv
    <3>3. QED
      <4>1. /\ OnlyOnce(inputQ \o <<tjob>>) /\ inputQ \o <<tjob>> \in Seq(S)
            /\ Elements(inputQ \o <<tjob>>) = Elements(inputQ) \cup Elements(<<tjob>>)
        BY <2>2, <2>3, <3>1, ConcatDistinct
      <4> QED
        BY <2>4, <4>1 DEF q1
  <2>6. /\ OnlyOnce(q2) /\ q2 \in Seq(S)
        /\ Elements(q2) = Elements(inputQ) \cup {tjob} \cup Elements(outputQ)
    <3>1. Elements(q1) \cap Elements(outputQ) \subseteq {NoJob}
      BY <2>5 DEF OwnInv
    <3> QED
      BY <2>2, <2>3, <2>5, <3>1, ConcatDistinct DEF q2
  <2>7. /\ OnlyOnce(q)
        /\ Elements(q) \subseteq Pipeline \cup {NoJob, mjob}
    <3>1. Elements(q2) \subseteq Pipeline \cup {NoJob}
      BY <2>6 DEF Pipeline
    <3>2. Elements(q2) \cap Elements(<<mjob>>) \subseteq {NoJob}
      BY <2>4, <3>1 DEF OwnInv
    <3>3. QED
      <4>1. /\ OnlyOnce(q2 \o <<mjob>>)
            /\ Elements(q2 \o <<mjob>>) = Elements(q2) \cup Elements(<<mjob>>)
        <5>1. q2 \in Seq(S) /\ <<mjob>> \in Seq(S)
          BY <2>2, <2>6
        <5>2. OnlyOnce(q2) /\ OnlyOnce(<<mjob>>)
          BY <2>3, <2>6
        <5> QED
          BY <3>2, <5>1, <5>2, ConcatDistinct
      <4> QED
        BY <2>4, <3>1, <4>1 DEF q
  <2>8. \A j \in Live : j \in Buffered \cap Elements(q) => ~Waiting(j)
    BY <2>7 DEF OwnInv, Buffered
  <2>9. q = inputQ \o <<tjob>> \o outputQ \o <<mjob>>
    BY DEF q, q1, q2
  <2>10. \A i, k \in Slot : i # k /\ osrBuf[i] # NoJob => osrBuf[i] # osrBuf[k]
    BY DEF OwnInv
  <2>11. mjob \notin Buffered
    BY DEF OwnInv
  <2> QED
    BY <2>7, <2>8, <2>9, <2>10, <2>11 DEF SingleOwner, OnlyOnce
<1> QED
  BY <1>1, JobsInductive, PTL

-----------------------------------------------------------------------------
(* Finished code is announced. *)

(* Every step keeps the announcement, or empties the queue. *)
LEMMA AnnounceStep ==
  JInv /\ ReadyCodeIsAnnounced /\ [Next]_vars => ReadyCodeIsAnnounced'
<1> SUFFICES ASSUME JInv, ReadyCodeIsAnnounced, [Next]_vars
             PROVE  ReadyCodeIsAnnounced'
  OBVIOUS
<1> DEFINE kept == mjob # NoJob => IsOsr(mjob)' = IsOsr(mjob)
<1> USE DEF ReadyCodeIsAnnounced, StopPc, queueVars, osrVars, edgeVars,
            threadVars, mainVars
<1>0. ASSUME NEW f, NEW l, mpc \in {"run", "osr"},
             CompileForOnStackReplacement(f, l)
      PROVE  ReadyCodeIsAnnounced'
  BY <1>0 DEF CompileForOnStackReplacement, JInv, HoldInv, Finishing, FlushPc
<1>1. CASE Script
  <2>1. ASSUME NEW f \in Function,
               \/ Optimize(f) \/ AttemptOnStackReplacement(f)
               \/ CompileOptimized(f) \/ Deoptimize(f)
               \/ TryInstallOptimizedCode(f)
        PROVE  ReadyCodeIsAnnounced'
    BY <2>1 DEF Optimize, AttemptOnStackReplacement, CompileOptimized,
                Deoptimize, TryInstallOptimizedCode, IsOsr
  <2>2. ASSUME NEW f \in Function, NEW l \in Loop, OnStackReplacement(f, l)
        PROVE  ReadyCodeIsAnnounced'
    BY <1>0, <2>2 DEF OnStackReplacement
  <2>3. ASSUME NEW f \in Function, NEW l \in Loop, OsrAfterStackCheck(f, l)
        PROVE  ReadyCodeIsAnnounced'
    BY <2>3 DEF OsrAfterStackCheck, IsOsr
  <2>4. CASE \/ CallbackEnter \/ CallbackReturn \/ Unblock \/ StopBegin
             \/ FlushBegin
    BY <2>4
    DEF CallbackEnter, CallbackReturn, Unblock, StopBegin, FlushBegin, IsOsr
  <2>5. CASE AgeBufferedOsrJobs
    <3> PICK i \in Slot : Delete({osrBuf[i]})
      BY <2>5 DEF AgeBufferedOsrJobs
    <3>1. {osrBuf[i]} \subseteq Pipeline \cup Buffered \cup {NoJob}
      BY DEF Buffered
    <3>2. kept
      BY <2>5, <3>1, MainJobKept DEF AgeBufferedOsrJobs
    <3> QED
      BY <2>5, <3>2 DEF AgeBufferedOsrJobs
  <2> QED
    BY <1>1, <2>1, <2>2, <2>3, <2>4, <2>5 DEF Script
<1>2. CASE HandleInterrupts \/ AddToOsrBufferSpins
  BY <1>2 DEF HandleInterrupts, AddToOsrBufferSpins, IsOsr
<1>3. CASE Compile
  <2>1. CASE CreateGraphFails \/ QueueForOptimization \/ QueueForOsr
    BY <2>1 DEF CreateGraphFails, QueueForOptimization, QueueForOsr, JInv,
                HoldInv, Finishing, FlushPc
  <2>2. CASE FinishRegular \/ FinishOsr
    BY <2>2 DEF FinishRegular, FinishOsr
  <2> QED
    BY <1>3, <2>1, <2>2 DEF Compile
<1>4. CASE Continue
  <2>1. CASE OsrAfterInterrupt
    BY <1>0, <2>1 DEF OsrAfterInterrupt
  <2>2. CASE InstallNext
    BY <2>2, PopTypes, JobAssumption DEF InstallNext, IsOsr, JInv, IInv, TypeOK
  <2>3. CASE InstallReturn \/ FlushFinish \/ StopFlushOutput
    BY <2>3 DEF InstallReturn, FlushFinish, StopFlushOutput
  <2>4. CASE FlushSignal \/ FlushWait \/ StopSignal \/ StopWait
    BY <2>4 DEF FlushSignal, FlushWait, StopSignal, StopWait, SignalThread,
                AwaitThread, IsOsr
  <2>5. CASE StopInstall \/ StopCompileNext \/ StopFlushInput \/ StopFinish
    BY <2>5 DEF StopInstall, StopCompileNext, StopFlushInput, StopFinish
  <2> QED
    BY <1>4, <2>1, <2>2, <2>3, <2>4, <2>5 DEF Continue
<1>5. CASE Thread
  <2>1. CASE ~ThreadFlushInput
    BY <1>5, <2>1
    DEF Thread, ThreadWait, ThreadSwitch, ThreadFlushed, ThreadAck,
        ThreadNextInput, ThreadOptimizeGraph, ThreadRequestInstallCode, IsOsr
  <2>2. CASE ThreadFlushInput
    <3>1. /\ Delete(Regular({Head(inputQ)}))
          /\ UNCHANGED <<mjob, mpc, installReq, tpc, outputQ>>
      BY <2>2 DEF ThreadFlushInput, FlushInput
    <3>2. Head(inputQ) \in Elements(inputQ)
      BY <2>2, PopElements DEF ThreadFlushInput, FlushInput, JInv, IInv, TypeOK
    <3>3. Regular({Head(inputQ)}) \subseteq Pipeline \cup Buffered \cup {NoJob}
      BY <3>2 DEF Regular, Pipeline
    <3>4. kept
      BY <3>1, <3>3, MainJobKept
    <3> QED
      BY <3>1, <3>4
  <2> QED
    BY <2>1, <2>2
<1>6. CASE Terminated \/ UNCHANGED vars
  BY <1>6 DEF Terminated, vars, IsOsr
<1> QED
  BY <1>1, <1>2, <1>3, <1>4, <1>5, <1>6 DEF Next

(* The INSTALL_CODE interrupt is never lost: a job that reached the output   *)
(* queue is announced, or the main thread is on its way to it, although      *)
(* Enqueue and RequestInstallCode are two steps and the main thread clears   *)
(* the interrupt before it looks.                                            *)
THEOREM CodeIsAnnounced == Spec => []ReadyCodeIsAnnounced
<1>1. Init => ReadyCodeIsAnnounced
  BY DEF Init, ReadyCodeIsAnnounced
<1> QED
  BY <1>1, AnnounceStep, JobsInductive, PTL DEF Spec

-----------------------------------------------------------------------------
(* The OSR buffer holds one job per entry. *)

(* While a job for an OSR entry is created the buffer has none for it. *)
OsrEntryInv ==
  Creating /\ req.loop # NoLoop =>
    \A i \in Slot : ~SameOsrEntry(osrBuf[i], req.fn, req.loop)

(* A non-empty set of numbers has a least one. *)
LEMMA LeastNumber ==
  ASSUME NEW T, T \subseteq Nat, T # {}
  PROVE  \E i \in T : \A k \in T : ~(k < i)
<1>1. \E i \in T : \A k \in T : ~(<<k, i>> \in OpToRel(<, Nat))
  BY NatLessThanWellFounded, WFMin, Zenon
<1> QED
  BY <1>1 DEF OpToRel

(* Runtime_CompileForOnStackReplacement asks IsQueuedForOSR first and        *)
(* FindReadyOSRCandidate next: when both say no, no slot has the entry.      *)
LEMMA NoEntryFound ==
  ASSUME NEW f, NEW l, ~IsQueuedForOsrEntry(f, l),
         ~\E i \in Slot : IsReadyCandidate(i, f, l)
  PROVE  \A i \in Slot : ~SameOsrEntry(osrBuf[i], f, l)
<1> DEFINE T == {i \in Slot : SameOsrEntry(osrBuf[i], f, l)}
           R == {i \in T : Waiting(osrBuf[i])}
<1>1. Slot \subseteq Nat
  BY CapacityAssumption DEF Slot, OsrCapacity
<1>2. R = {}
  <2> SUFFICES ASSUME R # {} PROVE FALSE
    OBVIOUS
  <2>1. PICK i \in R : \A k \in R : ~(k < i)
    <3> HIDE DEF R
    <3>1. R \subseteq Nat
      BY <1>1 DEF R
    <3> QED
      BY <3>1, LeastNumber
  <2> QED
    BY <2>1 DEF IsReadyCandidate, IsFirst
<1>3. T = {}
  <2> SUFFICES ASSUME T # {} PROVE FALSE
    OBVIOUS
  <2>1. PICK i \in T : \A k \in T : ~(k < i)
    <3> HIDE DEF T
    <3>1. T \subseteq Nat
      BY <1>1 DEF T
    <3> QED
      BY <3>1, LeastNumber
  <2>2. ~Waiting(osrBuf[i])
    BY <1>2
  <2> QED
    BY <2>1, <2>2 DEF IsQueuedForOsrEntry, IsFirst
<1> QED
  BY <1>3

(* What is in the buffer after a step other than AddToOsrBuffer was there    *)
(* before, for the same function and loop.                                   *)
BufferShrinks ==
  \A i \in Slot : osrBuf'[i] # NoJob =>
    /\ osrBuf'[i] = osrBuf[i]
    /\ info'[osrBuf[i]].closure = info[osrBuf[i]].closure
    /\ info'[osrBuf[i]].osr = info[osrBuf[i]].osr

(* Deleting jobs that are not in the buffer, or leave it. *)
LEMMA DeleteShrinks ==
  ASSUME TypeOK, NEW S, Delete(S),
         \A i \in Slot : osrBuf'[i] # NoJob =>
                           osrBuf'[i] = osrBuf[i] /\ osrBuf[i] \notin S
  PROVE  BufferShrinks
<1> SUFFICES ASSUME NEW i \in Slot, osrBuf'[i] # NoJob
             PROVE  info'[osrBuf[i]] = info[osrBuf[i]]
  BY DEF BufferShrinks
<1>1. osrBuf[i] \in Job \ S
  BY DEF TypeOK
<1> QED
  BY <1>1 DEF Delete

(* Every step but QueueForOsr takes from the buffer at most. *)
LEMMA BufferStep == JInv /\ [Next]_vars /\ ~QueueForOsr => BufferShrinks
<1> SUFFICES ASSUME JInv, [Next]_vars, ~QueueForOsr PROVE BufferShrinks
  OBVIOUS
<1> USE DEF queueVars, osrVars, edgeVars, threadVars, mainVars
<1>0. UNCHANGED <<osrBuf, info>> => BufferShrinks
  BY DEF BufferShrinks
<1>a. ASSUME NEW S, S \cap Buffered = {}, Delete(S), osrBuf' = osrBuf
      PROVE  BufferShrinks
  <2>1. \A i \in Slot : osrBuf'[i] # NoJob =>
                          osrBuf'[i] = osrBuf[i] /\ osrBuf[i] \notin S
    BY <1>a DEF Buffered
  <2> QED
    BY <1>a, <2>1, DeleteShrinks DEF JInv, IInv
<1>b. ASSUME NEW f, NEW l, CompileForOnStackReplacement(f, l)
      PROVE  BufferShrinks
  <2>1. info' = info
    BY <1>b DEF CompileForOnStackReplacement
  <2>2. \/ osrBuf' = osrBuf
        \/ \E i \in Slot : osrBuf' = [osrBuf EXCEPT ![i] = NoJob]
    BY <1>b DEF CompileForOnStackReplacement
  <2> QED
    BY <2>1, <2>2 DEF BufferShrinks, JInv, IInv, TypeOK
<1>1. CASE Script
  <2>1. ASSUME NEW f \in Function,
               \/ Optimize(f) \/ AttemptOnStackReplacement(f)
               \/ CompileOptimized(f) \/ Deoptimize(f)
               \/ TryInstallOptimizedCode(f)
        PROVE  UNCHANGED <<osrBuf, info>>
    BY <2>1 DEF Optimize, AttemptOnStackReplacement, CompileOptimized,
                Deoptimize, TryInstallOptimizedCode
  <2>2. ASSUME NEW f \in Function, NEW l \in Loop, OnStackReplacement(f, l)
        PROVE  BufferShrinks
    BY <1>b, <2>2 DEF OnStackReplacement
  <2>3. ASSUME NEW f \in Function, NEW l \in Loop, OsrAfterStackCheck(f, l)
        PROVE  UNCHANGED <<osrBuf, info>>
    BY <2>3 DEF OsrAfterStackCheck
  <2>4. CASE \/ CallbackEnter \/ CallbackReturn \/ Unblock \/ FlushBegin
             \/ StopBegin
    BY <1>0, <2>4
    DEF CallbackEnter, CallbackReturn, Unblock, FlushBegin, StopBegin
  <2>5. CASE AgeBufferedOsrJobs
    <3> PICK i \in Slot : /\ osrBuf' = [osrBuf EXCEPT ![i] = NoJob]
                          /\ Delete({osrBuf[i]})
      BY <2>5 DEF AgeBufferedOsrJobs
    <3>1. \A k \in Slot : osrBuf'[k] # NoJob =>
                            osrBuf'[k] = osrBuf[k] /\ osrBuf[k] \notin {osrBuf[i]}
      BY DEF JInv, IInv, OwnInv, TypeOK
    <3> QED
      BY <3>1, DeleteShrinks DEF JInv, IInv
  <2> QED
    BY <1>0, <1>1, <2>1, <2>2, <2>3, <2>4, <2>5 DEF Script
<1>2. CASE HandleInterrupts \/ AddToOsrBufferSpins
  BY <1>0, <1>2 DEF HandleInterrupts, AddToOsrBufferSpins
<1>3. CASE Compile
  <2>1. CASE CreateGraphFails
    BY <1>0, <2>1 DEF CreateGraphFails
  <2>2. CASE QueueForOptimization
    <3> PICK j \in Job \ Live :
          info' = [info EXCEPT ![j] = [closure |-> req.fn, osr |-> NoLoop,
                                       waiting |-> FALSE]]
      BY <2>2 DEF QueueForOptimization
    <3>1. j \notin Buffered
      BY JobAssumption DEF JInv, OwnInv, HeldIsLive, Held
    <3>2. osrBuf' = osrBuf
      BY <2>2 DEF QueueForOptimization
    <3>3. \A i \in Slot : osrBuf[i] # NoJob => osrBuf[i] \in Job \ {j}
      BY <3>1 DEF Buffered, JInv, IInv, TypeOK
    <3> QED
      BY <3>2, <3>3 DEF BufferShrinks, JInv, IInv, TypeOK
  <2>3. CASE FinishRegular \/ FinishOsr
    <3>1. {mjob} \cap Buffered = {}
      BY DEF JInv, OwnInv
    <3> QED
      BY <1>a, <2>3, <3>1 DEF FinishRegular, FinishOsr
  <2> QED
    BY <1>3, <2>1, <2>2, <2>3 DEF Compile
<1>4. CASE Continue
  <2>1. CASE OsrAfterInterrupt
    BY <1>b, <2>1 DEF OsrAfterInterrupt
  <2>2. CASE InstallNext
    <3> DEFINE j == Head(outputQ)
    <3>1. osrBuf' = osrBuf
      BY <2>2 DEF InstallNext
    <3>2. CASE IsOsr(j) /\ info' = [info EXCEPT ![j].waiting = TRUE]
      <4>1. j \in Job
        BY <2>2, PopTypes DEF InstallNext, JInv, IInv, TypeOK
      <4>2. \A k \in Job : info'[k].closure = info[k].closure
                           /\ info'[k].osr = info[k].osr
        BY <3>2, <4>1 DEF JInv, IInv, TypeOK, Info, Freed
      <4> QED
        BY <3>1, <4>2 DEF BufferShrinks, JInv, IInv, TypeOK
    <3>3. CASE ~IsOsr(j) /\ Delete({j})
      <4>1. {j} \cap Buffered = {}
        BY <3>3 DEF JInv, OwnInv
      <4> QED
        BY <1>a, <3>1, <3>3, <4>1
    <3> QED
      BY <1>0, <2>2, <3>1, <3>2, <3>3 DEF InstallNext
  <2>3. CASE \/ InstallReturn \/ FlushSignal \/ FlushWait \/ StopSignal
             \/ StopWait \/ StopInstall \/ StopCompileNext
    BY <1>0, <2>3
    DEF InstallReturn, FlushSignal, FlushWait, StopSignal, StopWait,
        SignalThread, AwaitThread, StopInstall, StopCompileNext
  <2>4. CASE FlushFinish \/ StopFlushOutput \/ StopFinish
    <3>1. osrBuf' = [i \in Slot |-> NoJob]
      BY <2>4 DEF FlushFinish, StopFlushOutput, StopFinish
    <3> QED
      BY <3>1 DEF BufferShrinks
  <2>5. CASE StopFlushInput
    <3>1. Regular({Head(inputQ)}) \cap Buffered = {}
      BY DEF Regular, JInv, OwnInv
    <3> QED
      BY <1>a, <2>5, <3>1 DEF StopFlushInput, FlushInput
  <2> QED
    BY <1>4, <2>1, <2>2, <2>3, <2>4, <2>5 DEF Continue
<1>5. CASE Thread
  <2>1. CASE \/ ThreadWait \/ ThreadSwitch \/ ThreadFlushed \/ ThreadAck
             \/ ThreadNextInput \/ ThreadOptimizeGraph
             \/ ThreadRequestInstallCode
    BY <1>0, <2>1
    DEF ThreadWait, ThreadSwitch, ThreadFlushed, ThreadAck, ThreadNextInput,
        ThreadOptimizeGraph, ThreadRequestInstallCode
  <2>2. CASE ThreadFlushInput
    <3>1. Regular({Head(inputQ)}) \cap Buffered = {}
      BY DEF Regular, JInv, OwnInv
    <3> QED
      BY <1>a, <2>2, <3>1 DEF ThreadFlushInput, FlushInput
  <2> QED
    BY <1>5, <2>1, <2>2 DEF Thread
<1>6. CASE Terminated \/ UNCHANGED vars
  BY <1>0, <1>6 DEF Terminated, vars
<1> QED
  BY <1>1, <1>2, <1>3, <1>4, <1>5, <1>6 DEF Next

(* The request for an OSR job is made when the buffer has none for its       *)
(* entry; until the job is queued no other is.                               *)
LEMMA OsrEntryStep == JInv /\ OsrEntryInv /\ [Next]_vars => OsrEntryInv'
<1> SUFFICES ASSUME JInv, OsrEntryInv, [Next]_vars, Creating', (req.loop # NoLoop)'
             PROVE  \A i \in Slot : ~SameOsrEntry(osrBuf[i], req.fn, req.loop)'
  BY DEF OsrEntryInv
<1> USE DEF queueVars, osrVars, edgeVars, threadVars, mainVars
<1>1. ASSUME NEW f, NEW l, CompileForOnStackReplacement(f, l)
      PROVE  \A i \in Slot : ~SameOsrEntry(osrBuf[i], req.fn, req.loop)'
  <2>1. /\ ~IsQueuedForOsrEntry(f, l)
        /\ ~\E i \in Slot : IsReadyCandidate(i, f, l)
        /\ req' = [fn |-> f, loop |-> l]
        /\ UNCHANGED <<osrBuf, info>>
    BY <1>1 DEF CompileForOnStackReplacement, Creating, FlushPc
  <2>2. \A i \in Slot : ~SameOsrEntry(osrBuf[i], f, l)
    BY <2>1, NoEntryFound
  <2> QED
    BY <2>1, <2>2 DEF SameOsrEntry
<1>2. ASSUME ~\E f, l : CompileForOnStackReplacement(f, l)
      PROVE  Creating /\ req' = req
  <2> USE DEF Creating, FlushPc
  <2>1. CASE Script
    <3>1. ASSUME NEW f \in Function, Optimize(f) \/ AttemptOnStackReplacement(f)
                   \/ CompileOptimized(f) \/ Deoptimize(f)
                   \/ TryInstallOptimizedCode(f)
          PROVE  Creating /\ req' = req
      BY <3>1 DEF Optimize, AttemptOnStackReplacement, CompileOptimized,
                  Deoptimize, TryInstallOptimizedCode
    <3>2. ASSUME NEW f \in Function, NEW l \in Loop, OsrAfterStackCheck(f, l)
          PROVE  Creating /\ req' = req
      BY <3>2 DEF OsrAfterStackCheck
    <3>3. ASSUME NEW f \in Function, NEW l \in Loop, OnStackReplacement(f, l)
          PROVE  FALSE
      BY <1>2, <3>3 DEF OnStackReplacement
    <3>4. CASE \/ CallbackEnter \/ CallbackReturn \/ AgeBufferedOsrJobs
               \/ Unblock \/ FlushBegin \/ StopBegin
      BY <3>4 DEF CallbackEnter, CallbackReturn, AgeBufferedOsrJobs, Unblock,
                  FlushBegin, StopBegin
    <3> QED
      BY <2>1, <3>1, <3>2, <3>3, <3>4 DEF Script
  <2>2. CASE Compile \/ HandleInterrupts \/ AddToOsrBufferSpins
    BY <2>2 DEF Compile, CreateGraphFails, QueueForOptimization, QueueForOsr,
                FinishRegular, FinishOsr, HandleInterrupts,
                AddToOsrBufferSpins
  <2>3. CASE Continue
    <3>1. ~OsrAfterInterrupt
      BY <1>2 DEF OsrAfterInterrupt
    <3>2. CASE InstallNext \/ InstallReturn
      BY <3>2 DEF InstallNext, InstallReturn, JInv, IInv, TypeOK
    <3>3. CASE FlushSignal \/ FlushWait \/ StopSignal \/ StopWait
      BY <3>3 DEF FlushSignal, FlushWait, StopSignal, StopWait, SignalThread,
                  AwaitThread
    <3>4. CASE FlushFinish
      BY <3>4 DEF FlushFinish
    <3>5. CASE \/ StopFlushInput \/ StopFlushOutput \/ StopCompileNext
               \/ StopInstall \/ StopFinish
      BY <3>5 DEF StopFlushInput, StopFlushOutput, StopCompileNext,
                  StopInstall, StopFinish
    <3> QED
      BY <2>3, <3>1, <3>2, <3>3, <3>4, <3>5 DEF Continue
  <2>4. CASE Thread \/ Terminated \/ UNCHANGED vars
    BY <2>4 DEF Thread, ThreadWait, ThreadSwitch, ThreadFlushInput,
                ThreadFlushed, ThreadAck, ThreadNextInput,
                ThreadOptimizeGraph, ThreadRequestInstallCode, Terminated, vars
  <2> QED
    BY <2>1, <2>2, <2>3, <2>4 DEF Next
<1>3. ~QueueForOsr
  BY DEF QueueForOsr, Creating, FlushPc
<1>4. ASSUME ~\E f, l : CompileForOnStackReplacement(f, l)
      PROVE  \A i \in Slot : ~SameOsrEntry(osrBuf[i], req.fn, req.loop)'
  <2>1. BufferShrinks
    BY <1>3, BufferStep
  <2> QED
    BY <1>2, <1>4, <2>1 DEF BufferShrinks, SameOsrEntry, OsrEntryInv
<1> QED
  BY <1>1, <1>4

(* The OSR buffer never holds two jobs for one entry. *)
LEMMA UniqueStep ==
  JInv /\ OsrEntryInv /\ UniqueOsrEntry /\ [Next]_vars => UniqueOsrEntry'
<1> SUFFICES ASSUME JInv, OsrEntryInv, UniqueOsrEntry, [Next]_vars
             PROVE  UniqueOsrEntry'
  OBVIOUS
<1>1. CASE ~QueueForOsr
  <2>1. BufferShrinks
    BY <1>1, BufferStep
  <2> QED
    BY <2>1 DEF BufferShrinks, UniqueOsrEntry
<1>2. CASE QueueForOsr
  <2> PICK i \in Slot, j \in Job \ Live :
        /\ osrBuf' = [osrBuf EXCEPT ![i] = j]
        /\ info' = [k \in Job |->
                      IF k = j THEN [closure |-> req.fn, osr |-> req.loop,
                                     waiting |-> FALSE]
                      ELSE IF k = osrBuf[i] THEN Freed ELSE info[k]]
    BY <1>2 DEF QueueForOsr
  <2>1. j \notin Buffered
    BY JobAssumption DEF JInv, OwnInv, HeldIsLive, Held
  <2>2. \A k \in Slot : k # i /\ osrBuf[k] # NoJob =>
          osrBuf[k] \in Job /\ osrBuf[k] # j /\ osrBuf[k] # osrBuf[i]
    BY <2>1 DEF Buffered, JInv, IInv, TypeOK, OwnInv
  <2>3. \A k \in Slot : k # i =>
          /\ osrBuf'[k] = osrBuf[k]
          /\ osrBuf[k] # NoJob => info'[osrBuf[k]] = info[osrBuf[k]]
    BY <2>2 DEF JInv, IInv, TypeOK
  <2>4. /\ osrBuf'[i] = j
        /\ info'[j].closure = req.fn /\ info'[j].osr = req.loop
    BY DEF JInv, IInv, TypeOK
  <2>5. \A k \in Slot : ~SameOsrEntry(osrBuf[k], req.fn, req.loop)
    BY <1>2 DEF QueueForOsr, OsrEntryInv, Creating
  <2> QED
    BY <2>3, <2>4, <2>5 DEF UniqueOsrEntry, SameOsrEntry
<1> QED
  BY <1>1, <1>2

(* Two OSR jobs for the same function and loop are never in the buffer at    *)
(* once: the checks of Runtime_CompileForOnStackReplacement, made before     *)
(* CreateGraph, still hold when the job is queued.                           *)
THEOREM OneJobPerOsrEntry == Spec => []UniqueOsrEntry
<1>1. Init => OsrEntryInv /\ UniqueOsrEntry
  BY DEF Init, OsrEntryInv, Creating, FlushPc, UniqueOsrEntry
<1> QED
  BY <1>1, OsrEntryStep, UniqueStep, JobsInductive, PTL DEF Spec

-----------------------------------------------------------------------------
(* The pipeline implements the abstract set of jobs. *)

Closing == stop # "CONTINUE" \/ mpc \in FlushPc

(* What the place of a job says about its abstract state. *)
LEMMA StateOfJobs ==
  ASSUME JInv
  PROVE  /\ \A j \in Job : JobState(j) = "none" <=> j \notin Live
         /\ \A j \in Job : JobState(j) = "compiling" <=> j = tjob
         /\ \A j \in Elements(inputQ) : JobState(j) = "pending"
         /\ \A j \in Elements(outputQ) : JobState(j) = "compiled"
         /\ \A j \in Live : Waiting(j) => JobState(j) = "compiled"
         /\ mjob # NoJob => JobState(mjob) = "compiled"
<1>1. /\ tjob # NoJob => tjob \in Live /\ tjob \in Pipeline
      /\ mjob # NoJob => mjob \in Live /\ mjob \notin Pipeline
      /\ Elements(inputQ) \cup Elements(outputQ) \subseteq Live \cap Pipeline
      /\ Elements(inputQ) \cap Elements(outputQ) = {}
      /\ tjob \notin Elements(inputQ) \cup Elements(outputQ)
      /\ \A j \in Pipeline : ~Waiting(j)
      /\ NoJob \notin Job
  BY HeldAreJobs, JobAssumption
  DEF JInv, IInv, OwnInv, HeldIsLive, Held, Pipeline
<1>2. \A j \in Job : JobState(j) = "none" <=> j \notin Live
  BY DEF JobState
<1>3. \A j \in Job : JobState(j) = "compiling" <=> j = tjob
  <2>1. \A j \in Job : j = tjob => j \in Live
    BY <1>1
  <2> QED
    BY <2>1 DEF JobState
<1>4. \A j \in Elements(inputQ) : JobState(j) = "pending"
  <2>1. \A j \in Elements(inputQ) :
          /\ j \in Live /\ j # tjob /\ j \notin Elements(outputQ)
          /\ ~Waiting(j) /\ j # mjob
    BY <1>1, HeldAreJobs DEF JInv, IInv
  <2> QED
    BY <2>1 DEF JobState
<1>5. \A j \in Elements(outputQ) : JobState(j) = "compiled"
  <2>1. \A j \in Elements(outputQ) : j \in Live /\ j # tjob
    BY <1>1
  <2> QED
    BY <2>1 DEF JobState
<1>6. \A j \in Live : Waiting(j) => JobState(j) = "compiled"
  <2>1. \A j \in Live : Waiting(j) => j # tjob
    BY <1>1 DEF Live
  <2> QED
    BY <2>1 DEF JobState
<1>7. mjob # NoJob => JobState(mjob) = "compiled"
  <2>1. mjob # NoJob => mjob \in Live /\ mjob # tjob
    BY <1>1
  <2> QED
    BY <2>1 DEF JobState
<1> QED
  BY <1>2, <1>3, <1>4, <1>5, <1>6, <1>7

(* The abstract state changes for the jobs of a set only. *)
LEMMA AbstractMove ==
  ASSUME NEW S, NEW to,
         \A k \in Job : JobState(k)' = IF k \in S THEN to ELSE JobState(k)
  PROVE  Abstract!Move(S, to)
BY DEF Abstract!Move

(* A step that leaves abstract states and the closing flag alone. *)
LEMMA AbstractStutter ==
  ASSUME \A k \in Job : JobState(k)' = JobState(k), Closing' = Closing
  PROVE  UNCHANGED Abstract!vars
BY DEF Abstract!vars, Closing

(* Nothing a job's state depends on changes. *)
LEMMA SameStates ==
  ASSUME UNCHANGED <<info, tjob, outputQ, mjob>>
  PROVE  \A k \in Job : JobState(k)' = JobState(k)
BY DEF JobState, Live, Waiting

(* Jobs that nobody compiles are deleted. *)
LEMMA DeletedStates ==
  ASSUME JInv, NEW S, Delete(S), tjob' = tjob, mjob' = mjob \/ mjob \in S,
         \/ outputQ' = outputQ
         \/ Elements(outputQ) \ S = Elements(outputQ') \ S,
         mjob' \in {mjob, NoJob}
  PROVE  \A k \in Job : JobState(k)' = IF k \in S THEN "none" ELSE JobState(k)
<1>1. Live' = Live \ S
  BY DeleteLive DEF JInv, IInv
<1>2. \A k \in Job \ S : Waiting(k)' = Waiting(k)
  BY DeleteLive DEF JInv, IInv
<1>3. \A k \in Job \ S : k \in Elements(outputQ') <=> k \in Elements(outputQ)
  OBVIOUS
<1>4. \A k \in Job \ S : k = mjob' <=> k = mjob
  BY JobAssumption DEF JInv, IInv, TypeOK
<1> QED
  BY <1>1, <1>2, <1>3, <1>4 DEF JobState

(* Jobs are submitted only when neither Flush nor Stop runs. *)
LEMMA OpenWhenRunning ==
  ASSUME JInv, mpc \in {"run", "osr", "create"}
  PROVE  ~Closing
BY DEF JInv, IInv, StopInv, ReturnInv, TypeOK, StopFlag, Closing, Finishing,
       FlushPc, StopPc

(* A GC or the end of a job releases compiled jobs. *)
LEMMA AbstractRelease ==
  ASSUME NEW S, S \subseteq Job, \A j \in S : JobState(j) = "compiled",
         \A k \in Job : JobState(k)' = IF k \in S THEN "none" ELSE JobState(k),
         Closing' = Closing
  PROVE  Abstract!Next
<1>1. S \in SUBSET Abstract!In("compiled")
  BY DEF Abstract!In
<1>2. Abstract!Release(S)
  BY <1>1, AbstractMove DEF Abstract!Release, Closing
<1> QED
  BY <1>1, <1>2 DEF Abstract!Next

(* Flush and Stop drop jobs that the thread does not hold. *)
LEMMA AbstractDrop ==
  ASSUME JInv, NEW S, S \subseteq Job, tjob \notin S, Closing,
         \A k \in Job : JobState(k)' = IF k \in S THEN "none" ELSE JobState(k),
         Closing' = Closing
  PROVE  Abstract!Next
<1>1. S \cap Abstract!In("compiling") = {}
  BY StateOfJobs DEF Abstract!In
<1>2. Abstract!Drop(S)
  BY <1>1, AbstractMove DEF Abstract!Drop, Closing
<1> QED
  BY <1>2 DEF Abstract!Next

(* QueueForOptimization submits a job, and evicts at most a compiled one. *)
LEMMA AbstractSubmit ==
  ASSUME JInv, QueueForOptimization \/ QueueForOsr
  PROVE  Abstract!Next
<1> USE DEF JInv, IInv, threadVars, osrVars
<1>1. /\ UNCHANGED <<tjob, outputQ, mjob, stop>>
      /\ mpc = "create" /\ mpc' = "run" /\ req.fn # NoFunction
  BY FunctionAssumption
  DEF QueueForOptimization, QueueForOsr, RequestInv, Creating
<1>2. ~Closing /\ ~Closing'
  BY <1>1, OpenWhenRunning DEF Closing, FlushPc
<1>3. ASSUME NEW j \in Job \ Live, NEW S, S \subseteq Job,
             \A k \in S : JobState(k) = "compiled",
             Live' = (Live \ S) \cup {j}, ~Waiting(j)',
             \A k \in Job \ (S \cup {j}) : Waiting(k)' = Waiting(k)
      PROVE  Abstract!Next
  <2>1. JobState(j) = "none"
    BY <1>3, StateOfJobs
  <2>2. j \notin Held /\ j # NoJob
    BY JobAssumption DEF OwnInv, HeldIsLive
  <2>3. JobState(j)' = "pending"
    BY <1>1, <1>3, <2>2 DEF JobState, Held
  <2>4. \A k \in Job \ {j} :
          JobState(k)' = IF k \in S THEN "none" ELSE JobState(k)
    BY <1>1, <1>3 DEF JobState
  <2>5. S \in SUBSET Abstract!In("compiled")
    BY <1>3 DEF Abstract!In
  <2>6. Abstract!Submit(j, S)
    BY <1>2, <2>1, <2>3, <2>4, <2>5 DEF Abstract!Submit, Closing
  <2> QED
    BY <2>5, <2>6 DEF Abstract!Next
<1>4. CASE QueueForOptimization
  <2> PICK j \in Job \ Live :
        info' = [info EXCEPT ![j] = [closure |-> req.fn, osr |-> NoLoop,
                                     waiting |-> FALSE]]
    BY <1>4 DEF QueueForOptimization
  <2> DEFINE S == {}
  <2>1. /\ Live' = (Live \ S) \cup {j} /\ ~Waiting(j)'
        /\ \A k \in Job \ (S \cup {j}) : Waiting(k)' = Waiting(k)
    BY <1>1 DEF TypeOK, Live, Waiting
  <2>2. S \subseteq Job /\ \A k \in S : JobState(k) = "compiled"
    OBVIOUS
  <2> HIDE DEF S
  <2> QED
    BY <1>3, <2>1, <2>2
<1>5. CASE QueueForOsr
  <2> PICK i \in Slot, j \in Job \ Live :
        /\ IsFound(i)
        /\ info' = [k \in Job |->
                      IF k = j THEN [closure |-> req.fn, osr |-> req.loop,
                                     waiting |-> FALSE]
                      ELSE IF k = osrBuf[i] THEN Freed ELSE info[k]]
    BY <1>5 DEF QueueForOsr
  <2> DEFINE S == {osrBuf[i]} \ {NoJob}
  <2>1. S \subseteq Job /\ \A k \in S : Waiting(k) /\ k \in Live
    BY DEF TypeOK, IsFound, Reusable, Buffered, OwnInv, HeldIsLive, Held
  <2>2. \A k \in S : JobState(k) = "compiled"
    BY <2>1, StateOfJobs
  <2>3. /\ Live' = (Live \ S) \cup {j} /\ ~Waiting(j)'
        /\ \A k \in Job \ (S \cup {j}) : Waiting(k)' = Waiting(k)
    <3>1. j \notin S /\ \A k \in Job : k \in S <=> k = osrBuf[i]
      BY <2>1, JobAssumption
    <3>2. /\ info'[j].closure # NoFunction /\ ~info'[j].waiting
          /\ \A k \in Job \ {j} :
               info'[k] = IF k \in S THEN Freed ELSE info[k]
      BY <1>1, <3>1
    <3> HIDE DEF S
    <3> QED
      BY <2>1, <3>1, <3>2, FreedFields DEF TypeOK, Live, Waiting
  <2> HIDE DEF S
  <2> QED
    BY <1>3, <2>1, <2>2, <2>3
<1> QED
  BY <1>4, <1>5

(* The thread starts and finishes a job; Stop compiles one itself. *)
LEMMA AbstractCompile ==
  ASSUME JInv, ThreadNextInput \/ ThreadOptimizeGraph \/ StopCompileNext
  PROVE  Abstract!Next
<1> USE DEF JInv, IInv, threadVars, osrVars, mainVars
<1>1. UNCHANGED <<info, mjob, stop, mpc>> /\ Live' = Live
  BY DEF ThreadNextInput, ThreadOptimizeGraph, StopCompileNext, Live
<1>2. Closing' = Closing /\ \A k \in Job : Waiting(k)' = Waiting(k)
  BY <1>1 DEF Closing, Waiting
<1>3. ASSUME NEW j \in Job, tjob = NoJob PROVE Abstract!In("compiling") = {}
  BY <1>3, StateOfJobs, JobAssumption DEF Abstract!In
<1>4. CASE ThreadNextInput
  <2> DEFINE j == Head(inputQ)
  <2>1. /\ tjob = NoJob /\ tjob' = j /\ inputQ # <<>> /\ outputQ' = outputQ
    BY <1>4 DEF ThreadNextInput, CompileNextHasJob
  <2>2. j \in Job /\ j \in Elements(inputQ)
    BY <2>1, PopTypes, PopElements DEF TypeOK
  <2>3. JobState(j) = "pending" /\ j \in Live
    BY <2>2, StateOfJobs
  <2>4. \A k \in Job : JobState(k)' = IF k \in {j} THEN "compiling"
                                      ELSE JobState(k)
    BY <1>1, <1>2, <2>1, <2>3, JobAssumption DEF JobState
  <2>5. Abstract!Start(j)
    BY <1>2, <1>3, <2>1, <2>2, <2>3, <2>4, AbstractMove
    DEF Abstract!Start, Closing
  <2> QED
    BY <2>2, <2>5 DEF Abstract!Next
<1>5. CASE ThreadOptimizeGraph
  <2>1. tjob \in Job /\ tjob' = NoJob
    BY <1>5 DEF ThreadOptimizeGraph, CompileNextHasJob, TypeOK
  <2>2. Elements(outputQ') = Elements(outputQ) \cup {tjob}
    BY <1>5, <2>1, AppendElements DEF ThreadOptimizeGraph, TypeOK
  <2>3. tjob \in Live /\ JobState(tjob) = "compiling"
    BY <2>1, StateOfJobs
  <2>4. \A k \in Job : JobState(k)' = IF k \in {tjob} THEN "compiled"
                                      ELSE JobState(k)
    BY <1>1, <1>2, <2>1, <2>2, <2>3, JobAssumption DEF JobState
  <2>5. Abstract!Finish(tjob)
    BY <1>2, <2>1, <2>3, <2>4, AbstractMove DEF Abstract!Finish, Closing
  <2> QED
    BY <2>1, <2>5 DEF Abstract!Next
<1>6. CASE StopCompileNext
  <2> DEFINE j == Head(inputQ)
  <2>1. inputQ # <<>> /\ tpc = "exited" /\ tjob' = tjob
    BY <1>6 DEF StopCompileNext, StopInv
  <2>2. tjob = NoJob /\ Closing
    BY <2>1 DEF CompileNextHasJob, DrainInv, Closing
  <2>3. j \in Job /\ j \in Elements(inputQ)
    BY <2>1, PopTypes, PopElements DEF TypeOK
  <2>4. JobState(j) = "pending" /\ j \in Live
    BY <2>3, StateOfJobs
  <2>5. Elements(outputQ') = Elements(outputQ) \cup {j}
    BY <1>6, <2>3, AppendElements DEF StopCompileNext, TypeOK
  <2>6. \A k \in Job : JobState(k)' = IF k \in {j} THEN "compiled"
                                      ELSE JobState(k)
    BY <1>1, <1>2, <2>1, <2>2, <2>4, <2>5, JobAssumption DEF JobState
  <2>7. Abstract!CompileInline(j)
    BY <1>2, <1>3, <2>2, <2>3, <2>4, <2>6, AbstractMove
    DEF Abstract!CompileInline, Closing
  <2> QED
    BY <2>3, <2>7 DEF Abstract!Next
<1> QED
  BY <1>4, <1>5, <1>6

(* InstallOptimizedFunctions releases a regular job whose function is        *)
(* optimized already; otherwise the job stays compiled.                      *)
LEMMA AbstractInstall ==
  ASSUME JInv, InstallNext
  PROVE  Abstract!Next \/ UNCHANGED Abstract!vars
<1> USE DEF JInv, IInv, threadVars
<1> DEFINE j == Head(outputQ)
<1>1. /\ j \in Job /\ j \in Elements(outputQ)
      /\ Elements(outputQ) = {j} \cup Elements(outputQ')
  BY PopTypes, PopElements DEF InstallNext, TypeOK
<1>2. mjob = NoJob /\ tjob' = tjob /\ stop' = stop
  BY DEF InstallNext, HoldInv, Finishing, FlushPc
<1>3. Closing' = Closing
  BY <1>2 DEF InstallNext, Closing, FlushPc
<1>4. JobState(j) = "compiled" /\ j \in Live /\ j # tjob
  BY <1>1, StateOfJobs DEF OwnInv
<1>5. CASE IsOsr(j) /\ info' = [info EXCEPT ![j].waiting = TRUE] /\ mjob' = mjob
  <2>1. /\ Live' = Live /\ info'[j].waiting
        /\ \A k \in Job \ {j} : info'[k].waiting = info[k].waiting
    <3>1. info[j] \in Info
      BY <1>1, <1>5, FreedFields DEF TypeOK, IsOsr
    <3>2. /\ info'[j] = [info[j] EXCEPT !.waiting = TRUE]
          /\ \A k \in Job \ {j} : info'[k] = info[k]
      BY <1>1, <1>5 DEF TypeOK
    <3>3. info'[j].waiting = TRUE /\ info'[j].closure = info[j].closure
      BY <3>1, <3>2 DEF Info
    <3> HIDE DEF j
    <3> QED
      BY <1>1, <3>2, <3>3 DEF Live
  <2>2. \A k \in Job : JobState(k)' = JobState(k)
    BY <1>1, <1>2, <1>4, <1>5, <2>1 DEF JobState, Waiting
  <2> QED
    BY <1>3, <2>2, AbstractStutter
<1>6. CASE ~IsOsr(j) /\ Delete({j}) /\ mjob' = mjob
  <2>1. \A k \in Job : JobState(k)' = IF k \in {j} THEN "none" ELSE JobState(k)
    BY <1>1, <1>2, <1>6, DeletedStates
  <2>2. {j} \subseteq Job /\ \A k \in {j} : JobState(k) = "compiled"
    BY <1>1, <1>4
  <2> QED
    BY <1>3, <2>1, <2>2, AbstractRelease
<1>7. CASE ~IsOsr(j) /\ info' = info /\ mjob' = j
  <2>1. Live' = Live /\ \A k \in Job : Waiting(k)' = Waiting(k)
    BY <1>7 DEF Live, Waiting
  <2>2. \A k \in Job : JobState(k)' = JobState(k)
    BY <1>1, <1>2, <1>4, <1>7, <2>1, JobAssumption DEF JobState
  <2> QED
    BY <1>3, <2>2, AbstractStutter
<1> QED
  BY <1>5, <1>6, <1>7 DEF InstallNext

(* GCs and the ends of jobs release what is compiled. *)
LEMMA AbstractDispose ==
  ASSUME JInv, AgeBufferedOsrJobs \/ FinishRegular \/ FinishOsr
  PROVE  Abstract!Next
<1> USE DEF JInv, IInv, queueVars, threadVars
<1>1. CASE AgeBufferedOsrJobs
  <2> PICK i \in Slot : IsFound(i) /\ Delete({osrBuf[i]})
    BY <1>1 DEF AgeBufferedOsrJobs
  <2> DEFINE S == {osrBuf[i]} \ {NoJob}
  <2>1. UNCHANGED <<tjob, mjob, outputQ, stop, mpc>>
    BY <1>1 DEF AgeBufferedOsrJobs, mainVars
  <2>2. S \subseteq Job /\ \A k \in S : Waiting(k) /\ k \in Live
    BY DEF TypeOK, IsFound, Reusable, Buffered, OwnInv, HeldIsLive, Held
  <2>3. \A k \in S : JobState(k) = "compiled"
    BY <2>2, StateOfJobs
  <2>4. \A k \in Job : JobState(k)' = IF k \in {osrBuf[i]} THEN "none"
                                      ELSE JobState(k)
    BY <2>1, DeletedStates
  <2>5. \A k \in Job : JobState(k)' = IF k \in S THEN "none" ELSE JobState(k)
    BY <2>4, JobAssumption
  <2>6. Closing' = Closing
    BY <2>1 DEF Closing
  <2> HIDE DEF S
  <2> QED
    BY <2>2, <2>3, <2>5, <2>6, AbstractRelease
<1>2. CASE FinishRegular \/ FinishOsr
  <2>1. /\ UNCHANGED <<tjob, outputQ, stop>> /\ mjob' = NoJob
        /\ Delete({mjob}) /\ mpc = "finish" /\ mpc' \in {"install", "run"}
    BY <1>2 DEF FinishRegular, FinishOsr
  <2>2. mjob \in Job /\ mjob # NoJob
    BY <2>1 DEF HoldInv, Finishing, TypeOK
  <2>3. JobState(mjob) = "compiled"
    BY <2>2, StateOfJobs
  <2>4. \A k \in Job : JobState(k)' = IF k \in {mjob} THEN "none"
                                      ELSE JobState(k)
    BY <2>1, DeletedStates
  <2>5. Closing' = Closing
    BY <2>1 DEF Closing, FlushPc
  <2>6. {mjob} \subseteq Job /\ \A k \in {mjob} : JobState(k) = "compiled"
    BY <2>2, <2>3
  <2> QED
    BY <2>4, <2>5, <2>6, AbstractRelease
<1> QED
  BY <1>1, <1>2

(* Flush and Stop drop the jobs of the queues and of the buffer. *)
LEMMA AbstractFlush ==
  ASSUME JInv,
         \/ ThreadFlushInput \/ StopFlushInput \/ StopFlushOutput \/ StopFinish
  PROVE  Abstract!Next
<1> USE DEF JInv, IInv, queueVars, threadVars, mainVars
<1>1. /\ Closing /\ tjob = NoJob
      /\ UNCHANGED <<tjob, mjob, stop>> /\ Closing' = Closing
  BY DEF ThreadFlushInput, StopFlushInput, StopFlushOutput, StopFinish,
         StopInv, DrainInv, CompileNextHasJob, Closing, FlushPc
<1>2. ASSUME NEW S, S \subseteq Job, Delete(S),
             \/ outputQ' = outputQ
             \/ Elements(outputQ) \ S = Elements(outputQ') \ S
      PROVE  Abstract!Next
  <2>1. \A k \in Job : JobState(k)' = IF k \in S THEN "none" ELSE JobState(k)
    BY <1>1, <1>2, DeletedStates
  <2>2. tjob \notin S
    BY <1>1, <1>2, JobAssumption
  <2> QED
    BY <1>1, <1>2, <2>1, <2>2, AbstractDrop
<1>3. CASE ThreadFlushInput \/ StopFlushInput
  <2>1. /\ Delete(Regular({Head(inputQ)})) /\ outputQ' = outputQ
        /\ inputQ # <<>>
    BY <1>3 DEF ThreadFlushInput, StopFlushInput, FlushInput
  <2>2. Regular({Head(inputQ)}) \subseteq Job
    BY <2>1, PopTypes DEF Regular, TypeOK
  <2> QED
    BY <1>2, <2>1, <2>2
<1>4. CASE StopFlushOutput
  <2> DEFINE S == Regular(Elements(outputQ)) \cup Buffered
  <2>1. Delete(S) /\ outputQ' = <<>> /\ inputQ = <<>>
    BY <1>4 DEF StopFlushOutput
  <2>2. S \subseteq Job /\ Elements(outputQ) \subseteq S
    BY HeldAreJobs DEF Regular, OwnInv, Pipeline
  <2>3. Elements(outputQ') = {}
    BY <2>1, EmptyElements
  <2> HIDE DEF S
  <2>4. Elements(outputQ) \ S = Elements(outputQ') \ S
    BY <2>2, <2>3
  <2> QED
    BY <1>2, <2>1, <2>2, <2>4
<1>5. CASE StopFinish
  <2>1. Buffered \subseteq Job
    BY HeldAreJobs
  <2> QED
    BY <1>2, <1>5, <2>1 DEF StopFinish
<1> QED
  BY <1>3, <1>4, <1>5

(* When Flush returns only the job of its caller is left. *)
LEMMA AbstractReopen ==
  ASSUME JInv, FlushFinish
  PROVE  Abstract!Next
<1> USE DEF JInv, IInv, threadVars
<1> DEFINE keep == {mjob} \ {NoJob}
<1>1. /\ inputQ = <<>> /\ tjob = NoJob /\ stop = "CONTINUE"
  BY DEF FlushFinish, DrainInv, CompileNextHasJob, StopInv, TypeOK, StopFlag
<1>2. /\ Delete(Regular(Elements(outputQ)) \cup Buffered)
      /\ outputQ' = <<>> /\ osrBuf' = [i \in Slot |-> NoJob]
      /\ UNCHANGED <<inputQ, tjob, mjob, stop>> /\ mpc' = fret
  BY DEF FlushFinish
<1>3. OwnInv' /\ Held' = keep
  BY <1>1, <1>2, OwnFlushAll
<1>4. Live' = keep
  BY <1>3 DEF OwnInv, HeldIsLive
<1>5. keep \in SUBSET Abstract!In("compiled")
  BY StateOfJobs DEF Abstract!In, TypeOK
<1>6. \A k \in Job : JobState(k)' = IF k \in Job \ keep THEN "none"
                                    ELSE JobState(k)
  <2>1. \A k \in Job : k \in keep => JobState(k) = "compiled"
    BY <1>5 DEF Abstract!In
  <2>2. \A k \in Job : k \in keep => JobState(k)' = "compiled"
    BY <1>1, <1>2, <1>4 DEF JobState
  <2>3. \A k \in Job : k \notin keep => JobState(k)' = "none"
    BY <1>4 DEF JobState
  <2> QED
    BY <2>1, <2>2, <2>3
<1>7. \A j, k \in keep : j = k
  OBVIOUS
<1>8. Closing /\ ~Closing'
  BY <1>1, <1>2 DEF FlushFinish, Closing, FlushPc, TypeOK
<1>9. Abstract!In("compiling") = {}
  BY <1>1, StateOfJobs, JobAssumption DEF Abstract!In
<1> HIDE DEF keep
<1>10. Abstract!Reopen(keep)
  <2>1. Abstract!Move(Job \ keep, "none")
    BY <1>6, AbstractMove
  <2> QED
    BY <1>5, <1>7, <1>8, <1>9, <2>1 DEF Abstract!Reopen, Closing
<1> QED
  BY <1>5, <1>10 DEF Abstract!Next

(* Flush and Stop begin by closing the pipeline, unless Stop has done so     *)
(* already.                                                                  *)
LEMMA AbstractClose ==
  ASSUME JInv, FlushBegin \/ StopBegin
  PROVE  Abstract!Next \/ UNCHANGED Abstract!vars
<1>1. \A k \in Job : JobState(k)' = JobState(k)
  BY SameStates DEF FlushBegin, StopBegin, threadVars, osrVars
<1>2. Closing'
  BY DEF FlushBegin, StopBegin, Closing, FlushPc
<1>3. CASE Closing
  BY <1>1, <1>2, <1>3, AbstractStutter
<1>4. CASE ~Closing
  <2>1. Abstract!Close
    BY <1>1, <1>2, <1>4 DEF Abstract!Close, Closing
  <2> QED
    BY <2>1 DEF Abstract!Next
<1> QED
  BY <1>3, <1>4

(* Every step is a step of the abstract specification or stutters. *)
LEMMA AbstractStep ==
  JInv /\ [Next]_vars => [Abstract!Next]_Abstract!vars
<1> SUFFICES ASSUME JInv, [Next]_vars
             PROVE  Abstract!Next \/ UNCHANGED Abstract!vars
  OBVIOUS
<1> USE DEF queueVars, osrVars, edgeVars, threadVars, mainVars
<1>0. UNCHANGED <<info, tjob, outputQ, mjob>> /\ Closing' = Closing
        => UNCHANGED Abstract!vars
  BY SameStates, AbstractStutter
<1>a. ASSUME NEW f, NEW l, mpc \in {"run", "osr"},
             CompileForOnStackReplacement(f, l)
      PROVE  UNCHANGED Abstract!vars
  <2>1. /\ UNCHANGED <<info, tjob, outputQ, stop>>
        /\ mpc' \in {"run", "finish", "create"}
    BY <1>a DEF CompileForOnStackReplacement
  <2>2. Closing' = Closing
    BY <1>a, <2>1 DEF Closing, FlushPc
  <2>3. CASE mjob' = mjob
    BY <1>0, <2>1, <2>2, <2>3
  <2>4. CASE mjob' # mjob
    <3> PICK i \in Slot : IsReadyCandidate(i, f, l) /\ mjob' = osrBuf[i]
      BY <1>a, <2>4 DEF CompileForOnStackReplacement
    <3>1. mjob = NoJob /\ Waiting(osrBuf[i])
      BY <1>a DEF JInv, HoldInv, Finishing, FlushPc, IsReadyCandidate, IsFirst
    <3>2. Live' = Live /\ \A k \in Job : Waiting(k)' = Waiting(k)
      BY <2>1 DEF Live, Waiting
    <3>3. \A k \in Job : JobState(k)' = JobState(k)
      BY <2>1, <3>1, <3>2, JobAssumption DEF JobState
    <3> QED
      BY <2>2, <3>3, AbstractStutter
  <2> QED
    BY <2>3, <2>4
<1>1. CASE Script
  <2>1. ASSUME NEW f \in Function,
               \/ Optimize(f) \/ AttemptOnStackReplacement(f)
               \/ CompileOptimized(f) \/ Deoptimize(f)
               \/ TryInstallOptimizedCode(f)
        PROVE  UNCHANGED Abstract!vars
    <3>1. UNCHANGED <<info, tjob, outputQ, mjob>> /\ Closing' = Closing
      BY <2>1 DEF Optimize, AttemptOnStackReplacement, CompileOptimized,
                  Deoptimize, TryInstallOptimizedCode, Closing, FlushPc
    <3> QED
      BY <1>0, <3>1
  <2>2. ASSUME NEW f \in Function, NEW l \in Loop, OnStackReplacement(f, l)
        PROVE  UNCHANGED Abstract!vars
    BY <1>a, <2>2 DEF OnStackReplacement
  <2>3. ASSUME NEW f \in Function, NEW l \in Loop, OsrAfterStackCheck(f, l)
        PROVE  UNCHANGED Abstract!vars
    <3>1. UNCHANGED <<info, tjob, outputQ, mjob>> /\ Closing' = Closing
      BY <2>3 DEF OsrAfterStackCheck, Closing, FlushPc
    <3> QED
      BY <1>0, <3>1
  <2>4. CASE CallbackEnter \/ CallbackReturn \/ Unblock
    <3>1. UNCHANGED <<info, tjob, outputQ, mjob>> /\ Closing' = Closing
      BY <2>4 DEF CallbackEnter, CallbackReturn, Unblock, Closing, FlushPc
    <3> QED
      BY <1>0, <3>1
  <2> QED
    BY <1>1, <2>1, <2>2, <2>3, <2>4, AbstractDispose, AbstractClose DEF Script
<1>2. CASE HandleInterrupts \/ AddToOsrBufferSpins
  <2>1. UNCHANGED <<info, tjob, outputQ, mjob>> /\ Closing' = Closing
    BY <1>2 DEF HandleInterrupts, AddToOsrBufferSpins, Closing, FlushPc
  <2> QED
    BY <1>0, <2>1
<1>3. CASE Compile
  <2>1. CASE CreateGraphFails
    <3>1. UNCHANGED <<info, tjob, outputQ, mjob>> /\ Closing' = Closing
      BY <2>1 DEF CreateGraphFails, Closing, FlushPc
    <3> QED
      BY <1>0, <3>1
  <2> QED
    BY <1>3, <2>1, AbstractSubmit, AbstractDispose DEF Compile
<1>4. CASE Continue
  <2>1. CASE OsrAfterInterrupt
    BY <1>a, <2>1 DEF OsrAfterInterrupt
  <2>2. CASE InstallReturn \/ FlushSignal \/ FlushWait \/ StopSignal
    <3>1. UNCHANGED <<info, tjob, outputQ, mjob>> /\ Closing' = Closing
      BY <2>2 DEF InstallReturn, FlushSignal, FlushWait, StopSignal,
                  SignalThread, AwaitThread, Closing, FlushPc, JInv, IInv,
                  TypeOK
    <3> QED
      BY <1>0, <3>1
  <2>3. CASE StopWait \/ StopInstall
    <3>1. UNCHANGED <<info, tjob, outputQ, mjob>> /\ Closing' = Closing
      BY <2>3 DEF StopWait, AwaitThread, StopInstall, Closing, FlushPc
    <3> QED
      BY <1>0, <3>1
  <2> QED
    BY <1>4, <2>1, <2>2, <2>3, AbstractInstall, AbstractFlush, AbstractReopen,
       AbstractCompile DEF Continue
<1>5. CASE Thread
  <2>1. CASE \/ ThreadWait \/ ThreadSwitch \/ ThreadAck
             \/ ThreadRequestInstallCode
    <3>1. UNCHANGED <<info, tjob, outputQ, mjob>> /\ Closing' = Closing
      BY <2>1 DEF ThreadWait, ThreadSwitch, ThreadAck,
                  ThreadRequestInstallCode, Closing
    <3> QED
      BY <1>0, <3>1
  <2>2. CASE ThreadFlushed
    <3>1. mpc \in FlushPc
      BY <2>2 DEF ThreadFlushed, JInv, IInv, StopInv, FlushPc
    <3>2. UNCHANGED <<info, tjob, outputQ, mjob>> /\ Closing' = Closing
      BY <2>2, <3>1 DEF ThreadFlushed, Closing
    <3> QED
      BY <1>0, <3>2
  <2> QED
    BY <1>5, <2>1, <2>2, AbstractFlush, AbstractCompile DEF Thread
<1>6. CASE Terminated \/ UNCHANGED vars
  <2>1. UNCHANGED <<info, tjob, outputQ, mjob>> /\ Closing' = Closing
    BY <1>6 DEF Terminated, vars, Closing
  <2> QED
    BY <1>0, <2>1
<1> QED
  BY <1>1, <1>2, <1>3, <1>4, <1>5, <1>6 DEF Next

(* The two queues, the OSR buffer, the semaphores and the stop flag together *)
(* implement the abstract set of jobs: a job is never released while it is   *)
(* compiled, never dropped unless everything is, and Flush returns with      *)
(* nothing but its caller's job.                                             *)
THEOREM Refinement == Spec => ImplementsJobs
<1>1. Init => Abstract!Init
  <2> SUFFICES ASSUME Init PROVE Abstract!Init
    OBVIOUS
  <2>1. \A j \in Job : JobState(j) = "none"
    BY FreedFields DEF Init, JobState, Live
  <2> QED
    BY <2>1 DEF Init, Abstract!Init, FlushPc
<1> QED
  BY <1>1, AbstractStep, JobsInductive, PTL
  DEF Spec, ImplementsJobs, Abstract!Spec

-----------------------------------------------------------------------------
(* Back edges and gates, when no interrupt calls back into JavaScript. *)

(* Somebody will open the gate at l: a job for l that is not ready yet is in *)
(* the buffer, or the main thread itself is working on a request for l.      *)
JobWillOpen(l) == \E j \in Buffered : ~Waiting(j) /\ info[j].osr = l
RequestWillOpen(l) == req.loop = l /\ (Creating \/ (Finishing /\ IsOsr(mjob)))

(* An OSR request is under way. *)
Requested ==
  \/ mpc = "osr" \/ iret = "osr"
  \/ (Creating \/ (Finishing /\ IsOsr(mjob))) /\ req.loop # NoLoop

(* Its loop belongs to its function and is still patched. *)
RequestEdgeInv ==
  /\ suspended = NoRequest
  /\ Requested => /\ req.fn \in Function /\ req.loop \in Loop
                  /\ SharedOf[req.fn] = LoopOf[req.loop]
                  /\ edge[req.loop] # "interrupt"
  /\ Finishing /\ IsOsr(mjob) => req.loop # NoLoop

(* A gated back edge has somebody who will open it. *)
GateInv ==
  \A l \in Loop : edge[l] = "gated" =>
    JobWillOpen(l) \/ RequestWillOpen(l) \/ mpc \in {"spin", "stopped"}

(* The inductive invariant of the back edge tables. *)
EdgeInv == RequestEdgeInv /\ BackEdgesMatchLevel /\ GateInv

(* A function waiting for its code has a job that will bring it. *)
QueuedInv ==
  mpc \notin {"stopFlush", "stopOsr", "stopped"} =>
    \A f \in Function : code[f] = "queued" =>
      \E j \in Live : ~IsOsr(j) /\ info[j].closure = f

-----------------------------------------------------------------------------
(* BackEdgeTable. *)

(* Revert brings the whole table back to level 0. *)
LEMMA RevertMatches ==
  ASSUME TypeOK, BackEdgesMatchLevel, NEW s, Revert(s)
  PROVE  /\ BackEdgesMatchLevel'
         /\ \A l \in Loop : LoopOf[l] = s => edge'[l] = "interrupt"
         /\ \A l \in Loop : edge'[l] = "gated" => edge[l] = "gated"
<1>1. \A l \in Loop : LoopOf[l] \in Shared /\ LoopDepth[l] \in 1..MaxNesting
  BY LoopAssumption
<1>2. \A t \in Shared : level'[t] = IF t = s THEN 0 ELSE level[t]
  BY DEF TypeOK, Revert
<1>3. \A l \in Loop :
        edge'[l] = IF LoopOf[l] = s /\ LoopDepth[l] <= level[s]
                   THEN "interrupt" ELSE edge[l]
  BY DEF Revert
<1>4. \A l \in Loop : LoopOf[l] = s => edge'[l] = "interrupt"
  BY <1>3 DEF BackEdgesMatchLevel
<1>5. \A l \in Loop : ~(LoopDepth[l] <= 0)
  BY <1>1, LoopAssumption
<1> QED
  BY <1>1, <1>2, <1>3, <1>4, <1>5 DEF BackEdgesMatchLevel

(* The stack check of a request that comes to nothing is undone with the     *)
(* rest of the table, because its loop is one of the patched ones.           *)
LEMMA AddAndRevertMatches ==
  ASSUME TypeOK, BackEdgesMatchLevel, NEW l \in Loop, edge[l] # "interrupt",
         AddStackCheckAndRevert(LoopOf[l], l)
  PROVE  Revert(LoopOf[l])
<1>1. LoopDepth[l] <= level[LoopOf[l]]
  BY DEF BackEdgesMatchLevel
<1> QED
  BY <1>1 DEF AddStackCheckAndRevert, Revert

(* The other operations keep the table consistent. *)
LEMMA PatchMatches ==
  ASSUME TypeOK, BackEdgesMatchLevel, NEW s \in Shared, Patch(s)
  PROVE  /\ BackEdgesMatchLevel'
         /\ \A l \in Loop : edge'[l] \in {edge[l], "osr"}
<1>1. \A l \in Loop : LoopOf[l] \in Shared /\ LoopDepth[l] \in Nat
  BY LoopAssumption
<1>2. \A t \in Shared : level'[t] = IF t = s THEN level[s] + 1 ELSE level[t]
  BY DEF TypeOK, Patch
<1>3. \A l \in Loop :
        edge'[l] = IF LoopOf[l] = s /\ LoopDepth[l] = level[s] + 1
                   THEN "osr" ELSE edge[l]
  BY DEF Patch
<1>4. level[s] \in Nat
  BY LoopAssumption DEF TypeOK
<1>5. \A l \in Loop : LoopDepth[l] <= level[s] + 1
                        <=> LoopDepth[l] <= level[s] \/ LoopDepth[l] = level[s] + 1
  BY <1>1, <1>4
<1>6. BackEdgesMatchLevel'
  <2> SUFFICES ASSUME NEW l \in Loop
               PROVE  LoopDepth[l] <= level'[LoopOf[l]] <=> edge'[l] # "interrupt"
    BY DEF BackEdgesMatchLevel
  <2>1. CASE LoopOf[l] = s
    BY <1>2, <1>3, <1>5, <2>1 DEF BackEdgesMatchLevel
  <2>2. CASE LoopOf[l] # s
    BY <1>1, <1>2, <1>3, <2>2 DEF BackEdgesMatchLevel
  <2> QED
    BY <2>1, <2>2
<1> QED
  BY <1>3, <1>6

(* Adding and removing stack checks, or doing nothing. *)
LEMMA StackCheckMatches ==
  ASSUME TypeOK, BackEdgesMatchLevel, NEW l, NEW L,
         \/ l \in Loop /\ edge[l] # "interrupt" /\ AddStackCheck(l)
         \/ RemoveStackChecks(L)
         \/ UNCHANGED edgeVars
  PROVE  /\ BackEdgesMatchLevel'
         /\ \A k \in Loop : edge'[k] = "interrupt" <=> edge[k] = "interrupt"
<1>1. level' = level
  BY DEF AddStackCheck, RemoveStackChecks, edgeVars
<1>2. \A k \in Loop : edge'[k] = "interrupt" <=> edge[k] = "interrupt"
  BY DEF TypeOK, AddStackCheck, RemoveStackChecks, edgeVars
<1> QED
  BY <1>1, <1>2 DEF BackEdgesMatchLevel

-----------------------------------------------------------------------------
(* The request of the main thread and the table. *)

(* Runtime_CompileForOnStackReplacement on a patched back edge of f. *)
LEMMA EdgeCompileForOsr ==
  ASSUME JInv, EdgeInv, NEW f \in Function, NEW l \in Loop,
         mpc \in {"run", "osr"}, SharedOf[f] = LoopOf[l],
         edge[l] # "interrupt", CompileForOnStackReplacement(f, l)
  PROVE  RequestEdgeInv' /\ BackEdgesMatchLevel'
<1> USE DEF JInv, IInv, EdgeInv
<1>1. iret' = "run" /\ suspended' = suspended /\ info' = info
  BY DEF CompileForOnStackReplacement, ReturnInv, Finishing, FlushPc
<1>2. CASE mpc' = "run"
  <2>1. RequestEdgeInv'
    BY <1>1, <1>2 DEF RequestEdgeInv, Requested, Creating, Finishing, FlushPc
  <2>2. \/ Revert(SharedOf[f])
        \/ AddStackCheck(l)
        \/ AddStackCheckAndRevert(SharedOf[f], l)
    BY <1>2 DEF CompileForOnStackReplacement
  <2> QED
    BY <2>1, <2>2, RevertMatches, AddAndRevertMatches, StackCheckMatches
<1>3. CASE mpc' # "run"
  <2>1. /\ AddStackCheck(l) /\ req' = [fn |-> f, loop |-> l]
        /\ mpc' \in {"create", "finish"}
    BY <1>3 DEF CompileForOnStackReplacement
  <2>2. BackEdgesMatchLevel' /\ edge'[l] # "interrupt"
    BY <2>1, StackCheckMatches
  <2>3. RequestEdgeInv'
    BY <1>1, <2>1, <2>2, LoopAssumption DEF RequestEdgeInv
  <2> QED
    BY <2>2, <2>3
<1> QED
  BY <1>2, <1>3

(* A step that leaves the request and the tables alone, or only adds to the  *)
(* patched edges.                                                            *)
LEMMA RequestEdgeKept ==
  ASSUME RequestEdgeInv, suspended' = suspended, req' = req,
         \A l \in Loop : edge'[l] = "interrupt" => edge[l] = "interrupt",
         Requested' => Requested,
         Finishing' /\ IsOsr(mjob)' => Finishing /\ IsOsr(mjob)
  PROVE  RequestEdgeInv'
BY DEF RequestEdgeInv

(* The main thread is not at work on an OSR request. *)
LEMMA NoRequestKept ==
  ASSUME RequestEdgeInv, suspended' = suspended,
         ~Requested', ~(Finishing' /\ IsOsr(mjob)')
  PROVE  RequestEdgeInv'
BY DEF RequestEdgeInv

(* Every step keeps the table consistent and the request on a patched edge. *)
LEMMA EdgeStep ==
  ASSUME ~ApiCallbacks, JInv, EdgeInv, [Next]_vars
  PROVE  RequestEdgeInv' /\ BackEdgesMatchLevel'
<1> DEFINE Goal == RequestEdgeInv' /\ BackEdgesMatchLevel'
           kept == mjob # NoJob => IsOsr(mjob)' = IsOsr(mjob)
<1>0. TypeOK /\ RequestEdgeInv /\ BackEdgesMatchLevel
  BY DEF JInv, IInv, EdgeInv
<1>a. UNCHANGED edgeVars => BackEdgesMatchLevel' /\ edge' = edge
  BY <1>0 DEF BackEdgesMatchLevel, edgeVars
<1> USE DEF queueVars, osrVars, threadVars, mainVars
<1>1. CASE Script
  <2>1. ASSUME NEW f \in Function, Optimize(f) \/ Deoptimize(f) PROVE Goal
    <3>1. UNCHANGED <<edgeVars, mainVars, info>>
      BY <2>1 DEF Optimize, Deoptimize
    <3> QED
      BY <1>0, <1>a, <3>1, RequestEdgeKept
      DEF Requested, Finishing, Creating, IsOsr
  <2>2. ASSUME NEW f \in Function, AttemptOnStackReplacement(f) PROVE Goal
    <3>1. Patch(SharedOf[f]) /\ UNCHANGED <<mainVars, info>>
      BY <2>2 DEF AttemptOnStackReplacement
    <3>2. SharedOf[f] \in Shared
      BY FunctionAssumption
    <3>3. /\ BackEdgesMatchLevel'
          /\ \A l \in Loop : edge'[l] \in {edge[l], "osr"}
      BY <1>0, <3>1, <3>2, PatchMatches
    <3> QED
      BY <1>0, <3>1, <3>3, RequestEdgeKept
      DEF Requested, Finishing, Creating, IsOsr
  <2>3. ASSUME NEW f \in Function, CompileOptimized(f) PROVE Goal
    <3>1. /\ UNCHANGED <<edgeVars, suspended, iret, mjob>> /\ mpc = "run"
          /\ \/ mpc' = "run"
             \/ mpc' = "create" /\ req' = [fn |-> f, loop |-> NoLoop]
      BY <2>3 DEF CompileOptimized
    <3>2. iret = "run"
      BY <3>1 DEF JInv, IInv, ReturnInv, Finishing, FlushPc
    <3>3. ~Requested' /\ ~Finishing'
      BY <3>1, <3>2 DEF Requested, Creating, Finishing, FlushPc
    <3> QED
      BY <1>0, <1>a, <3>1, <3>3, NoRequestKept
  <2>4. ASSUME NEW f \in Function, TryInstallOptimizedCode(f) PROVE Goal
    <3>1. /\ UNCHANGED <<edgeVars, suspended>>
          /\ mpc' = "install" /\ iret' = "run"
      BY <2>4 DEF TryInstallOptimizedCode
    <3> QED
      BY <1>0, <1>a, <3>1, NoRequestKept
      DEF Requested, Creating, Finishing, FlushPc
  <2>5. ASSUME NEW f \in Function, NEW l \in Loop, OnStackReplacement(f, l)
        PROVE  Goal
    BY <2>5, EdgeCompileForOsr DEF OnStackReplacement
  <2>6. ASSUME NEW f \in Function, NEW l \in Loop, OsrAfterStackCheck(f, l)
        PROVE  Goal
    <3>1. /\ UNCHANGED <<edgeVars, suspended, mjob>> /\ mpc = "run"
          /\ mpc' \in {"install", "osr"} /\ req' = [fn |-> f, loop |-> l]
          /\ SharedOf[f] = LoopOf[l] /\ edge[l] = "gated"
      BY <2>6 DEF OsrAfterStackCheck
    <3>2. ~Finishing'
      BY <3>1 DEF Finishing, FlushPc
    <3> QED
      BY <1>0, <1>a, <3>1, <3>2 DEF RequestEdgeInv
  <2>7. CASE CallbackEnter \/ CallbackReturn
    BY <1>0, <2>7 DEF CallbackEnter, CallbackReturn, RequestEdgeInv
  <2>8. CASE AgeBufferedOsrJobs
    <3> PICK i \in Slot : Delete({osrBuf[i]})
      BY <2>8 DEF AgeBufferedOsrJobs
    <3>1. {osrBuf[i]} \subseteq Pipeline \cup Buffered \cup {NoJob}
      BY DEF Buffered
    <3>2. UNCHANGED <<edgeVars, mainVars>>
      BY <2>8 DEF AgeBufferedOsrJobs
    <3>3. kept
      BY <3>1, <3>2, MainJobKept
    <3>4. Finishing => mjob # NoJob
      BY DEF JInv, HoldInv
    <3> QED
      BY <1>0, <1>a, <3>2, <3>3, <3>4, RequestEdgeKept
      DEF Requested, Finishing, Creating
  <2>9. CASE Unblock
    <3>1. UNCHANGED <<edgeVars, mainVars, info>>
      BY <2>9 DEF Unblock
    <3> QED
      BY <1>0, <1>a, <3>1, RequestEdgeKept
      DEF Requested, Finishing, Creating, IsOsr
  <2>10. CASE FlushBegin
    <3>1. /\ UNCHANGED <<edgeVars, suspended, info, mjob, req, iret>>
          /\ mpc' = "flushSignal" /\ fret' = mpc
          /\ mpc \in {"run", "create", "finish"}
      BY <2>10 DEF FlushBegin
    <3>2. Creating' = Creating /\ Finishing' = Finishing
      BY <3>1 DEF Creating, Finishing, FlushPc
    <3> QED
      BY <1>0, <1>a, <3>1, <3>2, RequestEdgeKept DEF Requested, IsOsr
  <2>11. CASE StopBegin
    <3>1. /\ UNCHANGED <<edgeVars, suspended, iret>>
          /\ mpc = "run" /\ mpc' = "stopSignal"
      BY <2>11 DEF StopBegin
    <3>2. iret = "run"
      BY <3>1 DEF JInv, IInv, ReturnInv, Finishing, FlushPc
    <3> QED
      BY <1>0, <1>a, <3>1, <3>2, NoRequestKept
      DEF Requested, Creating, Finishing, FlushPc
  <2> QED
    BY <1>1, <2>1, <2>2, <2>3, <2>4, <2>5, <2>6, <2>7, <2>8, <2>9, <2>10,
       <2>11 DEF Script
<1>2. CASE HandleInterrupts \/ AddToOsrBufferSpins
  <2>1. UNCHANGED <<edgeVars, suspended, req>> /\ (iret' = iret \/ iret' = "run")
        /\ mpc' \in {"install", "spin"}
    BY <1>2 DEF HandleInterrupts, AddToOsrBufferSpins
  <2>2. ~Finishing' /\ (Requested' => Requested)
    BY <2>1 DEF Requested, Creating, Finishing, FlushPc
  <2> QED
    BY <1>0, <1>a, <2>1, <2>2, RequestEdgeKept
<1>3. CASE Compile
  <2>1. iret = "osr" => mpc \notin {"create"} /\ ~(mpc = "finish" /\ IsOsr(mjob))
    BY DEF JInv, IInv, ReturnInv, Finishing, FlushPc
  <2>2. CASE CreateGraphFails \/ FinishOsr
    <3>1. /\ UNCHANGED <<suspended, iret>> /\ mpc' = "run" /\ iret # "osr"
          /\ Revert(SharedOf[req.fn]) \/ UNCHANGED edgeVars
      BY <2>1, <2>2 DEF CreateGraphFails, FinishOsr
    <3>2. BackEdgesMatchLevel'
      BY <1>0, <1>a, <3>1, RevertMatches
    <3> QED
      BY <1>0, <3>1, <3>2, NoRequestKept
      DEF Requested, Creating, Finishing, FlushPc
  <2>3. CASE QueueForOptimization \/ QueueForOsr
    <3>1. /\ UNCHANGED <<suspended, iret, edgeVars>> /\ mpc' = "run"
          /\ iret # "osr"
      BY <2>1, <2>3 DEF QueueForOptimization, QueueForOsr
    <3> QED
      BY <1>0, <1>a, <3>1, NoRequestKept
      DEF Requested, Creating, Finishing, FlushPc
  <2>4. CASE FinishRegular
    <3>1. UNCHANGED <<suspended, iret, edgeVars, req>> /\ mpc' = "install"
      BY <2>4 DEF FinishRegular
    <3> QED
      BY <1>0, <1>a, <3>1, RequestEdgeKept
      DEF Requested, Creating, Finishing, FlushPc
  <2> QED
    BY <1>3, <2>2, <2>3, <2>4 DEF Compile
<1>4. CASE Continue
  <2>1. CASE OsrAfterInterrupt
    <3>1. /\ req.fn \in Function /\ req.loop \in Loop
          /\ SharedOf[req.fn] = LoopOf[req.loop]
          /\ edge[req.loop] # "interrupt"
      BY <1>0, <2>1 DEF OsrAfterInterrupt, RequestEdgeInv, Requested
    <3> QED
      BY <2>1, <3>1, EdgeCompileForOsr DEF OsrAfterInterrupt
  <2>2. CASE InstallNext
    <3>1. /\ UNCHANGED <<suspended, iret, req>>
          /\ RemoveStackChecks({info[Head(outputQ)].osr}) \/ UNCHANGED edgeVars
          /\ \/ mpc' = "install"
             \/ /\ mpc' = "finish" /\ mjob' = Head(outputQ)
                /\ ~IsOsr(Head(outputQ)) /\ info' = info
      BY <2>2 DEF InstallNext
    <3>2. /\ BackEdgesMatchLevel'
          /\ \A k \in Loop : edge'[k] = "interrupt" <=> edge[k] = "interrupt"
      BY <1>0, <3>1, StackCheckMatches
    <3>3. ~(Finishing' /\ IsOsr(mjob)') /\ ~Creating'
      BY <3>1 DEF Finishing, Creating, FlushPc, IsOsr
    <3> QED
      BY <1>0, <3>1, <3>2, <3>3, RequestEdgeKept DEF Requested
  <2>3. CASE InstallReturn
    <3>1. /\ UNCHANGED <<suspended, edgeVars, req>> /\ mpc' = iret
          /\ iret' = "run" /\ iret \in {"run", "osr", "stopOsr"}
      BY <1>0, <2>3 DEF InstallReturn, TypeOK
    <3> QED
      BY <1>0, <1>a, <3>1, RequestEdgeKept
      DEF Requested, Creating, Finishing, FlushPc
  <2>4. CASE FlushSignal \/ FlushWait
    <3>1. /\ UNCHANGED <<suspended, edgeVars, req, iret, fret, info, mjob>>
          /\ mpc \in FlushPc /\ mpc' \in FlushPc
      BY <2>4 DEF FlushSignal, FlushWait, SignalThread, AwaitThread, FlushPc
    <3> QED
      BY <1>0, <1>a, <3>1, RequestEdgeKept
      DEF Requested, Creating, Finishing, FlushPc, IsOsr
  <2>5. CASE FlushFinish
    <3>1. /\ UNCHANGED <<suspended, req, iret, mjob>>
          /\ mpc = "flushOut" /\ mpc' = fret
          /\ fret \in {"run", "create", "finish"}
          /\ RemoveStackChecks({info[j].osr : j \in {b \in Buffered : ~Waiting(b)}})
          /\ Delete(Regular(Elements(outputQ)) \cup Buffered)
      BY <1>0, <2>5 DEF FlushFinish, TypeOK
    <3>2. /\ BackEdgesMatchLevel'
          /\ \A k \in Loop : edge'[k] = "interrupt" <=> edge[k] = "interrupt"
      BY <1>0, <3>1, StackCheckMatches
    <3>3. Creating' = Creating /\ Finishing' = Finishing
      BY <3>1 DEF Creating, Finishing, FlushPc
    <3>4. Regular(Elements(outputQ)) \cup Buffered
            \subseteq Pipeline \cup Buffered \cup {NoJob}
      BY DEF Regular, Pipeline
    <3>5. kept /\ (Finishing => mjob # NoJob)
      BY <3>1, <3>4, MainJobKept DEF JInv, HoldInv
    <3>6. Requested' => Requested
      BY <3>1, <3>3, <3>5 DEF Requested
    <3> QED
      BY <1>0, <3>1, <3>2, <3>3, <3>5, <3>6, RequestEdgeKept
  <2>6. CASE \/ StopSignal \/ StopWait \/ StopFlushInput \/ StopFlushOutput
             \/ StopCompileNext \/ StopInstall \/ StopFinish
    <3>1. /\ UNCHANGED <<suspended, edgeVars, req>>
          /\ mpc' \in {"stopWait", "stopCompile", "stopFlush", "stopped",
                       "install"}
          /\ iret' = iret \/ iret' = "stopOsr"
      BY <2>6 DEF StopSignal, StopWait, SignalThread, AwaitThread,
                  StopFlushInput, StopFlushOutput, StopCompileNext,
                  StopInstall, StopFinish
    <3>2. ~Finishing' /\ (Requested' => Requested)
      BY <3>1 DEF Requested, Creating, Finishing, FlushPc
    <3> QED
      BY <1>0, <1>a, <3>1, <3>2, RequestEdgeKept
  <2> QED
    BY <1>4, <2>1, <2>2, <2>3, <2>4, <2>5, <2>6 DEF Continue
<1>5. CASE Thread
  <2>1. UNCHANGED <<edgeVars, mainVars>>
    BY <1>5 DEF Thread, ThreadWait, ThreadSwitch, ThreadFlushInput,
                ThreadFlushed, ThreadAck, ThreadNextInput,
                ThreadOptimizeGraph, ThreadRequestInstallCode
  <2>2. kept
    <3>1. CASE ThreadFlushInput
      <4>1. Delete(Regular({Head(inputQ)})) /\ inputQ # <<>>
        BY <3>1 DEF ThreadFlushInput, FlushInput
      <4>2. Head(inputQ) \in Elements(inputQ)
        BY <1>0, <4>1, PopElements DEF TypeOK
      <4>3. Regular({Head(inputQ)}) \subseteq Pipeline \cup Buffered \cup {NoJob}
        BY <4>2 DEF Regular, Pipeline
      <4> QED
        BY <2>1, <4>1, <4>3, MainJobKept
    <3>2. CASE ~ThreadFlushInput
      <4>1. info' = info
        BY <1>5, <3>2
        DEF Thread, ThreadWait, ThreadSwitch, ThreadFlushed, ThreadAck,
            ThreadNextInput, ThreadOptimizeGraph, ThreadRequestInstallCode
      <4> QED
        BY <2>1, <4>1 DEF IsOsr
    <3> QED
      BY <3>1, <3>2
  <2>3. Finishing => mjob # NoJob
    BY DEF JInv, HoldInv
  <2> QED
    BY <1>0, <1>a, <2>1, <2>2, <2>3, RequestEdgeKept
    DEF Requested, Creating, Finishing
<1>6. CASE Terminated \/ UNCHANGED vars
  <2>1. UNCHANGED <<edgeVars, mainVars, info>>
    BY <1>6 DEF Terminated, vars
  <2> QED
    BY <1>0, <1>a, <2>1, RequestEdgeKept DEF Requested, Finishing, Creating, IsOsr
<1> QED
  BY <1>1, <1>2, <1>3, <1>4, <1>5, <1>6 DEF Next

-----------------------------------------------------------------------------
(* Gates. *)

(* A job that is not ready stays in the buffer, and a gate has its job. *)
NotReadyKept ==
  \A i \in Slot : osrBuf[i] # NoJob /\ ~Waiting(osrBuf[i]) =>
    /\ osrBuf'[i] = osrBuf[i]
    /\ info'[osrBuf[i]].osr = info[osrBuf[i]].osr
    /\ ~info'[osrBuf[i]].waiting

(* The gate at l keeps the job that opens it. *)
LEMMA JobStillOpens ==
  ASSUME NotReadyKept, NEW l, JobWillOpen(l)
  PROVE  JobWillOpen(l)'
<1> PICK i \in Slot : /\ osrBuf[i] # NoJob /\ ~Waiting(osrBuf[i])
                      /\ info[osrBuf[i]].osr = l
  BY DEF JobWillOpen, Buffered
<1> DEFINE j == osrBuf[i]
<1>1. osrBuf'[i] = j /\ info'[j].osr = l /\ ~info'[j].waiting /\ j # NoJob
  BY DEF NotReadyKept
<1>2. j \in Buffered'
  BY <1>1 DEF Buffered
<1> QED
  BY <1>1, <1>2 DEF JobWillOpen, Waiting

(* Nothing changes in the buffer. *)
LEMMA SameBuffer ==
  ASSUME UNCHANGED <<osrBuf, info>>
  PROVE  NotReadyKept
BY DEF NotReadyKept, Waiting

(* Jobs are deleted, but none that is in the buffer and not ready. *)
LEMMA DeleteKeepsNotReady ==
  ASSUME TypeOK, NEW S, Delete(S),
         \A i \in Slot : osrBuf[i] # NoJob /\ ~Waiting(osrBuf[i]) =>
           osrBuf'[i] = osrBuf[i] /\ osrBuf[i] \notin S
  PROVE  NotReadyKept
<1> SUFFICES ASSUME NEW i \in Slot, osrBuf[i] # NoJob, ~Waiting(osrBuf[i])
             PROVE  info'[osrBuf[i]] = info[osrBuf[i]]
  BY DEF NotReadyKept, Waiting
<1>1. osrBuf[i] \in Job \ S
  BY DEF TypeOK
<1> QED
  BY <1>1 DEF Delete

(* A search without end and the end of the isolate are final. *)
LEMMA DeadEnd ==
  ASSUME JInv, [Next]_vars, mpc \in {"spin", "stopped"}
  PROVE  mpc' = mpc
BY DEF Next, Script, Optimize, AttemptOnStackReplacement, CompileOptimized,
       Deoptimize, TryInstallOptimizedCode, OnStackReplacement,
       OsrAfterStackCheck, CallbackEnter, CallbackReturn, AgeBufferedOsrJobs,
       Unblock, FlushBegin, StopBegin, HandleInterrupts, Compile,
       CreateGraphFails, QueueForOptimization, QueueForOsr, FinishRegular,
       FinishOsr, Continue, OsrAfterInterrupt, InstallNext, InstallReturn,
       FlushSignal, FlushWait, StopSignal, StopWait, SignalThread, AwaitThread,
       FlushFinish, StopFlushInput, StopFlushOutput, StopCompileNext,
       StopInstall, StopFinish, AddToOsrBufferSpins, Thread, ThreadWait,
       ThreadSwitch, ThreadFlushInput, ThreadFlushed, ThreadAck,
       ThreadNextInput, ThreadOptimizeGraph, ThreadRequestInstallCode,
       Terminated, vars, mainVars

(* A step that gates no loop and leaves the request alone keeps the gates.  *)
LEMMA GatesKept ==
  ASSUME JInv, GateInv, [Next]_vars, NotReadyKept,
         \A l \in Loop : edge'[l] = "gated" => edge[l] = "gated",
         \/ \A l \in Loop : RequestWillOpen(l) => RequestWillOpen(l)'
         \/ mpc' \in {"spin", "stopped"}
  PROVE  GateInv'
BY JobStillOpens, DeadEnd DEF GateInv

(* FindReadyOSRCandidate takes a ready job; a gate that is added has a job   *)
(* that is not ready, or the request itself.                                 *)
LEMMA GateCompileForOsr ==
  ASSUME JInv, EdgeInv, NEW f \in Function, NEW l \in Loop,
         mpc \in {"run", "osr"}, SharedOf[f] = LoopOf[l],
         edge[l] # "interrupt", CompileForOnStackReplacement(f, l)
  PROVE  GateInv'
<1> USE DEF JInv, IInv, EdgeInv
<1>1. info' = info /\ mpc \notin {"spin", "stopped"} /\ ~Creating /\ ~Finishing
  BY DEF CompileForOnStackReplacement, Creating, Finishing, FlushPc
<1>2. NotReadyKept
  <2>1. CASE osrBuf' = osrBuf
    BY <1>1, <2>1, SameBuffer
  <2>2. ASSUME NEW i \in Slot, IsReadyCandidate(i, f, l),
               osrBuf' = [osrBuf EXCEPT ![i] = NoJob]
        PROVE  NotReadyKept
    BY <1>1, <2>2
    DEF NotReadyKept, TypeOK, IsReadyCandidate, IsFirst, Waiting
  <2> QED
    BY <2>1, <2>2 DEF CompileForOnStackReplacement
<1>3. ASSUME NEW k \in Loop, edge[k] = "gated" PROVE JobWillOpen(k)'
  <2>1. JobWillOpen(k)
    BY <1>1, <1>3 DEF GateInv, RequestWillOpen
  <2> QED
    BY <1>2, <2>1, JobStillOpens
<1>4. CASE Revert(SharedOf[f]) \/ AddStackCheckAndRevert(SharedOf[f], l)
  <2>1. \A k \in Loop : edge'[k] = "gated" => edge[k] = "gated"
    BY <1>4, RevertMatches, AddAndRevertMatches
  <2> QED
    BY <1>3, <2>1 DEF GateInv
<1>5. CASE AddStackCheck(l)
  <2>1. \A k \in Loop \ {l} : edge'[k] = edge[k]
    BY <1>5 DEF AddStackCheck, TypeOK
  <2>2. CASE IsQueuedForOsrEntry(f, l)
    <3>1. JobWillOpen(l)
      BY <2>2 DEF IsQueuedForOsrEntry, IsFirst, SameOsrEntry, JobWillOpen,
                  Buffered
    <3>2. JobWillOpen(l)'
      BY <1>2, <3>1, JobStillOpens
    <3> QED
      BY <1>3, <2>1, <3>2 DEF GateInv
  <2>3. CASE mpc' = "create" /\ req' = [fn |-> f, loop |-> l]
    <3>1. RequestWillOpen(l)'
      BY <2>3 DEF RequestWillOpen, Creating
    <3> QED
      BY <1>3, <2>1, <3>1 DEF GateInv
  <2>4. ASSUME NEW i \in Slot, IsReadyCandidate(i, f, l), mjob' = osrBuf[i],
               mpc' = "finish", req' = [fn |-> f, loop |-> l]
        PROVE  GateInv'
    <3>1. IsOsr(mjob)'
      BY <1>1, <2>4, LoopAssumption
      DEF IsReadyCandidate, IsFirst, SameOsrEntry, IsOsr
    <3>2. RequestWillOpen(l)'
      BY <2>4, <3>1 DEF RequestWillOpen, Finishing
    <3> QED
      BY <1>3, <2>1, <3>2 DEF GateInv
  <2> QED
    BY <1>4, <2>2, <2>3, <2>4
    DEF CompileForOnStackReplacement
<1> QED
  BY <1>4, <1>5 DEF CompileForOnStackReplacement

(* A request ends with a queued job, or with a reverted table. *)
LEMMA GateCompile ==
  ASSUME JInv, EdgeInv, [Next]_vars, Compile
  PROVE  GateInv'
<1> USE DEF JInv, IInv, EdgeInv, osrVars
<1>1. CASE CreateGraphFails
  <2>1. NotReadyKept
    BY <1>1, SameBuffer DEF CreateGraphFails
  <2>2. \A l \in Loop : edge'[l] = "gated" =>
          edge[l] = "gated" /\ ~RequestWillOpen(l)
    <3>1. CASE req.loop = NoLoop
      BY <1>1, <3>1, LoopAssumption
      DEF CreateGraphFails, edgeVars, RequestWillOpen
    <3>2. CASE req.loop # NoLoop
      <4>1. Revert(SharedOf[req.fn]) /\ SharedOf[req.fn] = LoopOf[req.loop]
            /\ req.loop \in Loop
        BY <1>1, <3>2 DEF CreateGraphFails, RequestEdgeInv, Requested, Creating
      <4> QED
        BY <4>1, RevertMatches DEF RequestWillOpen
    <3> QED
      BY <3>1, <3>2
  <2> QED
    BY <1>1, <2>1, <2>2, JobStillOpens DEF CreateGraphFails, GateInv
<1>2. CASE QueueForOptimization
  <2> PICK j \in Job \ Live :
        info' = [info EXCEPT ![j] = [closure |-> req.fn, osr |-> NoLoop,
                                     waiting |-> FALSE]]
    BY <1>2 DEF QueueForOptimization
  <2>1. j \notin Buffered
    BY JobAssumption DEF OwnInv, HeldIsLive, Held
  <2>2. osrBuf' = osrBuf /\ edge' = edge /\ mpc = "create" /\ req.loop = NoLoop
    BY <1>2 DEF QueueForOptimization, edgeVars
  <2>3. \A i \in Slot : osrBuf[i] # NoJob => osrBuf[i] \in Job \ {j}
    BY <2>1 DEF Buffered, TypeOK
  <2>4. NotReadyKept
    BY <2>2, <2>3 DEF NotReadyKept, TypeOK, Waiting
  <2>5. \A l \in Loop : ~RequestWillOpen(l)
    BY <2>2, LoopAssumption DEF RequestWillOpen
  <2> QED
    BY <2>2, <2>4, <2>5, GatesKept
<1>3. CASE QueueForOsr
  <2> PICK i \in Slot, j \in Job \ Live :
        /\ IsFound(i)
        /\ osrBuf' = [osrBuf EXCEPT ![i] = j]
        /\ info' = [k \in Job |->
                      IF k = j THEN [closure |-> req.fn, osr |-> req.loop,
                                     waiting |-> FALSE]
                      ELSE IF k = osrBuf[i] THEN Freed ELSE info[k]]
    BY <1>3 DEF QueueForOsr
  <2>1. j \notin Buffered
    BY JobAssumption DEF OwnInv, HeldIsLive, Held
  <2>2. edge' = edge /\ mpc = "create"
    BY <1>3 DEF QueueForOsr, edgeVars
  <2>3. \A k \in Slot : osrBuf[k] # NoJob /\ ~Waiting(osrBuf[k]) =>
          osrBuf[k] \in Job /\ osrBuf[k] # j /\ k # i /\ osrBuf[k] # osrBuf[i]
    BY <2>1 DEF Buffered, TypeOK, IsFound, Reusable
  <2>4. NotReadyKept
    BY <2>3 DEF NotReadyKept, TypeOK, Waiting
  <2>5. \E k \in Buffered' : ~Waiting(k)' /\ info'[k].osr = req.loop
    <3>1. osrBuf'[i] = j /\ j # NoJob
      BY JobAssumption DEF TypeOK
    <3>2. j \in Buffered'
      BY <3>1 DEF Buffered
    <3>3. ~Waiting(j)' /\ info'[j].osr = req.loop
      BY DEF Waiting
    <3> QED
      BY <3>2, <3>3
  <2>6. \A l \in Loop : edge'[l] = "gated" => JobWillOpen(l)'
    <3> SUFFICES ASSUME NEW l \in Loop, edge'[l] = "gated"
                 PROVE  JobWillOpen(l)'
      OBVIOUS
    <3>1. JobWillOpen(l) \/ req.loop = l
      BY <2>2 DEF GateInv, RequestWillOpen
    <3>2. CASE JobWillOpen(l)
      BY <2>4, <3>2, JobStillOpens
    <3>3. CASE req.loop = l
      BY <2>5, <3>3 DEF JobWillOpen
    <3> QED
      BY <3>1, <3>2, <3>3
  <2> QED
    BY <2>6 DEF GateInv
<1>4. CASE FinishRegular \/ FinishOsr
  <2>1. /\ Delete({mjob}) /\ osrBuf' = osrBuf /\ mpc = "finish"
        /\ mpc' \in {"install", "run"}
    BY <1>4 DEF FinishRegular, FinishOsr
  <2>2. \A i \in Slot : osrBuf[i] # NoJob => osrBuf[i] \notin {mjob}
    BY DEF OwnInv, Buffered
  <2>3. NotReadyKept
    BY <2>1, <2>2, DeleteKeepsNotReady
  <2>4. CASE FinishRegular
    <3>1. \A l \in Loop : ~RequestWillOpen(l)
      BY <2>1, <2>4
      DEF FinishRegular, RequestWillOpen, Creating, Finishing, FlushPc
    <3>2. edge' = edge
      BY <2>4 DEF FinishRegular, edgeVars
    <3> QED
      BY <2>3, <3>1, <3>2, GatesKept
  <2>5. CASE FinishOsr
    <3>1. Revert(SharedOf[req.fn]) /\ SharedOf[req.fn] = LoopOf[req.loop]
            /\ req.loop \in Loop
      BY <2>5 DEF FinishOsr, RequestEdgeInv, Requested, Finishing
    <3>2. \A l \in Loop : edge'[l] = "gated" =>
            edge[l] = "gated" /\ ~RequestWillOpen(l)
      BY <3>1, RevertMatches DEF RequestWillOpen
    <3> QED
      BY <2>1, <2>3, <3>2, JobStillOpens DEF GateInv
  <2> QED
    BY <1>4, <2>4, <2>5
<1> QED
  BY <1>1, <1>2, <1>3, <1>4 DEF Compile

(* The install loop opens the gate of the job it marks ready. *)
LEMMA GateInstallNext ==
  ASSUME JInv, EdgeInv, [Next]_vars, InstallNext
  PROVE  GateInv'
<1> USE DEF JInv, IInv, EdgeInv, osrVars
<1> DEFINE j == Head(outputQ)
<1>1. osrBuf' = osrBuf /\ j \in Job /\ \A l : ~RequestWillOpen(l)
  BY PopTypes
  DEF InstallNext, TypeOK, RequestWillOpen, Creating, Finishing, FlushPc
<1>2. CASE /\ info' = [info EXCEPT ![j].waiting = TRUE]
           /\ RemoveStackChecks({info[j].osr})
           /\ mpc' = mpc
  <2>1. /\ \A k \in Job \ {j} : info'[k] = info[k]
        /\ info[j].osr \in Loop => edge'[info[j].osr] # "gated"
        /\ \A l \in Loop : edge'[l] = "gated" => edge[l] = "gated"
    BY <1>1, <1>2 DEF TypeOK, RemoveStackChecks
  <2> SUFFICES ASSUME NEW l \in Loop, edge'[l] = "gated"
               PROVE  JobWillOpen(l)'
    BY DEF GateInv
  <2>2. JobWillOpen(l) /\ info[j].osr # l
    BY <1>1, <2>1 DEF GateInv, InstallNext
  <2> PICK b \in Buffered : ~Waiting(b) /\ info[b].osr = l
    BY <2>2 DEF JobWillOpen
  <2>3. b \in Job \ {j} /\ b \in Buffered'
    BY <1>1, <2>2, HeldAreJobs DEF Buffered
  <2> HIDE DEF j
  <2>4. ~info'[b].waiting /\ info'[b].osr = l
    BY <2>1, <2>3 DEF Waiting
  <2> QED
    BY <2>3, <2>4 DEF JobWillOpen, Waiting
<1>3. CASE ~IsOsr(j) /\ Delete({j}) /\ UNCHANGED edgeVars
  <2>1. \A i \in Slot : osrBuf[i] # NoJob => osrBuf[i] \notin {j}
    BY <1>3 DEF OwnInv, Buffered
  <2>2. NotReadyKept
    BY <1>1, <1>3, <2>1, DeleteKeepsNotReady
  <2> QED
    BY <1>1, <1>3, <2>2, GatesKept DEF edgeVars
<1>4. CASE UNCHANGED <<info, edgeVars>>
  BY <1>1, <1>4, SameBuffer, GatesKept DEF edgeVars
<1> QED
  BY <1>2, <1>3, <1>4 DEF InstallNext

(* FlushOsrBuffer opens the gates of all jobs that were not ready. *)
LEMMA GateFlushFinish ==
  ASSUME JInv, EdgeInv, FlushFinish
  PROVE  /\ GateInv'
         /\ \A l \in Loop : edge'[l] = "gated" => req.loop = l
<1> USE DEF JInv, IInv, EdgeInv
<1>1. /\ UNCHANGED <<mjob, req>> /\ mpc = "flushOut" /\ mpc' = fret
      /\ RemoveStackChecks({info[j].osr : j \in {b \in Buffered : ~Waiting(b)}})
      /\ Delete(Regular(Elements(outputQ)) \cup Buffered)
      /\ fret \in {"run", "create", "finish"}
  BY DEF FlushFinish, TypeOK
<1>2. ASSUME NEW l \in Loop, edge'[l] = "gated" PROVE RequestWillOpen(l)
  <2>1. edge[l] = "gated" /\ ~JobWillOpen(l)
    BY <1>1, <1>2 DEF RemoveStackChecks, JobWillOpen
  <2> QED
    BY <1>1, <2>1 DEF GateInv
<1>3. Creating' = Creating /\ Finishing' = Finishing
  BY <1>1 DEF Creating, Finishing, FlushPc
<1>4. Regular(Elements(outputQ)) \cup Buffered
        \subseteq Pipeline \cup Buffered \cup {NoJob}
  BY DEF Regular, Pipeline
<1>5. Finishing => IsOsr(mjob)' = IsOsr(mjob)
  BY <1>1, <1>4, MainJobKept DEF HoldInv
<1>6. \A l : RequestWillOpen(l) => RequestWillOpen(l)'
  BY <1>1, <1>3, <1>5 DEF RequestWillOpen
<1> QED
  BY <1>2, <1>6 DEF GateInv, RequestWillOpen

(* Every step keeps somebody who opens each gate. *)
LEMMA GateStep ==
  ASSUME ~ApiCallbacks, JInv, EdgeInv, [Next]_vars
  PROVE  GateInv'
<1> DEFINE kept == mjob # NoJob => IsOsr(mjob)' = IsOsr(mjob)
<1>0. TypeOK /\ GateInv /\ RequestEdgeInv /\ BackEdgesMatchLevel
  BY DEF JInv, IInv, EdgeInv
<1>a. ASSUME NotReadyKept, \A l \in Loop : edge'[l] = "gated" => edge[l] = "gated",
             mpc \in {"run", "osr", "install"}
      PROVE  GateInv'
  <2>1. \A l \in Loop : ~RequestWillOpen(l)
    BY <1>a DEF RequestWillOpen, Creating, Finishing, FlushPc
  <2> QED
    BY <1>0, <1>a, <2>1, GatesKept
<1>b. ASSUME NotReadyKept, edge' = edge, UNCHANGED <<mpc, fret, req, mjob>>, kept
      PROVE  GateInv'
  <2>1. Finishing => mjob # NoJob
    BY DEF JInv, HoldInv
  <2>2. \A l \in Loop : RequestWillOpen(l) => RequestWillOpen(l)'
    BY <1>b, <2>1 DEF RequestWillOpen, Creating, Finishing
  <2> QED
    BY <1>0, <1>b, <2>2, GatesKept
<1> USE DEF queueVars, osrVars, threadVars, mainVars
<1>1. CASE Script
  <2>1. ASSUME NEW f \in Function,
               \/ Optimize(f) \/ CompileOptimized(f) \/ Deoptimize(f)
               \/ TryInstallOptimizedCode(f)
        PROVE  GateInv'
    <3>1. UNCHANGED <<osrBuf, info, edgeVars>> /\ mpc \in {"run", "osr"}
      BY <2>1
      DEF Optimize, CompileOptimized, Deoptimize, TryInstallOptimizedCode
    <3> QED
      BY <1>a, <3>1, SameBuffer DEF edgeVars
  <2>2. ASSUME NEW f \in Function, AttemptOnStackReplacement(f)
        PROVE  GateInv'
    <3>1. /\ UNCHANGED <<osrBuf, info>> /\ mpc \in {"run", "osr"}
          /\ Patch(SharedOf[f])
      BY <2>2 DEF AttemptOnStackReplacement
    <3>2. \A l \in Loop : edge'[l] = "gated" => edge[l] = "gated"
      BY <1>0, <3>1 DEF Patch
    <3> QED
      BY <1>a, <3>1, <3>2, SameBuffer
  <2>3. ASSUME NEW f \in Function, NEW l \in Loop, OnStackReplacement(f, l)
        PROVE  GateInv'
    BY <2>3, GateCompileForOsr DEF OnStackReplacement
  <2>4. ASSUME NEW f \in Function, NEW l \in Loop, OsrAfterStackCheck(f, l)
        PROVE  GateInv'
    <3>1. UNCHANGED <<osrBuf, info, edgeVars>> /\ mpc = "run"
      BY <2>4 DEF OsrAfterStackCheck
    <3> QED
      BY <1>a, <3>1, SameBuffer DEF edgeVars
  <2>5. CASE CallbackEnter \/ CallbackReturn \/ Unblock \/ StopBegin
    <3>1. UNCHANGED <<osrBuf, info, edgeVars>> /\ mpc \in {"run", "osr"}
      BY <2>5 DEF CallbackEnter, CallbackReturn, Unblock, StopBegin
    <3> QED
      BY <1>a, <3>1, SameBuffer DEF edgeVars
  <2>6. CASE AgeBufferedOsrJobs
    <3> PICK i \in Slot : /\ IsFound(i) /\ Delete({osrBuf[i]})
                          /\ osrBuf' = [osrBuf EXCEPT ![i] = NoJob]
      BY <2>6 DEF AgeBufferedOsrJobs
    <3>1. \A k \in Slot : osrBuf[k] # NoJob /\ ~Waiting(osrBuf[k]) =>
            osrBuf'[k] = osrBuf[k] /\ osrBuf[k] \notin {osrBuf[i]}
      BY <1>0 DEF IsFound, Reusable, TypeOK
    <3>2. NotReadyKept
      BY <1>0, <3>1, DeleteKeepsNotReady
    <3>3. {osrBuf[i]} \subseteq Pipeline \cup Buffered \cup {NoJob}
      BY DEF Buffered
    <3>4. UNCHANGED <<edgeVars, mainVars>>
      BY <2>6 DEF AgeBufferedOsrJobs
    <3>5. kept
      BY <3>3, <3>4, MainJobKept
    <3> QED
      BY <1>b, <3>2, <3>4, <3>5 DEF edgeVars
  <2>7. CASE FlushBegin
    <3>1. /\ UNCHANGED <<osrBuf, info, edgeVars, req, mjob>>
          /\ mpc' = "flushSignal" /\ fret' = mpc
          /\ mpc \in {"run", "create", "finish"}
      BY <2>7 DEF FlushBegin
    <3>2. Creating' = Creating /\ Finishing' = Finishing
      BY <3>1 DEF Creating, Finishing, FlushPc
    <3>3. \A l \in Loop : RequestWillOpen(l) => RequestWillOpen(l)'
      BY <3>1, <3>2 DEF RequestWillOpen, IsOsr
    <3> QED
      BY <1>0, <3>1, <3>3, SameBuffer, GatesKept DEF edgeVars
  <2> QED
    BY <1>1, <2>1, <2>2, <2>3, <2>4, <2>5, <2>6, <2>7 DEF Script
<1>2. CASE HandleInterrupts \/ AddToOsrBufferSpins
  <2>1. /\ UNCHANGED <<osrBuf, info, edgeVars>>
        /\ mpc = "run" \/ mpc' = "spin"
    BY <1>2 DEF HandleInterrupts, AddToOsrBufferSpins
  <2> QED
    BY <1>0, <1>a, <2>1, SameBuffer, GatesKept DEF edgeVars
<1>3. CASE Compile
  BY <1>3, GateCompile
<1>4. CASE Continue
  <2>1. CASE OsrAfterInterrupt
    <3>1. /\ req.fn \in Function /\ req.loop \in Loop
          /\ SharedOf[req.fn] = LoopOf[req.loop]
          /\ edge[req.loop] # "interrupt"
      BY <1>0, <2>1 DEF OsrAfterInterrupt, RequestEdgeInv, Requested
    <3> QED
      BY <2>1, <3>1, GateCompileForOsr DEF OsrAfterInterrupt
  <2>2. CASE InstallReturn
    <3>1. UNCHANGED <<osrBuf, info, edgeVars>> /\ mpc = "install"
      BY <2>2 DEF InstallReturn
    <3> QED
      BY <1>a, <3>1, SameBuffer DEF edgeVars
  <2>3. CASE FlushSignal \/ FlushWait
    <3>1. /\ UNCHANGED <<osrBuf, info, edgeVars, req, mjob, fret>>
          /\ mpc \in FlushPc /\ mpc' \in FlushPc
      BY <2>3 DEF FlushSignal, FlushWait, SignalThread, AwaitThread, FlushPc
    <3>2. \A l \in Loop : RequestWillOpen(l) => RequestWillOpen(l)'
      BY <3>1 DEF RequestWillOpen, Creating, Finishing, FlushPc, IsOsr
    <3> QED
      BY <1>0, <3>1, <3>2, SameBuffer, GatesKept DEF edgeVars
  <2>4. CASE StopSignal \/ StopWait \/ StopCompileNext \/ StopInstall
    <3>1. UNCHANGED <<osrBuf, info, edgeVars>> /\ mpc \in StopPc
      BY <2>4 DEF StopSignal, StopWait, SignalThread, AwaitThread,
                  StopCompileNext, StopInstall, StopPc
    <3>2. \A l \in Loop : ~RequestWillOpen(l)
      BY <3>1 DEF RequestWillOpen, Creating, Finishing, FlushPc, StopPc
    <3> QED
      BY <1>0, <3>1, <3>2, SameBuffer, GatesKept DEF edgeVars
  <2>5. CASE StopFlushInput
    <3>1. /\ Delete(Regular({Head(inputQ)})) /\ osrBuf' = osrBuf /\ edge' = edge
          /\ mpc = "stopFlush"
      BY <2>5 DEF StopFlushInput, FlushInput, edgeVars
    <3>2. \A i \in Slot : osrBuf[i] # NoJob =>
                            osrBuf[i] \notin Regular({Head(inputQ)})
      BY DEF JInv, OwnInv, Buffered, Regular
    <3>3. NotReadyKept
      BY <1>0, <3>1, <3>2, DeleteKeepsNotReady
    <3>4. \A l \in Loop : ~RequestWillOpen(l)
      BY <3>1 DEF RequestWillOpen, Creating, Finishing, FlushPc
    <3> QED
      BY <1>0, <3>1, <3>3, <3>4, GatesKept
  <2>6. CASE StopFlushOutput \/ StopFinish
    BY <2>6 DEF StopFlushOutput, StopFinish, GateInv
  <2> QED
    BY <1>4, <2>1, <2>2, <2>3, <2>4, <2>5, <2>6, GateInstallNext,
       GateFlushFinish DEF Continue
<1>5. CASE Thread
  <2>1. UNCHANGED <<edgeVars, mainVars, osrBuf>>
    BY <1>5 DEF Thread, ThreadWait, ThreadSwitch, ThreadFlushInput,
                ThreadFlushed, ThreadAck, ThreadNextInput,
                ThreadOptimizeGraph, ThreadRequestInstallCode
  <2>2. CASE ThreadFlushInput
    <3>1. Delete(Regular({Head(inputQ)})) /\ inputQ # <<>>
      BY <2>2 DEF ThreadFlushInput, FlushInput
    <3>2. \A i \in Slot : osrBuf[i] # NoJob =>
                            osrBuf[i] \notin Regular({Head(inputQ)})
      BY DEF JInv, OwnInv, Buffered, Regular
    <3>3. NotReadyKept
      BY <1>0, <2>1, <3>1, <3>2, DeleteKeepsNotReady
    <3>4. Head(inputQ) \in Elements(inputQ)
      BY <1>0, <3>1, PopElements DEF TypeOK
    <3>5. Regular({Head(inputQ)}) \subseteq Pipeline \cup Buffered \cup {NoJob}
      BY <3>4 DEF Regular, Pipeline
    <3>6. kept
      BY <2>1, <3>1, <3>5, MainJobKept
    <3> QED
      BY <1>b, <2>1, <3>3, <3>6 DEF edgeVars
  <2>3. CASE ~ThreadFlushInput
    <3>1. info' = info
      BY <1>5, <2>3
      DEF Thread, ThreadWait, ThreadSwitch, ThreadFlushed, ThreadAck,
          ThreadNextInput, ThreadOptimizeGraph, ThreadRequestInstallCode
    <3> QED
      BY <1>b, <2>1, <3>1, SameBuffer DEF edgeVars, IsOsr
  <2> QED
    BY <2>2, <2>3
<1>6. CASE Terminated \/ UNCHANGED vars
  <2>1. UNCHANGED <<edgeVars, mainVars, osrBuf, info>>
    BY <1>6 DEF Terminated, vars
  <2> QED
    BY <1>b, <2>1, SameBuffer DEF edgeVars, IsOsr
<1> QED
  BY <1>1, <1>2, <1>3, <1>4, <1>5, <1>6 DEF Next

(* The inductive invariant of the back edge tables holds throughout. *)
LEMMA EdgesInductive ==
  ASSUME ~ApiCallbacks
  PROVE  Spec => []EdgeInv
<1>1. Init => EdgeInv
  <2> SUFFICES ASSUME Init PROVE EdgeInv
    OBVIOUS
  <2>1. BackEdgesMatchLevel
    <3>1. \A l \in Loop : LoopOf[l] \in Shared /\ LoopDepth[l] \in 1..MaxNesting
      BY LoopAssumption
    <3>2. \A l \in Loop : ~(LoopDepth[l] <= 0)
      BY <3>1, LoopAssumption
    <3> QED
      BY <3>1, <3>2 DEF Init, BackEdgesMatchLevel
  <2>2. RequestEdgeInv
    BY DEF Init, RequestEdgeInv, Requested, Creating, Finishing, FlushPc
  <2>3. GateInv
    BY DEF Init, GateInv
  <2> QED
    BY <2>1, <2>2, <2>3 DEF EdgeInv
<1>2. JInv /\ EdgeInv /\ [Next]_vars => EdgeInv'
  BY EdgeStep, GateStep DEF EdgeInv
<1> QED
  BY <1>1, <1>2, JobsInductive, PTL DEF Spec

(* BackEdgeTable::Verify holds after every step, for every nesting of loops, *)
(* as long as no interrupt runs JavaScript between the stack check of a      *)
(* gated loop and the OSR request it was for.                                *)
THEOREM TablesMatch ==
  ASSUME ~ApiCallbacks
  PROVE  Spec => []BackEdgesMatchLevel
BY EdgesInductive, PTL DEF EdgeInv

-----------------------------------------------------------------------------
(* Functions in the queue, and what Flush forgets. *)

(* The functions that wait for code wait for a job that still exists: jobs   *)
(* are deleted together with the marking of their functions.                 *)
LEMMA QueuedDelete ==
  ASSUME JInv, QueuedInv, NEW S, Delete(S),
         mpc \notin {"stopFlush", "stopOsr", "stopped"},
         \A f \in Function : code'[f] = "queued" => code[f] = "queued",
         \A j \in S : j \in Live /\ ~IsOsr(j) => code'[info[j].closure] # "queued"
  PROVE  QueuedInv'
<1> SUFFICES ASSUME NEW f \in Function, code'[f] = "queued"
             PROVE  (\E j \in Live : ~IsOsr(j) /\ info[j].closure = f)'
  BY DEF QueuedInv
<1> PICK j \in Live : ~IsOsr(j) /\ info[j].closure = f
  BY DEF QueuedInv
<1>1. j \in Job \ S
  BY DEF Live
<1>2. info'[j] = info[j]
  BY <1>1 DEF Delete
<1> QED
  BY <1>1, <1>2 DEF Live, IsOsr

(* No job is deleted, and no function is marked as queued. *)
LEMMA QueuedKept ==
  ASSUME QueuedInv, info' = info,
         \A f \in Function : code'[f] = "queued" => code[f] = "queued",
         \/ mpc' \in {"stopFlush", "stopOsr", "stopped"}
         \/ mpc \notin {"stopFlush", "stopOsr", "stopped"}
  PROVE  QueuedInv'
BY DEF QueuedInv, Live, IsOsr

(* ReplaceCode with anything but the InOptimizationQueue builtin. *)
LEMMA ReplaceNotQueued ==
  ASSUME NEW F, NEW c, ReplaceCode(F, c), c # "queued"
  PROVE  /\ \A f \in Function : code'[f] = "queued" => code[f] = "queued"
         /\ \A f \in Function \cap F : code'[f] # "queued"
BY DEF ReplaceCode

(* The closure of an existing job is a function. *)
LEMMA LiveClosure ==
  ASSUME TypeOK, NEW j \in Live
  PROVE  info[j].closure \in Function
BY FreedFields DEF TypeOK, Live, Info

(* Every step keeps a job for each function in the queue. *)
LEMMA QueuedStep == JInv /\ QueuedInv /\ [Next]_vars => QueuedInv'
<1> SUFFICES ASSUME JInv, QueuedInv, [Next]_vars PROVE QueuedInv'
  OBVIOUS
<1> USE DEF queueVars, osrVars, edgeVars, threadVars, mainVars
<1> DEFINE noneQueued == \A f \in Function : code'[f] = "queued" => code[f] = "queued"
           open == mpc \notin {"stopFlush", "stopOsr", "stopped"}
<1>0. TypeOK
  BY DEF JInv, IInv
<1>a. ASSUME info' = info, noneQueued, open PROVE QueuedInv'
  BY <1>a, QueuedKept
<1>b. ASSUME NEW f, NEW l, mpc \in {"run", "osr"},
             CompileForOnStackReplacement(f, l)
      PROVE  QueuedInv'
  <2>1. info' = info /\ (code' = code \/ OsrReturn(f))
    BY <1>b DEF CompileForOnStackReplacement
  <2>2. noneQueued
    BY <2>1, ReplaceNotQueued DEF OsrReturn
  <2> QED
    BY <1>a, <1>b, <2>1, <2>2
<1>1. CASE Script
  <2>1. ASSUME NEW f \in Function,
               \/ Optimize(f) \/ AttemptOnStackReplacement(f)
               \/ CompileOptimized(f) \/ Deoptimize(f)
               \/ TryInstallOptimizedCode(f)
        PROVE  QueuedInv'
    <3>1. /\ info' = info /\ open
          /\ \/ code' = code
             \/ \E c \in {"marked", "full", "optimized"} : ReplaceCode({f}, c)
      BY <2>1 DEF Optimize, AttemptOnStackReplacement, CompileOptimized,
                  Deoptimize, TryInstallOptimizedCode
    <3>2. noneQueued
      BY <3>1, ReplaceNotQueued
    <3> QED
      BY <1>a, <3>1, <3>2
  <2>2. ASSUME NEW f \in Function, NEW l \in Loop, OnStackReplacement(f, l)
        PROVE  QueuedInv'
    BY <1>b, <2>2 DEF OnStackReplacement
  <2>3. ASSUME NEW f \in Function, NEW l \in Loop, OsrAfterStackCheck(f, l)
        PROVE  QueuedInv'
    <3>1. UNCHANGED <<info, code>> /\ open
      BY <2>3 DEF OsrAfterStackCheck
    <3> QED
      BY <1>a, <3>1
  <2>4. CASE \/ CallbackEnter \/ CallbackReturn \/ Unblock \/ FlushBegin
             \/ StopBegin
    <3>1. UNCHANGED <<info, code>> /\ open
      BY <2>4 DEF CallbackEnter, CallbackReturn, Unblock, FlushBegin, StopBegin
    <3> QED
      BY <1>a, <3>1
  <2>5. CASE AgeBufferedOsrJobs
    <3> PICK i \in Slot : Delete({osrBuf[i]})
      BY <2>5 DEF AgeBufferedOsrJobs
    <3>1. code' = code /\ open
      BY <2>5 DEF AgeBufferedOsrJobs
    <3>2. \A j \in {osrBuf[i]} : j \in Live => IsOsr(j)
      BY JobAssumption DEF Live, JInv, OwnInv, Buffered
    <3> QED
      BY <3>1, <3>2, QueuedDelete
  <2> QED
    BY <1>1, <2>1, <2>2, <2>3, <2>4, <2>5 DEF Script
<1>2. CASE HandleInterrupts \/ AddToOsrBufferSpins
  <2>1. UNCHANGED <<info, code>> /\ open
    BY <1>2 DEF HandleInterrupts, AddToOsrBufferSpins
  <2> QED
    BY <1>a, <2>1
<1>3. CASE Compile
  <2>1. CASE CreateGraphFails
    <3>1. /\ info' = info /\ open
          /\ code' = code \/ ReplaceCode({req.fn}, "full")
      BY <2>1 DEF CreateGraphFails
    <3>2. noneQueued
      BY <3>1, ReplaceNotQueued
    <3> QED
      BY <1>a, <3>1, <3>2
  <2>2. CASE QueueForOptimization
    <3> PICK j \in Job \ Live :
          info' = [info EXCEPT ![j] = [closure |-> req.fn, osr |-> NoLoop,
                                       waiting |-> FALSE]]
      BY <2>2 DEF QueueForOptimization
    <3>1. /\ mpc = "create" /\ req.fn # NoFunction
          /\ ReplaceCode({req.fn}, "queued")
      BY <2>2, FunctionAssumption
      DEF QueueForOptimization, JInv, IInv, RequestInv, Creating
    <3>2. /\ info'[j] = [closure |-> req.fn, osr |-> NoLoop, waiting |-> FALSE]
          /\ \A k \in Job \ {j} : info'[k] = info[k]
      BY <1>0 DEF TypeOK
    <3> SUFFICES ASSUME NEW f \in Function, code'[f] = "queued"
                 PROVE  (\E k \in Live : ~IsOsr(k) /\ info[k].closure = f)'
      BY DEF QueuedInv
    <3>3. CASE f = req.fn
      BY <3>1, <3>2, <3>3 DEF Live, IsOsr
    <3>4. CASE f # req.fn
      <4>1. code[f] = "queued"
        BY <3>1, <3>4 DEF ReplaceCode
      <4> PICK k \in Live : ~IsOsr(k) /\ info[k].closure = f
        BY <3>1, <4>1 DEF QueuedInv
      <4>2. k \in Job \ {j}
        BY DEF Live
      <4> QED
        BY <3>2, <4>2 DEF Live, IsOsr
    <3> QED
      BY <3>3, <3>4
  <2>3. CASE QueueForOsr
    <3> PICK i \in Slot, j \in Job \ Live :
          info' = [k \in Job |->
                     IF k = j THEN [closure |-> req.fn, osr |-> req.loop,
                                    waiting |-> FALSE]
                     ELSE IF k = osrBuf[i] THEN Freed ELSE info[k]]
      BY <2>3 DEF QueueForOsr
    <3>1. mpc = "create" /\ code' = code
      BY <2>3 DEF QueueForOsr
    <3> SUFFICES ASSUME NEW f \in Function, code'[f] = "queued"
                 PROVE  (\E k \in Live : ~IsOsr(k) /\ info[k].closure = f)'
      BY DEF QueuedInv
    <3> PICK k \in Live : ~IsOsr(k) /\ info[k].closure = f
      BY <3>1 DEF QueuedInv
    <3>2. k # osrBuf[i]
      BY JobAssumption DEF Live, JInv, OwnInv, Buffered
    <3>3. info'[k] = info[k] /\ k \in Job
      BY <3>2 DEF Live
    <3> QED
      BY <3>3 DEF Live, IsOsr
  <2>4. CASE FinishRegular
    <3>1. /\ Delete({mjob}) /\ open
          /\ \E c \in {"optimized", "full"} : ReplaceCode({info[mjob].closure}, c)
      BY <2>4 DEF FinishRegular
    <3>2. noneQueued
      BY <3>1, ReplaceNotQueued
    <3>3. mjob \in Live => code'[info[mjob].closure] # "queued"
      BY <1>0, <3>1, ReplaceNotQueued, LiveClosure
    <3> QED
      BY <3>1, <3>2, <3>3, QueuedDelete
  <2>5. CASE FinishOsr
    <3>1. Delete({mjob}) /\ open /\ IsOsr(mjob) /\ OsrReturn(req.fn)
      BY <2>5 DEF FinishOsr
    <3>2. noneQueued
      BY <3>1, ReplaceNotQueued DEF OsrReturn
    <3> QED
      BY <3>1, <3>2, QueuedDelete
  <2> QED
    BY <1>3, <2>1, <2>2, <2>3, <2>4, <2>5 DEF Compile
<1>4. CASE Continue
  <2>1. CASE OsrAfterInterrupt
    BY <1>b, <2>1 DEF OsrAfterInterrupt
  <2>2. CASE InstallNext
    <3> DEFINE j == Head(outputQ)
    <3>1. code' = code /\ open /\ j \in Job
      BY <1>0, <2>2, PopTypes DEF InstallNext, TypeOK
    <3>2. CASE IsOsr(j) /\ info' = [info EXCEPT ![j].waiting = TRUE]
      <4> SUFFICES ASSUME NEW f \in Function, code[f] = "queued"
                   PROVE  (\E k \in Live : ~IsOsr(k) /\ info[k].closure = f)'
        BY <3>1 DEF QueuedInv
      <4> PICK k \in Live : ~IsOsr(k) /\ info[k].closure = f
        BY <3>1 DEF QueuedInv
      <4>1. info'[k] = info[k] /\ k \in Job
        BY <1>0, <3>1, <3>2 DEF Live, TypeOK
      <4> QED
        BY <4>1 DEF Live, IsOsr
    <3>3. CASE code[info[j].closure] = "optimized" /\ Delete({j})
      BY <3>1, <3>3, QueuedDelete
    <3> QED
      BY <1>a, <2>2, <3>1, <3>2, <3>3 DEF InstallNext
  <2>3. CASE \/ InstallReturn \/ FlushSignal \/ FlushWait \/ StopSignal
             \/ StopWait \/ StopCompileNext \/ StopInstall
    <3>1. UNCHANGED <<info, code>> /\ open
      BY <2>3 DEF InstallReturn, FlushSignal, FlushWait, StopSignal, StopWait,
                  SignalThread, AwaitThread, StopCompileNext, StopInstall
    <3> QED
      BY <1>a, <3>1
  <2>4. CASE FlushFinish
    <3> DEFINE R == Regular(Elements(outputQ))
    <3>1. /\ Delete(R \cup Buffered) /\ open
          /\ ReplaceCode(Closures(R), "full")
      BY <2>4 DEF FlushFinish
    <3>2. noneQueued
      BY <3>1, ReplaceNotQueued
    <3>3. ASSUME NEW j \in R \cup Buffered, j \in Live, ~IsOsr(j)
          PROVE  code'[info[j].closure] # "queued"
      <4>1. j \in R
        BY <3>3 DEF JInv, OwnInv
      <4>2. info[j].closure \in Closures(R) /\ info[j].closure \in Function
        BY <1>0, <3>3, <4>1, LiveClosure DEF Closures
      <4> QED
        BY <3>1, <4>2, ReplaceNotQueued
    <3> HIDE DEF R
    <3> QED
      BY <3>1, <3>2, <3>3, QueuedDelete
  <2>5. CASE StopFlushInput \/ StopFlushOutput \/ StopFinish
    <3>1. mpc' \in {"stopFlush", "stopped"}
      BY <2>5 DEF StopFlushInput, StopFlushOutput, StopFinish
    <3> QED
      BY <3>1 DEF QueuedInv
  <2> QED
    BY <1>4, <2>1, <2>2, <2>3, <2>4, <2>5 DEF Continue
<1>5. CASE Thread
  <2>1. CASE ThreadFlushInput
    <3> DEFINE R == Regular({Head(inputQ)})
    <3>1. /\ Delete(R) /\ ReplaceCode(Closures(R), "full")
      BY <2>1 DEF ThreadFlushInput, FlushInput
    <3>2. open
      BY <2>1 DEF ThreadFlushInput, JInv, IInv, StopInv
    <3>3. noneQueued
      BY <3>1, ReplaceNotQueued
    <3>4. ASSUME NEW j \in R, j \in Live PROVE code'[info[j].closure] # "queued"
      <4>1. info[j].closure \in Closures(R) /\ info[j].closure \in Function
        BY <1>0, <3>4, LiveClosure DEF Closures
      <4> QED
        BY <3>1, <4>1, ReplaceNotQueued
    <3> HIDE DEF R
    <3> QED
      BY <3>1, <3>2, <3>3, <3>4, QueuedDelete
  <2>2. CASE ~ThreadFlushInput
    <3>1. UNCHANGED <<info, code, mpc>>
      BY <1>5, <2>2
      DEF Thread, ThreadWait, ThreadSwitch, ThreadFlushed, ThreadAck,
          ThreadNextInput, ThreadOptimizeGraph, ThreadRequestInstallCode
    <3> QED
      BY <3>1, QueuedKept
  <2> QED
    BY <2>1, <2>2
<1>6. CASE Terminated \/ UNCHANGED vars
  <2>1. UNCHANGED <<info, code, mpc>>
    BY <1>6 DEF Terminated, vars
  <2> QED
    BY <2>1, QueuedKept
<1> QED
  BY <1>1, <1>2, <1>3, <1>4, <1>5, <1>6 DEF Next

(* A function in the InOptimizationQueue state always has a job that still   *)
(* exists, until Stop disposes of the jobs.                                  *)
LEMMA QueuedHasJob == Spec => []QueuedInv
<1>1. Init => QueuedInv
  BY DEF Init, QueuedInv
<1> QED
  BY <1>1, QueuedStep, JobsInductive, PTL DEF Spec

(* Flush returns by its last step only. *)
LEMMA FlushReturns ==
  ASSUME [Next]_vars, mpc = "flushOut", mpc' # "flushOut"
  PROVE  FlushFinish
BY DEF Next, Script, Optimize, AttemptOnStackReplacement, CompileOptimized,
       Deoptimize, TryInstallOptimizedCode, OnStackReplacement,
       OsrAfterStackCheck, CallbackEnter, CallbackReturn, AgeBufferedOsrJobs,
       Unblock, FlushBegin, StopBegin, HandleInterrupts, Compile,
       CreateGraphFails, QueueForOptimization, QueueForOsr, FinishRegular,
       FinishOsr, Continue, OsrAfterInterrupt, InstallNext, InstallReturn,
       FlushSignal, FlushWait, StopSignal, StopWait, SignalThread, AwaitThread,
       StopFlushInput, StopFlushOutput, StopCompileNext,
       StopInstall, StopFinish, AddToOsrBufferSpins, Thread, ThreadWait,
       ThreadSwitch, ThreadFlushInput, ThreadFlushed, ThreadAck,
       ThreadNextInput, ThreadOptimizeGraph, ThreadRequestInstallCode,
       Terminated, vars, mainVars

(* When the last step of Flush is taken the input queue and the thread are   *)
(* empty, so the output queue, the buffer and the caller hold every job.     *)
LEMMA FlushLeavesCaller ==
  ASSUME JInv, QueuedInv, FlushFinish
  PROVE  /\ Held' \subseteq {mjob}
         /\ Live' \subseteq {mjob}
         /\ \A f \in Function : code'[f] = "queued" =>
              Closures({mjob} \ {NoJob}) = {f}
<1> DEFINE R == Regular(Elements(outputQ))
<1>1. /\ mpc = "flushOut" /\ UNCHANGED <<inputQ, tjob, mjob>>
      /\ Delete(R \cup Buffered) /\ ReplaceCode(Closures(R), "full")
      /\ outputQ' = <<>> /\ osrBuf' = [i \in Slot |-> NoJob]
  BY DEF FlushFinish, threadVars
<1>2. inputQ = <<>> /\ tjob = NoJob
  BY <1>1 DEF JInv, IInv, DrainInv, CompileNextHasJob
<1>3. OwnInv' /\ Held' = {mjob} \ {NoJob}
  BY <1>1, <1>2, OwnFlushAll
<1>4. Live' = Held'
  BY <1>3 DEF OwnInv, HeldIsLive
<1>5. ASSUME NEW f \in Function, code'[f] = "queued"
      PROVE  Closures({mjob} \ {NoJob}) = {f}
  <2>1. code[f] = "queued" /\ f \notin Closures(R)
    BY <1>1, <1>5, ReplaceNotQueued
  <2> PICK j \in Live : ~IsOsr(j) /\ info[j].closure = f
    BY <1>1, <2>1 DEF QueuedInv
  <2>2. j \notin Buffered
    BY DEF JInv, OwnInv
  <2>3. j \notin Elements(outputQ)
    BY <2>1 DEF Regular, Closures
  <2>4. j \in Held /\ Elements(inputQ) = {}
    BY <1>2, EmptyElements DEF JInv, OwnInv, HeldIsLive
  <2>5. j = mjob /\ j # NoJob
    BY <1>2, <2>2, <2>3, <2>4 DEF Held
  <2> QED
    BY <2>5 DEF Closures
<1> QED
  BY <1>3, <1>4, <1>5

(* Flush forgets everything: when it returns, whatever the compiler thread   *)
(* was doing when it began, the only job left is the one its caller is       *)
(* working on, no other function is in the InOptimizationQueue state, and    *)
(* no loop but the caller's is gated.                                        *)
THEOREM FlushForgets ==
  ASSUME ~ApiCallbacks
  PROVE  Spec => FlushForgetsEverything
<1>1. ASSUME JInv, EdgeInv, QueuedInv, [Next]_vars
      PROVE  [mpc = "flushOut" /\ mpc' # "flushOut" =>
                /\ Held' \subseteq {mjob}
                /\ Live' \subseteq {mjob}
                /\ \A f \in Function : code'[f] = "queued" =>
                     Closures({mjob} \ {NoJob}) = {f}
                /\ \A l \in Loop : edge'[l] = "gated" => req.loop = l]_vars
  BY <1>1, FlushReturns, FlushLeavesCaller, GateFlushFinish
<1> QED
  BY <1>1, JobsInductive, EdgesInductive, QueuedHasJob, PTL
  DEF Spec, FlushForgetsEverything

=============================================================================
