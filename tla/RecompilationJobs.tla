------------------------- MODULE RecompilationJobs --------------------------
(***************************************************************************)
(* What concurrent recompilation promises about its jobs, without queues,  *)
(* buffers, semaphores or threads: the main thread submits jobs, one       *)
(* background worker compiles them one at a time, and compiled jobs are    *)
(* released one by one (installed, entered by OSR, or discarded).  A job   *)
(* that is not compiled yet goes away only when the main thread closes the *)
(* pipeline (Flush or Stop), which takes every other job too; a job is     *)
(* never taken away from the worker.                                       *)
(***************************************************************************)
CONSTANT Job

VARIABLES st,       \* where each job is
          closing   \* a Flush or a Stop is under way

vars == <<st, closing>>

In(s) == {j \in Job : st[j] = s}

Move(S, to) == st' = [j \in Job |-> IF j \in S THEN to ELSE st[j]]

Init == st = [j \in Job |-> "none"] /\ closing = FALSE

(* A new job; room may be made for it by releasing a compiled one. *)
Submit(j, S) ==
  /\ ~closing
  /\ st[j] = "none"
  /\ S \subseteq In("compiled")
  /\ st' = [k \in Job |-> IF k = j THEN "pending"
                          ELSE IF k \in S THEN "none" ELSE st[k]]
  /\ UNCHANGED closing

Start(j) ==
  /\ In("compiling") = {}
  /\ st[j] = "pending"
  /\ Move({j}, "compiling")
  /\ UNCHANGED closing

Finish(j) ==
  /\ st[j] = "compiling"
  /\ Move({j}, "compiled")
  /\ UNCHANGED closing

Release(S) ==
  /\ S \subseteq In("compiled")
  /\ Move(S, "none")
  /\ UNCHANGED closing

Close ==
  /\ ~closing
  /\ closing' = TRUE
  /\ UNCHANGED st

Drop(S) ==
  /\ closing
  /\ S \cap In("compiling") = {}
  /\ Move(S, "none")
  /\ UNCHANGED closing

(* Stop compiles what is left on the main thread, once the worker is gone. *)
CompileInline(j) ==
  /\ closing
  /\ In("compiling") = {}
  /\ st[j] = "pending"
  /\ Move({j}, "compiled")
  /\ UNCHANGED closing

(* Only a compiled job its owner was working on survives a Flush. *)
Reopen(keep) ==
  /\ closing
  /\ In("compiling") = {}
  /\ keep \subseteq In("compiled")
  /\ \A j, k \in keep : j = k
  /\ Move(Job \ keep, "none")
  /\ closing' = FALSE

Next ==
  \/ \E j \in Job : Start(j) \/ Finish(j) \/ CompileInline(j)
  \/ \E j \in Job, S \in SUBSET In("compiled") : Submit(j, S)
  \/ \E S \in SUBSET In("compiled") : Release(S) \/ Reopen(S)
  \/ \E S \in SUBSET Job : Drop(S)
  \/ Close

Spec == Init /\ [][Next]_vars
=============================================================================
