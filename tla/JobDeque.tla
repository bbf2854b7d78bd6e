------------------------------ MODULE JobDeque ------------------------------
(***************************************************************************)
(* The input queue as OptimizingCompilerThread uses it: a bounded          *)
(* double-ended queue of jobs.  Regular jobs join at the back, OSR jobs at *)
(* the front, and the consumer takes the front.                            *)
(***************************************************************************)
EXTENDS Integers, Sequences

CONSTANTS Job, Capacity

VARIABLES q,      \* the jobs, front first
          taken   \* the last job taken out

dequeVars == <<q, taken>>

Init == q = <<>> /\ taken \notin Job

PushBack(j) == Len(q) < Capacity /\ q' = Append(q, j) /\ UNCHANGED taken
PushFront(j) == Len(q) < Capacity /\ q' = <<j>> \o q /\ UNCHANGED taken
PopFront == q # <<>> /\ taken' = Head(q) /\ q' = Tail(q)

Next == (\E j \in Job : PushBack(j) \/ PushFront(j)) \/ PopFront

Spec == Init /\ [][Next]_dequeVars
=============================================================================
