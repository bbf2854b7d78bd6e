--------------------- MODULE MCOptimizingCompilerThread ---------------------
(***************************************************************************)
(* Small instances of OptimizingCompilerThread for TLC.                    *)
(***************************************************************************)
EXTENDS OptimizingCompilerThread, TLC

CONSTANTS f1, f2, s1, s2, a, b, c, d, e

(* Two closures of one large function. *)
TwoClosures == {f1, f2}
OneShared == {s1}
SharedOfClosures == [f \in TwoClosures |-> s1]

(* Two unrelated functions. *)
TwoShareds == {s1, s2}
SharedOfFunctions == f1 :> s1 @@ f2 :> s2

(* Loops of s1: an outer one and one nested in it. *)
NestedLoops == {a, b}
LoopOfNested == [l \in NestedLoops |-> s1]
DepthOfNested == a :> 1 @@ b :> 2

(* Five consecutive loops. *)
FiveLoops == {a, b, c, d, e}
LoopOfFive == [l \in FiveLoops |-> s1]
DepthOfFive == [l \in FiveLoops |-> 1]

OneFunction == {f1}
SharedOfOne == [f \in OneFunction |-> s1]
(* One loop. *)
OneLoop == {a}
LoopOfOne == [l \in OneLoop |-> s1]
DepthOfOne == [l \in OneLoop |-> 1]

NoLoops == {}
Empty == [l \in {} |-> s1]
EmptyDepth == [l \in {} |-> 1]

JobSymmetry == Permutations(Job)

(* Prunes the search for a full OSR buffer to behaviours in which the main   *)
(* thread reaches no interrupt check, GC or flush in between.                *)
NothingInstalled ==
  /\ stop = "CONTINUE"
  /\ mpc # "install"
  /\ cursor = Cardinality(Buffered) % OsrCapacity
  /\ \A f \in Function : code[f] \in {"full", "marked"}
=============================================================================
