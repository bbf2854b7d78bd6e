------------------------ MODULE MCSavedCodeTiering --------------------------
(***************************************************************************)
(* A script with a function f that has loops and may inline g, and an eval *)
(* whose function h starts at the position of f.  A run takes some of the  *)
(* literals, SharedFunctionInfos and closures.                             *)
(***************************************************************************)
EXTENDS SavedCodeTiering, TLC

CONSTANTS f, g, h, l1, l2,        \* literals and loops
          f1, f2, g1, h1,         \* SharedFunctionInfos
          fa, fb, fc, ga, ha      \* closures

Positions == [l \in Literal |-> IF l = g THEN 2 ELSE 1]
Callees == [l \in Literal |-> IF l = f THEN {g} \cap Literal ELSE {}]
TwoLoops == [l \in Literal |-> IF l = f THEN {l1, l2} ELSE {}]
NoLoops == [l \in Literal |-> {}]
OneLoop == [l \in Literal |-> IF l = f THEN {l1} ELSE {}]
Literals ==
  [s \in Shared |-> (f1 :> f @@ f2 :> f @@ g1 :> g @@ h1 :> h)[s]]
Shareds ==
  [c \in Closure |->
     (fa :> f1 @@ fb :> f1 @@ fc :> f2 @@ ga :> g1 @@ ha :> h1)[c]]

(* fa and fb are closures of the same function. *)
ClosureSymmetry == Permutations({fa, fb})
=============================================================================
