----------------------------- MODULE MCCodeCache -----------------------------
(***************************************************************************)
(* A script with functions f and g, a later g = function g() {...} (below  *)
(* laterG) and p, in which c and q are nested.  Start positions, names,    *)
(* constant ids and operands overlap, so that a misread cell is not        *)
(* noticed by its value.                                                   *)
(***************************************************************************)
EXTENDS CodeCache, TLC

f == 1
g == 2
laterG == 3
p == 4
c == 5
q == 6

Literals == 0..6
InnerOf == [l \in Literals |->
              CASE l = 0 -> <<f, g, laterG, p>> [] l = p -> <<c, q>> [] OTHER -> <<>>]
Names == [l \in Literals |-> IF l = laterG THEN g ELSE l]
ContextNames == [l \in Literals |-> IF l \in {c, q} THEN {c, q} ELSE {}]

Frame(id, fn, values) == [ast_id |-> id, closure |-> fn, values |-> values]
Instr(op, inputs, env, pointers) ==
  [opcode |-> op, inputs |-> inputs, deferred |-> <<>>, env |-> env,
   pointer_map |-> pointers]

(* A function that inlines fn, after a comparison with it unless the callee  *)
(* is known from a constant property cell.  The inlined frame's caller has a *)
(* constant that no instruction uses.                                        *)
Inlining(owner, fn, compares) ==
  [owner |-> owner,
   spill_slot_count |-> 2,
   blocks |-> <<[ast_id |-> 0, entry |-> 0], [ast_id |-> 3, entry |-> 0],
                [ast_id |-> 1, entry |-> 2]>>,
   constants |-> 1 :> [type |-> kOther, value |-> fn]
                 @@ 2 :> [type |-> kInteger, value |-> 0]
                 @@ 3 :> [type |-> kInteger, value |-> 4],
   instructions |->
     <<Instr(1, IF compares THEN <<1, 5>> ELSE <<5>>,
             <<Frame(2, owner, <<5>>)>>, <<>>),
       Instr(3, <<>>, <<Frame(2, owner, <<2, 4>>), Frame(1, fn, <<5>>)>>, <<4>>)>>,
   inlined |-> <<fn>>]

(* x instanceof fn: no function is inlined and fn is only in an environment. *)
TestingInstance(owner, fn) ==
  [owner |-> owner,
   spill_slot_count |-> 0,
   blocks |-> <<[ast_id |-> 0, entry |-> 0]>>,
   constants |-> 3 :> [type |-> kInteger, value |-> 1],
   instructions |->
     <<[opcode |-> InstanceOfKnownGlobal, inputs |-> <<4>>,
        deferred |-> <<Frame(4, owner, <<3>>), Frame(3, fn, <<>>)>>,
        env |-> <<>>, pointer_map |-> <<4, 5>>],
       Instr(0, <<>>, <<Frame(4, owner, <<3>>), Frame(3, fn, <<>>)>>, <<>>)>>,
   inlined |-> <<>>]

Chunks == {Inlining(f, p, TRUE), Inlining(f, laterG, FALSE),
           TestingInstance(f, laterG), Inlining(q, c, TRUE)}

(* The contents a code block can have: what names are bound to matters for   *)
(* g, c and p only.                                                          *)
Codes == {Save(ck, [owner |-> ck.owner, binding |-> b]) :
            ck \in Chunks, b \in {<<>>, c :> c @@ g :> laterG @@ p :> p}}
==============================================================================
