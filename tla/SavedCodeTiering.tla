-------------------------- MODULE SavedCodeTiering --------------------------
(***************************************************************************)
(* How functions move between tiers when d8 runs with --save-code or       *)
(* --load-code: lazy compilation, optimization, on-stack replacement,      *)
(* deoptimization, the optimized code map of a shared function info and    *)
(* the code block database.  One process is modelled: Process says which   *)
(* flag it runs with.  With --saveload-edge there is no concurrent         *)
(* recompilation, so everything happens on the main thread, one runtime    *)
(* call at a time.  No debugger is attached.                               *)
(***************************************************************************)
EXTENDS Integers, Sequences, FiniteSets, SequencesExt

CONSTANTS
  Process,      \* "save" or "load"
  Literal,      \* function literals of the script and of evals
  PositionOf,   \* Literal -> start position in its script
  Eval,         \* literals of eval'd scripts
  LazyAllowed,  \* literals that may be compiled lazily
  Callee,       \* Literal -> literals that may be inlined into it
  LoopOf,       \* Literal -> loops (OSR ast ids) of the literal
  Shared,       \* SharedFunctionInfos
  LiteralOf,    \* Shared -> Literal; recompiling the outer function makes
                \* another SharedFunctionInfo for the same literal
  Closure,      \* JSFunctions
  SharedOf,     \* Closure -> Shared
  NoLoop, NoChunk, NoShared,
  MaxCode,      \* bound on the optimized code objects made
  MaxDepth      \* bound on the JavaScript frames

Position == {PositionOf[l] : l \in Literal}
Loop == UNION {LoopOf[l] : l \in Literal}

ASSUME ProcessAssumption == Process \in {"save", "load"}
ASSUME SetAssumption ==
  /\ Eval \subseteq Literal /\ LazyAllowed \subseteq Literal
  /\ Callee \in [Literal -> SUBSET Literal]
  /\ LiteralOf \in [Shared -> Literal] /\ SharedOf \in [Closure -> Shared]
ASSUME DistinctAssumption == NoLoop \notin Loop /\ NoShared \notin Shared
ASSUME BoundAssumption == MaxCode \in Nat /\ MaxDepth \in Nat

VARIABLES
  db,         \* code_block_database: Position -> saved chunk or NoChunk
  sfi,        \* SharedFunctionInfo::code(): "none" (not built), "lazy",
              \* "full", or "deopt": full code with deoptimization support
  hasSaved,   \* has_saved_optimized_code
  disabled,   \* optimization_disabled
  patched,    \* the back edges of the shared code call OnStackReplacement
  current,    \* Literal -> the SharedFunctionInfo in its outer inner_infos
  codeMap,    \* optimized code maps: set of [shared, osr, code]
  heap,       \* optimized code objects, in the order they were made
  code,       \* JSFunction::code(): an index of heap, or one of the below
  stack       \* JavaScript frames: the closure, and its code (Full or an
              \* index of heap)

vars == <<db, sfi, hasSaved, disabled, patched, current, codeMap, heap, code,
          stack>>

(* What a JSFunction's code may be besides optimized code: unoptimized code,  *)
(* the builtins CompileLazy and CompileOptimized; a closure not made yet.    *)
Full == 0
Lazy == -1
Marked == -2
NoFunction == -3

(* A saved chunk: the literal it was compiled from, the loop its OSR entry   *)
(* is at, the literals inlined; made is a history field, the code object     *)
(* the chunk was saved from (0 in a process that reads the chunk).           *)
Chunk == [literal: Literal, loop: Loop \cup {NoLoop},
          inlined: SUBSET Literal, made: 0..MaxCode]

(* What a saving process may leave in the file at position p. *)
Storable(p, ck) ==
  /\ ck.literal \notin Eval /\ PositionOf[ck.literal] = p
  /\ ck.loop \in LoopOf[ck.literal] \cup {NoLoop}
  /\ ck.inlined \subseteq Callee[ck.literal]

(* The files a loading process may be given (see SavedIsStorable). *)
SavedFile ==
  {f \in [Position -> Chunk \cup {NoChunk}] :
     \A p \in Position :
       f[p] # NoChunk => Storable(p, f[p]) /\ f[p].made = 0}

Init ==
  /\ IF Process = "save" THEN db = [p \in Position |-> NoChunk]
                         ELSE db \in SavedFile
  /\ sfi = [s \in Shared |-> "none"]
  /\ hasSaved = [s \in Shared |-> FALSE]
  /\ disabled = [s \in Shared |-> FALSE]
  /\ patched = {}
  /\ current = [l \in Literal |-> NoShared]
  /\ codeMap = {}
  /\ heap = <<>>
  /\ code = [c \in Closure |-> NoFunction]
  /\ stack = <<>>

Start(s) == PositionOf[LiteralOf[s]]
Optimized(k) == k > 0
Top == Last(stack)

(* Control is in JavaScript, not on its way back into code that has been     *)
(* patched to deoptimize.                                                    *)
Running ==
  stack # <<>> => (Optimized(Top.code) => ~heap[Top.code].marked)

-----------------------------------------------------------------------------
(* An outcome is what a compilation, or a step of one, leaves behind; result *)
(* is the code it returns, Full for none.                                    *)

Unchanged ==
  [result |-> Full, db |-> db, sfi |-> sfi, hasSaved |-> hasSaved,
   disabled |-> disabled, codeMap |-> codeMap, heap |-> heap]

Leave(o) ==
  /\ db' = o.db /\ sfi' = o.sfi /\ hasSaved' = o.hasSaved
  /\ disabled' = o.disabled /\ codeMap' = o.codeMap /\ heap' = o.heap

-----------------------------------------------------------------------------
(* Code maps and the database. *)

Evict(cm, s, k) == {e \in cm : ~(e.shared = s /\ e.code = k)}

(* Mutation: a loading process goes on using what it discarded. *)
DiscardOnlyBlocks(o, S) ==
  IF Process = "save"
  THEN [o EXCEPT !.db = [p \in Position |-> IF \E s \in S : Start(s) = p
                                            THEN NoChunk ELSE @[p]]]
  ELSE o

(* Mutation: a loading process removes the block too. *)
DiscardRemovesBlock(o, S) ==
  [o EXCEPT !.db = [p \in Position |-> IF \E s \in S : Start(s) = p
                                       THEN NoChunk ELSE @[p]],
            !.hasSaved = [s \in Shared |-> @[s] /\ s \notin S]]

(* SharedFunctionInfo::DiscardSavedOptimizedCode of every member of S. *)
Discard(o, S) ==
  IF Process = "save"
  THEN [o EXCEPT !.db = [p \in Position |-> IF \E s \in S : Start(s) = p
                                            THEN NoChunk ELSE @[p]]]
  ELSE [o EXCEPT !.hasSaved = [s \in Shared |-> @[s] /\ s \notin S]]

(* Mutation: the code map forgets the replaced code, the database does not. *)
ReplaceCodeKeepsSaved(o, c, k) ==
  /\ code' = [code EXCEPT ![c] = k]
  /\ Leave(IF Optimized(code[c]) /\ Optimized(k)
           THEN [o EXCEPT !.codeMap = Evict(@, SharedOf[c], code[c])]
           ELSE o)

(* JSFunction::ReplaceCode of c by k, after a compilation that left o.       *)
ReplaceCode(o, c, k) ==
  LET s == SharedOf[c]
      again == Optimized(code[c]) /\ Optimized(k)
  IN  /\ code' = [code EXCEPT ![c] = k]
      /\ Leave(IF again THEN Discard([o EXCEPT !.codeMap =
                                        Evict(@, s, code[c])], {s})
               ELSE o)

(* The code a closure gets from its SharedFunctionInfo. *)
SharedCode(f, s) == IF f[s] = "lazy" THEN Lazy ELSE Full

-----------------------------------------------------------------------------
(* Compilation. *)

(* Mutation: a function that was never compiled is left to CompileLazy. *)
EnsureOfCompiledOnly(o, S) ==
  [o EXCEPT !.sfi = [s \in Shared |-> IF s \in S /\ o.sfi[s] = "full"
                                      THEN "deopt" ELSE o.sfi[s]]]

EnsureDeoptimizationSupport(o, S) ==
  [o EXCEPT !.sfi = [s \in Shared |-> IF s \in S THEN "deopt" ELSE o.sfi[s]]]

(* GenerateCode and InsertCodeIntoOptimizedCodeMap for a request at osr.     *)
GenerateOptimizedCode(o, s, osr, ck, inlined, loaded) ==
  LET k == Len(o.heap) + 1
  IN  [o EXCEPT
         !.result = k,
         !.heap = Append(@, [shared |-> s, literal |-> ck.literal,
                             loop |-> ck.loop, inlined |-> inlined,
                             loaded |-> loaded, marked |-> FALSE,
                             bailedOut |-> FALSE]),
         !.codeMap = @ \cup {[shared |-> s, osr |-> osr, code |-> k]}]

(* LoadOptimizedCode: the chunk is found by position and restored against    *)
(* the SharedFunctionInfos reachable from the root of the script.  A failure *)
(* leaves the deoptimization support that was made before it, and generating *)
(* the code may disable optimization for good.                               *)
LoadOptimizedCode(o, s, osr) ==
  LET ck == o.db[Start(s)]
      reached == {current[l] : l \in ck.inlined}
      failed == [o EXCEPT !.hasSaved[s] = FALSE]
  IN  {EnsureDeoptimizationSupport(failed, R) : R \in SUBSET (reached \ {NoShared})}
      \cup
      (IF NoShared \in reached THEN {}
       ELSE LET e == EnsureDeoptimizationSupport(o, reached)
            IN  {GenerateOptimizedCode(e, s, osr, ck, reached, TRUE),
                 [EnsureDeoptimizationSupport(failed, reached)
                    EXCEPT !.disabled[s] = TRUE]})

(* CreateGraph, OptimizeGraph and GenerateOptimizedCode.  Any compiled       *)
(* SharedFunctionInfo of a callee may be the one that is inlined.            *)
MakeOptimizedCode(o, s, osr) ==
  LET e == EnsureDeoptimizationSupport(o, {s})
      targets == {t \in Shared : LiteralOf[t] \in Callee[LiteralOf[s]]
                                   /\ sfi[t] # "none"}
      Inlining(I) == EnsureDeoptimizationSupport(e, I)
  IN  {[Inlining(I) EXCEPT !.disabled[s] = d] : I \in SUBSET targets,
                                                d \in BOOLEAN}
      \cup
      {GenerateOptimizedCode(
         Inlining(I), s, osr,
         [literal |-> LiteralOf[s], loop |-> osr], I, FALSE) :
         I \in SUBSET targets}

(* Mutation: the compilation type of the script is not looked at. *)
SaveEvalToo(o, s) ==
  LET k == o.heap[o.result]
      ck == [literal |-> k.literal, loop |-> k.loop,
             inlined |-> {LiteralOf[t] : t \in k.inlined}, made |-> o.result]
  IN  IF o.result = Full \/ Process # "save" THEN {o}
      ELSE {o, [o EXCEPT !.db[Start(s)] = ck]}

(* SaveOptimizedCode after a successful compilation; saving may fail.        *)
SaveOptimizedCode(o, s) ==
  LET k == o.heap[o.result]
      ck == [literal |-> k.literal, loop |-> k.loop,
             inlined |-> {LiteralOf[t] : t \in k.inlined}, made |-> o.result]
  IN  IF o.result = Full \/ Process # "save" \/ LiteralOf[s] \in Eval THEN {o}
      ELSE {o, [o EXCEPT !.db[Start(s)] = ck]}

GetOptimizedCodeNow(o, s, osr) ==
  IF hasSaved[s] THEN LoadOptimizedCode(o, s, osr)
  ELSE UNION {SaveOptimizedCode(m, s) : m \in MakeOptimizedCode(o, s, osr)}

(* Compiler::GetOptimizedCode.  fresh: no current code is passed in.         *)
GetOptimizedCode(s, osr, fresh) ==
  LET cached == {e \in codeMap : e.shared = s /\ e.osr = osr}
      compiled == IF fresh \/ sfi[s] = "lazy"
                  THEN EnsureDeoptimizationSupport(Unchanged, {s})
                  ELSE Unchanged
  IN  IF cached # {}
      THEN {[Unchanged EXCEPT !.result = e.code] : e \in cached}
      ELSE GetOptimizedCodeNow(compiled, s, osr)

Bounded(o) == Len(o.heap) <= MaxCode

-----------------------------------------------------------------------------
(* The program builds functions and closures. *)

(* Compiler::BuildFunctionInfo, when the outer function is compiled.         *)
BuildFunctionInfo(s) ==
  LET l == LiteralOf[s]
      saved == Process = "load" /\ db[Start(s)] # NoChunk
  IN  /\ Running
      /\ sfi[s] = "none"
      /\ \E k \in {"lazy", "full"} :
           /\ saved => k = "lazy"
           /\ ~saved /\ l \notin LazyAllowed => k = "full"
           /\ sfi' = [sfi EXCEPT ![s] = k]
      /\ hasSaved' = [hasSaved EXCEPT ![s] = saved]
      /\ current' = [current EXCEPT ![l] = s]
      /\ UNCHANGED <<db, disabled, patched, codeMap, heap, code, stack>>

(* Factory::NewFunctionFromSharedFunctionInfo. *)
NewClosure(c) ==
  LET s == SharedOf[c]
      cached == {e \in codeMap : e.shared = s /\ e.osr = NoLoop}
  IN  /\ Running
      /\ code[c] = NoFunction
      /\ sfi[s] # "none"
      /\ \E k \in IF cached = {} THEN {SharedCode(sfi, s)}
                  ELSE {e.code : e \in cached} :
           code' = [code EXCEPT ![c] = k]
      /\ UNCHANGED <<db, sfi, hasSaved, disabled, patched, current, codeMap,
                     heap, stack>>

-----------------------------------------------------------------------------
(* Calls. *)

Enter(c, k) ==
  /\ Len(stack) < MaxDepth
  /\ stack' = Append(stack, [fn |-> c, code |-> k])

(* A call of a closure that has code. *)
Call(c) ==
  /\ Running
  /\ code[c] = Full \/ Optimized(code[c])
  /\ Enter(c, code[c])
  /\ UNCHANGED <<db, sfi, hasSaved, disabled, patched, current, codeMap, heap,
                 code>>

Return ==
  /\ Running
  /\ stack # <<>>
  /\ stack' = Front(stack)
  /\ UNCHANGED <<db, sfi, hasSaved, disabled, patched, current, codeMap, heap,
                 code>>

(* Compiler::GetLazyCode: the shared code if there is some, else the saved   *)
(* code, else full code, compiled without deoptimization support.            *)
GetLazyCode(s) ==
  IF sfi[s] # "lazy" THEN {Unchanged}
  ELSE IF hasSaved[s] /\ ~disabled[s]
  THEN {IF o.result # Full THEN o ELSE [o EXCEPT !.sfi[s] = "full"] :
          o \in GetOptimizedCode(s, NoLoop, TRUE)}
  ELSE {[Unchanged EXCEPT !.sfi[s] = "full"]}

(* Runtime_CompileLazy, then the call. *)
CompileLazy(c) ==
  /\ Running
  /\ code[c] = Lazy
  /\ \E o \in GetLazyCode(SharedOf[c]) :
       /\ Bounded(o)
       /\ ReplaceCode(o, c, o.result)
       /\ Enter(c, o.result)
  /\ UNCHANGED <<patched, current>>

(* Runtime_CompileOptimized, then the call. *)
CompileOptimized(c) ==
  LET s == SharedOf[c]
  IN  /\ Running
      /\ code[c] = Marked
      /\ \E o \in IF disabled[s] THEN {Unchanged}
                  ELSE GetOptimizedCode(s, NoLoop, FALSE) :
           /\ Bounded(o)
           /\ ReplaceCode(o, c, o.result)
           /\ Enter(c, o.result)
      /\ UNCHANGED <<patched, current>>

-----------------------------------------------------------------------------
(* The profiler's tick finds a frame of c. *)

(* RuntimeProfiler::Optimize. *)
Optimize(c) ==
  LET s == SharedOf[c]
  IN  /\ Running
      /\ \E i \in 1..Len(stack) : stack[i].fn = c
      /\ code[c] = Full /\ ~disabled[s]
      /\ code' = [code EXCEPT ![c] = Marked]
      /\ UNCHANGED <<db, sfi, hasSaved, disabled, patched, current, codeMap,
                     heap, stack>>

(* RuntimeProfiler::AttemptOnStackReplacement. *)
AttemptOnStackReplacement(c) ==
  LET s == SharedOf[c]
  IN  /\ Running
      /\ [fn |-> c, code |-> Full] \in Range(stack)
      /\ code[c] = Marked \/ Optimized(code[c])
      /\ ~disabled[s]
      /\ patched' = patched \cup {s}
      /\ UNCHANGED <<db, sfi, hasSaved, disabled, current, codeMap, heap,
                     code, stack>>

(* SharedFunctionInfo::TryReenableOptimization. *)
TryReenableOptimization(s) ==
  /\ Running
  /\ disabled[s]
  /\ \E i \in 1..Len(stack) : SharedOf[stack[i].fn] = s
  /\ disabled' = [disabled EXCEPT ![s] = FALSE]
  /\ UNCHANGED <<db, sfi, hasSaved, patched, current, codeMap, heap, code,
                 stack>>

IsSuitableForOnStackReplacement(c) ==
  /\ ~disabled[SharedOf[c]]
  /\ \A i \in 1..Len(stack) : stack[i].fn = c => stack[i].code = Full

(* Runtime_CompileForOnStackReplacement at loop l of the top frame. *)
CompileForOnStackReplacement(l) ==
  /\ stack # <<>>
  /\ Top.code = Full
  /\ LET c == Top.fn
         s == SharedOf[c]
     IN  /\ l \in LoopOf[LiteralOf[s]]
         /\ s \in patched
         /\ patched' = patched \ {s}
         /\ \E o \in IF IsSuitableForOnStackReplacement(c)
                     THEN GetOptimizedCode(s, l, FALSE) ELSE {Unchanged} :
              /\ Bounded(o)
              /\ \/ /\ o.result # Full
                    /\ o.heap[o.result].loop # NoLoop
                    /\ ReplaceCode(o, c, o.result)
                    /\ stack' = Append(Front(stack),
                                       [fn |-> c, code |-> o.result])
                 \/ /\ o.result # Full => o.heap[o.result].loop = NoLoop
                    /\ IF Optimized(code[c]) THEN Leave(o) /\ UNCHANGED code
                       ELSE ReplaceCode(o, c, Full)
                    /\ UNCHANGED stack
  /\ UNCHANGED current

-----------------------------------------------------------------------------
(* Deoptimization. *)

(* Mutation: the entries of the optimized code maps stay. *)
DeoptimizeKeepsMap(o, K) ==
  /\ code' = [c \in Closure |-> IF code[c] \in K
                                THEN SharedCode(sfi, SharedOf[c])
                                ELSE code[c]]
  /\ Leave(Discard([o EXCEPT !.heap = [k \in DOMAIN o.heap |->
                                 [o.heap[k] EXCEPT !.marked = @ \/ k \in K]]],
                   {heap[k].shared : k \in K}))

(* DeoptimizeMarkedCode of the code objects K: unlink the closures, evict    *)
(* and discard.                                                              *)
DeoptimizeMarkedCode(o, K) ==
  /\ code' = [c \in Closure |-> IF code[c] \in K
                                THEN SharedCode(sfi, SharedOf[c])
                                ELSE code[c]]
  /\ Leave(Discard([o EXCEPT !.heap = [k \in DOMAIN o.heap |->
                                 [o.heap[k] EXCEPT !.marked = @ \/ k \in K]],
                             !.codeMap = {e \in @ : e.code \notin K}],
                   {heap[k].shared : k \in K}))

(* A dependency of the code objects K changes.  *)
DeoptimizeDependentCodeGroup(K) ==
  /\ Running
  /\ K # {} /\ \A k \in K : ~heap[k].marked
  /\ DeoptimizeMarkedCode(Unchanged, K)
  /\ UNCHANGED <<patched, current, stack>>

(* Mutation: other activations of the code are not looked for. *)
NotifyWithoutSearch ==
  /\ stack # <<>>
  /\ Optimized(Top.code)
  /\ ~heap[Top.code].marked
  /\ LET c == Top.fn
         k == Top.code
         s == SharedOf[c]
         o == [Unchanged EXCEPT !.heap[k].bailedOut = TRUE,
                                !.codeMap = Evict(@, s, k)]
     IN  /\ stack' = Append(Front(stack), [fn |-> c, code |-> Full])
         /\ code' = [code EXCEPT ![c] = SharedCode(sfi, s)]
         /\ Leave(Discard(o, {s}))
  /\ UNCHANGED <<patched, current>>

(* Runtime_NotifyDeoptimized of an eager bailout of the top frame.           *)
NotifyDeoptimized ==
  /\ stack # <<>>
  /\ Optimized(Top.code)
  /\ ~heap[Top.code].marked
  /\ LET c == Top.fn
         k == Top.code
         s == SharedOf[c]
         o == [Unchanged EXCEPT !.heap[k].bailedOut = TRUE]
         activations == \E i \in 1 .. Len(stack) - 1 : stack[i].code = k
     IN  /\ stack' = Append(Front(stack), [fn |-> c, code |-> Full])
         /\ IF activations
            THEN DeoptimizeMarkedCode(o, {code[c]} \cap DOMAIN heap)
            ELSE /\ code' = IF code[c] = k
                            THEN [code EXCEPT ![c] = SharedCode(sfi, s)]
                            ELSE code
                 /\ Leave(IF code[c] = k
                          THEN Discard([o EXCEPT !.codeMap =
                                          Evict(@, s, k)], {s})
                          ELSE o)
  /\ UNCHANGED <<patched, current>>

(* Control comes back into marked code: a lazy bailout.  NotifyDeoptimized   *)
(* does nothing more.                                                        *)
LazyBailout ==
  /\ ~Running
  /\ stack' = Append(Front(stack), [fn |-> Top.fn, code |-> Full])
  /\ UNCHANGED <<db, sfi, hasSaved, disabled, patched, current, codeMap, heap,
                 code>>

Next ==
  \/ \E s \in Shared : BuildFunctionInfo(s) \/ TryReenableOptimization(s)
  \/ \E c \in Closure :
       \/ NewClosure(c) \/ Call(c) \/ CompileLazy(c) \/ CompileOptimized(c)
       \/ Optimize(c) \/ AttemptOnStackReplacement(c)
  \/ \E l \in Loop : CompileForOnStackReplacement(l)
  \/ \E K \in SUBSET (1..Len(heap)) : DeoptimizeDependentCodeGroup(K)
  \/ NotifyDeoptimized \/ LazyBailout \/ Return

Spec == Init /\ [][Next]_vars

-----------------------------------------------------------------------------
Deoptimized(k) == heap[k].marked \/ heap[k].bailedOut

(* NotifyDeoptimized and DeoptimizeFunction act on function->code() where    *)
(* they mean the code of the frame: a frame that runs optimized code runs    *)
(* the code its function has, unless that code is marked and waits for its   *)
(* lazy bailout.                                                             *)
FrameRunsFunctionCode ==
  \A i \in 1..Len(stack) :
    Optimized(stack[i].code) /\ ~heap[stack[i].code].marked =>
      code[stack[i].fn] = stack[i].code

(* Code marked for deoptimization is reached by no closure and by no         *)
(* optimized code map, so that no new activation of it can start             *)
(* (DCHECK(!code->marked_for_deoptimization()) in the factory).              *)
MarkedIsUnlinked ==
  /\ \A c \in Closure : Optimized(code[c]) => ~heap[code[c]].marked
  /\ \A e \in codeMap : ~heap[e.code].marked

(* What a saving process has in the database is the code of an entry of an   *)
(* optimized code map: whatever evicts code from the map discards the chunk. *)
SavedIsCached ==
  Process = "save" =>
    \A p \in Position : db[p] # NoChunk =>
      \E e \in codeMap : e.code = db[p].made

(* What a saving process has in the database is what a loading one expects:  *)
(* at a position, a chunk of the script's own function there.  An eval's     *)
(* function may start at the same position of its own source.                *)
SavedIsStorable ==
  Process = "save" =>
    \A p \in Position : db[p] # NoChunk => Storable(p, db[p])

(* Once loaded code of a SharedFunctionInfo has been deoptimized, its saved  *)
(* code is not loaded again: the same code would be deoptimized again.       *)
DeoptStopsLoading ==
  Process = "load" =>
    \A k \in 1..Len(heap) :
      heap[k].loaded /\ Deoptimized(k) => ~hasSaved[heap[k].shared]

(* Optimized code can always bail out: the function and the functions        *)
(* inlined into it have unoptimized code with deoptimization support.        *)
DeoptSupport ==
  \A k \in 1..Len(heap) :
    \A s \in {heap[k].shared} \cup heap[k].inlined : sfi[s] = "deopt"

(* CodeBlockDatabase::GetCode is never asked for code that is not there      *)
(* (its UNREACHABLE).                                                        *)
LoadFindsCode ==
  \A s \in Shared : hasSaved[s] => db[Start(s)] # NoChunk

-----------------------------------------------------------------------------
(* Statements of the sources that the code does not keep. *)

(* DCHECK in Runtime_CompileForOnStackReplacement: the frame is entered at   *)
(* the OSR entry of the loop that asked.  The code object records the loop   *)
(* of the request, whatever loop the chunk was saved for.                    *)
OsrEntryOfRequestedLoop ==
  \A e \in codeMap :
    e.osr # NoLoop /\ heap[e.code].loop # NoLoop => heap[e.code].loop = e.osr
=============================================================================
