----------------------------- MODULE LChunkCodec -----------------------------
(***************************************************************************)
(* How an optimized Lithium chunk becomes bytes (LChunkSaver) and a chunk  *)
(* again in another process (LChunkLoader).  The bytes are a sequence of   *)
(* cells, one for each primitive; nothing in them tells what a cell is, so *)
(* the loader must take the same turns as the saver did.  Objects of the   *)
(* heap cannot be written down: a JSFunction is saved as the name it is    *)
(* bound to or as its start position, a SharedFunctionInfo as a path down  *)
(* the tree of function literals.  A function is known by its literal, a   *)
(* literal by its start position.  Synchronize writes and checks offsets,  *)
(* as in a debug build.                                                    *)
(***************************************************************************)
EXTENDS Integers, Sequences, SequencesExt

CONSTANTS
  Literal,      \* start positions of the function literals of the script
  Root,         \* the literal of the script itself
  Inner,        \* Literal -> the literals directly inside, in source order
  NameOf,       \* Literal -> SharedFunctionInfo::name(), NoName for ""
  NoName,
  GlobalName,   \* names that are properties of the global object
  ContextName,  \* Literal -> names found in the contexts around a closure
  MaximumValueID,  \* GetMaximumValueID() of the graph
  ConstantId    \* values of LOperands that are constant operands

(* A literal lies inside another one, which starts before it, up to the root. *)
ASSUME ScriptAssumption ==
  /\ Literal \subseteq Nat /\ Root \in Literal
  /\ Inner \in [Literal -> Seq(Literal)]
  /\ \A l \in Literal \ {Root} : \E o \in Literal : l \in ToSet(Inner[o])
  /\ \A o \in Literal : \A l \in ToSet(Inner[o]) : o < l
  /\ NameOf \in [Literal -> Nat] /\ NoName \in Nat
  /\ MaximumValueID \in Nat /\ ConstantId \subseteq 0 .. MaximumValueID - 1

Name == {NameOf[l] : l \in Literal} \ {NoName}

(* outer_info() and the index in its inner_infos().                          *)
Outer(l) == CHOOSE o \in Literal : l \in ToSet(Inner[o])
InnerIndex(l) == CHOOSE i \in DOMAIN Inner[Outer(l)] : Inner[Outer(l)][i] = l

(* A chunk: its basic blocks, the graph's constants by id, the instructions  *)
(* and the inlined functions.  An environment is the sequence of its frames, *)
(* the outermost one first; <<>> where there is none.  The inputs stand for  *)
(* the operands of the moves of a gap and the constant an LConstant makes    *)
(* too.                                                                      *)
kInteger == 0
kOther == 1
InstanceOfKnownGlobal == 9

(* FunctionRelocationType *)
kByPathFromRoot == 1
kByNameInContextChain == 2
kByNameInGlobalObject == 3
kByStartPosition == 4

(* A loop of n turns: what there is after each of them.  (A fold would give  *)
(* the end only; the turns are what saver and loader have in common.)        *)
Loop(n, start, Turn(_, _)) ==
  LET after[i \in 0..n] == IF i = 0 THEN start ELSE Turn(after[i - 1], i)
  IN  after

-----------------------------------------------------------------------------
(* Saving.  b is what has been saved so far, w what the process has: the     *)
(* function being compiled and the function each name is bound to.           *)

Synchronize(b) == Append(b, Len(b))

(* The names SaveJSFunction can use: in the context chain of the closure or  *)
(* else in the global object, and bound to this very function.               *)
HasName(fn, w) ==
  /\ NameOf[fn] \in ContextName[w.owner] \cup GlobalName
  /\ NameOf[fn] \in DOMAIN w.binding /\ w.binding[NameOf[fn]] = fn

(* SaveJSFunction fails for other functions: refs to inner JSFs.             *)
IsSaveable(fn, w) == HasName(fn, w) \/ Outer(fn) = Root

(* Mutation: a function is saved by its start position first. *)
SaveJSFunctionByPosition(b, fn, w) == b \o <<kByStartPosition, fn>>

SaveJSFunction(b, fn, w) ==
  b \o IF HasName(fn, w)
       THEN <<IF NameOf[fn] \in ContextName[w.owner]
              THEN kByNameInContextChain ELSE kByNameInGlobalObject,
              NameOf[fn]>>
       ELSE <<kByStartPosition, fn>>

(* Mutation: the loop that writes the path backwards stops one index early. *)
SaveSharedFunctionInfoShort(b, l) ==
  LET path[k \in Literal \cap 0..l] ==
        IF k = Root THEN <<>> ELSE Append(path[Outer(k)], InnerIndex(k) - 1)
  IN  b \o <<kByPathFromRoot>> \o Front(path[l]) \o <<-1>>

(* The ways down from the root to the literals that start at l or before.    *)
Paths(l) ==
  LET path[k \in Literal \cap 0..l] ==
        IF k = Root THEN <<>> ELSE Append(path[Outer(k)], InnerIndex(k) - 1)
  IN  path

(* The way down from the root, ended by -1.                                  *)
SaveSharedFunctionInfo(b, l) ==
  b \o <<kByPathFromRoot>> \o Paths(l)[l] \o <<-1>>

SaveList(b, s) == b \o <<Len(s)>> \o s

SaveFrame(b, frame, w) ==
  LET fields == Append(b, frame.ast_id)
  IN  SaveList(IF frame.closure = w.owner THEN Append(fields, 1)
               ELSE SaveJSFunction(Append(fields, 0), frame.closure, w),
               frame.values)

(* SaveEnvironment: a true for every outer environment, a false, the frames. *)
SaveFrames(b, env, w) ==
  Loop(Len(env),
       b \o [i \in 1..Len(env) |-> IF i < Len(env) THEN 1 ELSE 0],
       LAMBDA x, i : SaveFrame(x, env[i], w))

SaveEnvironment(b, env, w) == SaveFrames(b, env, w)[Len(env)]

SaveInstruction(b, instr, w) ==
  LET fields == SaveList(Append(b, instr.opcode), instr.inputs)
      own == IF instr.opcode = InstanceOfKnownGlobal
             THEN SaveEnvironment(fields, instr.deferred, w) ELSE fields
      env == IF instr.env # <<>>
             THEN SaveEnvironment(Append(own, 1), instr.env, w)
             ELSE Append(own, 0)
      pointers == IF instr.pointer_map # <<>>
                  THEN SaveList(Append(env, 1), instr.pointer_map)
                  ELSE Append(env, 0)
  IN  Synchronize(pointers)

(* The first block has no ast id; an inline return target names the block    *)
(* its inlined function is entered at.                                       *)
SaveBlock(b, block, i) ==
  b \o (IF i = 1 THEN <<>> ELSE <<block.ast_id>>)
    \o (IF block.entry = 0 THEN <<0>> ELSE <<1, block.entry>>)

SaveBlocks(b, blocks) ==
  Loop(Len(blocks), Append(b, Len(blocks)),
       LAMBDA x, i : SaveBlock(x, blocks[i], i))

SaveBasicBlocks(b, blocks) == Synchronize(SaveBlocks(b, blocks)[Len(blocks)])

EnvironmentValues(env) == UNION {ToSet(env[i].values) : i \in DOMAIN env}

(* Mutation: outer environments are not looked at. *)
LiveConstantsOfInner(ck) ==
  ConstantId \cap
    UNION {ToSet(instr.inputs)
             \cup (IF instr.env = <<>> THEN {} ELSE ToSet(Last(instr.env).values)) :
             instr \in ToSet(ck.instructions)}

(* The constants the inputs and the environments of instructions use.        *)
LiveConstants(ck) ==
  ConstantId \cap UNION {ToSet(instr.inputs) \cup EnvironmentValues(instr.env) :
                           instr \in ToSet(ck.instructions)}

SaveHConstantShim(b, constant, w) ==
  IF constant.type = kInteger THEN b \o <<kInteger, constant.value>>
  ELSE Append(SaveJSFunction(Append(b, kOther), constant.value, w), 0)

(* BitVector::Iterator: the members of the bit vector, in ascending order.   *)
LiveIds(ck) ==
  Loop(MaximumValueID, <<>>,
       LAMBDA ids, n : IF n - 1 \in LiveConstants(ck) THEN Append(ids, n - 1)
                       ELSE ids)[MaximumValueID]

SaveLive(b, ck, w) ==
  LET live == LiveIds(ck)
  IN  Loop(Len(live), Append(b, Len(live)),
           LAMBDA x, i : SaveHConstantShim(Append(x, live[i]),
                                           ck.constants[live[i]], w))

SaveConstants(b, ck, w) == Synchronize(SaveLive(b, ck, w)[Len(LiveIds(ck))])

SaveInstructions(b, ck, w) ==
  Loop(Len(ck.instructions), Append(b, Len(ck.instructions)),
       LAMBDA x, i : SaveInstruction(x, ck.instructions[i], w))

SaveInlined(b, ck) ==
  Loop(Len(ck.inlined), Append(b, Len(ck.inlined)),
       LAMBDA x, i : SaveSharedFunctionInfo(x, ck.inlined[i]))

(* LChunkSaver::Save                                                         *)
Save(ck, w) ==
  LET header == Synchronize(<<ck.spill_slot_count>>)
      constants == SaveConstants(SaveBasicBlocks(header, ck.blocks), ck, w)
      instructions ==
        SaveInstructions(constants, ck, w)[Len(ck.instructions)]
  IN  SaveInlined(instructions, ck)[Len(ck.inlined)]

(* The functions a chunk refers to: in the constants that are saved and in   *)
(* environments.                                                             *)
ConstantFunctions(ck) ==
  {ck.constants[id].value : id \in {id \in LiveConstants(ck) :
                                      ck.constants[id].type = kOther}}
EnvironmentFunctions(env) == {env[i].closure : i \in DOMAIN env}
FrameFunctions(ck) ==
  UNION {EnvironmentFunctions(instr.env) \cup EnvironmentFunctions(instr.deferred) :
           instr \in ToSet(ck.instructions)}
FunctionsOf(ck) == ConstantFunctions(ck) \cup FrameFunctions(ck)

(* Whether nothing fails.  The function being compiled needs no name as the  *)
(* closure of a frame: a flag stands for it there, not in a constant.        *)
CanSave(ck, w) ==
  \A fn \in ConstantFunctions(ck) \cup (FrameFunctions(ck) \ {w.owner}) :
    IsSaveable(fn, w)

-----------------------------------------------------------------------------
(* Loading.  b is the whole block, pos the cell to be read next, w what the  *)
(* loading process has: besides the names, the functions made at each start  *)
(* position and the functions whose inner functions are known.  A result has *)
(* the position after the load and ok, LastStatus() == SUCCEEDED.            *)

(* A read past the end of the block gives some value.                        *)
At(b, pos) == IF pos \in DOMAIN b THEN b[pos] ELSE 0

(* CHECK(offset == saved_offset) *)
IsSynchronized(b, pos) == At(b, pos) = pos - 1

(* fatal: the cell read is no FunctionRelocationType, UNREACHABLE, or the    *)
(* name is not bound to a function, DCHECK(object->IsJSFunction()).          *)
LoadJSFunction(b, pos, w) ==
  LET relocation == At(b, pos)
      arg == At(b, pos + 1)
      byName == /\ relocation \in {kByNameInContextChain, kByNameInGlobalObject}
                /\ arg \in DOMAIN w.binding
  IN  [pos |-> pos + 2,
       ok |-> byName \/ (relocation = kByStartPosition /\ arg \in w.made),
       fatal |-> ~byName /\ relocation # kByStartPosition,
       value |-> IF byName THEN w.binding[arg] ELSE arg]

(* Down from the root; a function that is not compiled has no inner infos.   *)
Descend(b, pos, n, w) ==
  Loop(n, [ok |-> TRUE, value |-> Root],
       LAMBDA at, i : IF at.ok /\ at.value \in w.compiled
                      THEN [ok |-> TRUE,
                            value |-> Inner[at.value][b[pos + i] + 1]]
                      ELSE [ok |-> FALSE, value |-> Root])

LoadSharedFunctionInfo(b, pos, w) ==
  LET end == CHOOSE e \in pos + 1 .. Len(b) :
               b[e] = -1 /\ \A k \in pos + 1 .. e - 1 : b[k] # -1
      down == Descend(b, pos, end - pos - 1, w)[end - pos - 1]
  IN  [pos |-> end + 1, ok |-> down.ok, value |-> down.value]

LoadList(b, pos) ==
  LET length == IF At(b, pos) > 0 THEN At(b, pos) ELSE 0
  IN  [pos |-> pos + 1 + length,
       value |-> [i \in 1..length |-> At(b, pos + i)]]

(* One level of LoadEnvironment: returns at once when the closure cannot be  *)
(* loaded, or an outer environment could not.                                *)
LoadFrame(b, at, w) ==
  LET closure == IF At(b, at.pos + 1) # 0
                 THEN [pos |-> at.pos + 2, ok |-> TRUE, fatal |-> FALSE,
                       value |-> w.owner]
                 ELSE LoadJSFunction(b, at.pos + 2, w)
      values == LoadList(b, closure.pos)
  IN  IF at.ok /\ closure.ok
      THEN [pos |-> values.pos, ok |-> TRUE, fatal |-> FALSE,
            value |-> Append(at.value, [ast_id |-> At(b, at.pos),
                                        closure |-> closure.value,
                                        values |-> values.value])]
      ELSE [pos |-> closure.pos, ok |-> FALSE,
            fatal |-> at.fatal \/ closure.fatal, value |-> <<>>]

Nothing(pos) == [pos |-> pos, ok |-> TRUE, fatal |-> FALSE, value |-> <<>>]

LoadFrames(b, pos, depth, w) ==
  Loop(depth, Nothing(pos + depth), LAMBDA at, i : LoadFrame(b, at, w))

LoadEnvironment(b, pos, w) ==
  LET depth == CHOOSE d \in 1 .. Len(b) :
                 At(b, pos + d - 1) = 0 /\ \A k \in 1 .. d - 1 : At(b, pos + k - 1) # 0
  IN  LoadFrames(b, pos, depth, w)[depth]

(* LoadInstruction.  After a deferred environment that fails it returns, but *)
(* it does not look at the status after the environment: it goes on to the   *)
(* pointer map and to Synchronize.                                           *)
LoadInstruction(b, pos, w) ==
  LET inputs == LoadList(b, pos + 1)
      own == IF At(b, pos) = InstanceOfKnownGlobal
             THEN LoadEnvironment(b, inputs.pos, w) ELSE Nothing(inputs.pos)
      env == IF At(b, own.pos) # 0 THEN LoadEnvironment(b, own.pos + 1, w)
             ELSE Nothing(own.pos + 1)
      pointers == IF At(b, env.pos) # 0 THEN LoadList(b, env.pos + 1)
                  ELSE Nothing(env.pos + 1)
  IN  [pos |-> pointers.pos + 1,
       ok |-> own.ok /\ env.ok,
       fatal |-> own.fatal \/ (own.ok /\ env.fatal),
       checked |-> own.ok => IsSynchronized(b, pointers.pos),
       value |-> [opcode |-> At(b, pos), inputs |-> inputs.value,
                  deferred |-> own.value, env |-> env.value,
                  pointer_map |-> pointers.value]]

LoadBlock(b, at, i) ==
  LET ast == IF i = 1 THEN 0 ELSE 1
      target == At(b, at.pos + ast) # 0
  IN  [pos |-> at.pos + ast + IF target THEN 2 ELSE 1,
       value |-> Append(at.value,
                        [ast_id |-> IF i = 1 THEN 0 ELSE At(b, at.pos),
                         entry |-> IF target THEN At(b, at.pos + ast + 1)
                                   ELSE 0])]

LoadBlocks(b, pos, n) ==
  Loop(n, [pos |-> pos + 1, value |-> <<>>],
       LAMBDA at, i : LoadBlock(b, at, i))

LoadBasicBlocks(b, pos) == LoadBlocks(b, pos, At(b, pos))[At(b, pos)]

(* The id of a constant, then LoadHConstantShim.                             *)
LoadHConstantShim(b, pos, w) ==
  IF At(b, pos + 1) = kInteger
  THEN [pos |-> pos + 3, ok |-> TRUE, fatal |-> FALSE,
        value |-> [type |-> kInteger, value |-> At(b, pos + 2)]]
  ELSE LET fn == LoadJSFunction(b, pos + 2, w)
       IN  [pos |-> fn.pos + 1, ok |-> fn.ok, fatal |-> fn.fatal,
            value |-> [type |-> kOther, value |-> fn.value]]
============================================================================
