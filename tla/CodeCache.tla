------------------------------ MODULE CodeCache ------------------------------
(***************************************************************************)
(* The code cache of d8 from end to end: a process run with --save-code    *)
(* optimizes functions and stores their chunks, the database is written to *)
(* a file, a process run with --load-code reads it and loads a function's  *)
(* chunk when the function is first compiled.  Both run the same script,   *)
(* but not in the same order: a function is optimized late in the one and  *)
(* loaded early in the other, when other functions have been made, bound   *)
(* to names or compiled.                                                   *)
(***************************************************************************)
EXTENDS CodeBlockDatabase, LChunkCodec

CONSTANTS
  Chunk,     \* chunks the compiler makes of the functions of the script
  Hoisted,   \* functions made and bound before the script runs
  NoChunk

(* What a name can be bound to: a function of that name.                     *)
Bindings ==
  UNION {{b \in [names -> Literal] : \A n \in names : NameOf[b[n]] = n} :
           names \in SUBSET Name}

Frames == [ast_id: Int, closure: Literal, values: Seq(Int)]
Instructions == [opcode: Int, inputs: Seq(Int), deferred: Seq(Frames),
                 env: Seq(Frames), pointer_map: Seq(Int)]

(* A chunk as the compiler makes it: live operands are constants of the      *)
(* graph; an LInstanceOfKnownGlobal, and no other instruction, has a         *)
(* deferred environment: that of the LLazyBailout that follows it.           *)
ASSUME ChunkAssumption ==
  /\ NoChunk \notin Chunk /\ Hoisted \subseteq Literal
  /\ \A ck \in Chunk :
       /\ ck.owner \in Literal \cap Position
       /\ ck.spill_slot_count \in Int
       /\ ck.blocks \in Seq([ast_id: Int, entry: Int])
       /\ ck.blocks # <<>> => ck.blocks[1].ast_id = 0
       /\ LiveConstants(ck) \subseteq DOMAIN ck.constants
       /\ \A id \in DOMAIN ck.constants :
            ck.constants[id] \in [type: {kInteger}, value: Int]
                                   \cup [type: {kOther}, value: Literal]
       /\ ck.instructions \in Seq(Instructions)
       /\ \A i \in DOMAIN ck.instructions :
            LET instr == ck.instructions[i]
            IN  IF instr.opcode # InstanceOfKnownGlobal
                THEN instr.deferred = <<>>
                ELSE /\ instr.deferred # <<>>
                     /\ \E k \in DOMAIN ck.instructions :
                          ck.instructions[k].env = instr.deferred
       /\ ck.inlined \in Seq(Literal)
       /\ \A b \in Bindings :
            Save(ck, [owner |-> ck.owner, binding |-> b]) \in Code

VARIABLES
  made,       \* top-level functions the process has made so far: what
              \* GetJSFunctionByStartPosition finds
  binding,    \* names bound so far -> the function they are bound to
  compiled,   \* functions with unoptimized code: their inner_infos are set
  supported,  \* functions whose unoptimized code has deoptimization support
  given_up,   \* positions with has_saved_optimized_code reset by a failure
  loader,     \* the LChunkLoader
  saved       \* history: Position -> the chunk saved last

processVars == <<made, binding, compiled, supported, given_up>>
cacheVars == <<vars, processVars, loader, saved>>

(* A process begins: the toplevel code is compiled, declarations are bound.  *)
IsDeclared(l) ==
  l # Root /\ NameOf[l] # NoName /\ (Outer(l) # Root \/ l \in Hoisted)

Declarations ==
  [n \in {NameOf[l] : l \in {l \in Literal : IsDeclared(l)}} |->
     CHOOSE l \in Literal : IsDeclared(l) /\ NameOf[l] = n]

NewProcess ==
  /\ made' = Hoisted
  /\ binding' = Declarations
  /\ compiled' = {Root}
  /\ supported' = {}
  /\ given_up' = {}

(* A LChunkLoader that is not at work. *)
Idle == [step |-> "idle", owner |-> Root, pos |-> 1, left |-> 0,
         chunk |-> NoChunk]

CacheInit ==
  /\ Init
  /\ made = Hoisted
  /\ binding = Declarations
  /\ compiled = {Root}
  /\ supported = {}
  /\ given_up = {}
  /\ loader = Idle
  /\ saved = [p \in Position |-> NoChunk]

-----------------------------------------------------------------------------
(* The script runs, in the process that saves and in the one that loads.     *)

Running == mode \in {"save", "load"} /\ loader.step \in {"idle", "loaded", "failed"}

(* Whether the closure of a literal exists. *)
Exists(l) == IF Outer(l) = Root THEN l \in made ELSE Outer(l) \in compiled

(* NewFunctionFromSharedFunctionInfo, in the native context.                 *)
MakeFunction(l) ==
  /\ Running
  /\ Outer(l) = Root /\ l \notin made
  /\ made' = made \cup {l}
  /\ loader' = Idle
  /\ UNCHANGED <<vars, binding, compiled, supported, given_up, saved>>

(* An assignment gives a name to another function.                           *)
Assign(l) ==
  /\ Running
  /\ NameOf[l] # NoName /\ Exists(l)
  /\ NameOf[l] \in DOMAIN binding => binding[NameOf[l]] # l
  /\ binding' = [n \in DOMAIN binding \cup {NameOf[l]} |->
                   IF n = NameOf[l] THEN l ELSE binding[n]]
  /\ loader' = Idle
  /\ UNCHANGED <<vars, made, compiled, supported, given_up, saved>>

(* The function is called for the first time: unoptimized code is made, and  *)
(* with it a SharedFunctionInfo for each of its inner functions.             *)
CompileLazy(l) ==
  /\ Running
  /\ l \notin compiled /\ Exists(l)
  /\ compiled' = compiled \cup {l}
  /\ loader' = Idle
  /\ UNCHANGED <<vars, made, binding, supported, given_up, saved>>

-----------------------------------------------------------------------------
(* The process that saves.                                                   *)

Saver(o) == [owner |-> o, binding |-> binding]

(* SaveOptimizedCode: whatever was inlined has been called.  A chunk that    *)
(* cannot be saved changes nothing.                                          *)
SaveOptimizedCode(ck) ==
  /\ ck.owner \in compiled /\ ToSet(ck.inlined) \subseteq compiled
  /\ \A fn \in FunctionsOf(ck) : Exists(fn)
  /\ CanSave(ck, Saver(ck.owner))
  /\ SetCode(ck.owner, Save(ck, Saver(ck.owner)))
  /\ saved' = [saved EXCEPT ![ck.owner] = ck]
  /\ UNCHANGED <<processVars, loader>>

(* DiscardSavedOptimizedCode of a function that was deoptimized.             *)
DiscardSavedOptimizedCode(p) ==
  /\ RemoveCode(p)
  /\ saved' = [saved EXCEPT ![p] = NoChunk]
  /\ UNCHANGED <<processVars, loader>>

(* FinalizeCodeBlockDatabase at the end of the process; the next one begins. *)
Finalize == Write /\ NewProcess /\ UNCHANGED <<loader, saved>>

(* InitializeCodeBlockDatabase.                                              *)
Initialize == ReadBegin /\ UNCHANGED <<processVars, loader, saved>>
InitializeBlock ==
  (ReadBlock \/ ReadEnd) /\ UNCHANGED <<processVars, loader, saved>>

-----------------------------------------------------------------------------
(* The process that loads.  Nothing else runs while a chunk is loaded.       *)

Bytes == GetCode(loader.owner)

World(o) == [owner |-> o, binding |-> binding, made |-> made,
             compiled |-> compiled]

(* GetOptimizedCodeNow of a function with saved code: LoadOptimizedCode up   *)
(* to the basic blocks.  Each Synchronize aborts the process when the        *)
(* offsets differ.                                                           *)
LoadBegin(o) ==
  /\ mode = "load" /\ Running
  /\ HasCode(o) /\ o \notin given_up /\ Exists(o)
  /\ LET b == GetCode(o)
         blocks == LoadBasicBlocks(b, 3)
     IN  loader' =
           [step |-> IF IsSynchronized(b, 2) /\ IsSynchronized(b, blocks.pos)
                     THEN "constants" ELSE "aborted",
            owner |-> o,
            pos |-> blocks.pos + 2,
            left |-> At(b, blocks.pos + 1),
            chunk |-> [owner |-> o, spill_slot_count |-> At(b, 1),
                       blocks |-> blocks.value, constants |-> <<>>,
                       instructions |-> <<>>, inlined |-> <<>>]]
  /\ UNCHANGED <<vars, processVars, saved>>

(* UNREACHABLE or a DCHECK ends the process.                                 *)
Crash == loader' = [loader EXCEPT !.step = "crashed"] /\ UNCHANGED given_up

(* Load returns nullptr, GetOptimizedCodeNow resets the flag.                *)
Fail ==
  /\ loader' = [Idle EXCEPT !.step = "failed", !.owner = loader.owner]
  /\ given_up' = given_up \cup {loader.owner}

(* A turn of the loop of LoadConstants.                                      *)
LoadConstant ==
  /\ loader.step = "constants" /\ loader.left > 0
  /\ LET c == LoadHConstantShim(Bytes, loader.pos, World(loader.owner))
         id == At(Bytes, loader.pos)
     IN  \/ c.fatal /\ Crash
         \/ /\ c.ok
            /\ loader' = [loader EXCEPT
                            !.pos = c.pos, !.left = @ - 1,
                            !.chunk.constants =
                              [i \in DOMAIN @ \cup {id} |->
                                 IF i = id THEN c.value ELSE @[i]]]
            /\ UNCHANGED given_up
         \/ ~c.ok /\ ~c.fatal /\ Fail
  /\ UNCHANGED <<vars, made, binding, compiled, supported, saved>>

LoadConstantsEnd ==
  /\ loader.step = "constants" /\ loader.left = 0
  /\ loader' = [loader EXCEPT
                  !.step = IF IsSynchronized(Bytes, loader.pos)
                           THEN "instructions" ELSE "aborted",
                  !.pos = @ + 2,
                  !.left = At(Bytes, loader.pos + 1)]
  /\ UNCHANGED <<vars, processVars, saved>>

(* A turn of the loop of LoadInstructions.                                   *)
LoadInstructionStep ==
  /\ loader.step = "instructions" /\ loader.left > 0
  /\ LET i == LoadInstruction(Bytes, loader.pos, World(loader.owner))
     IN  \/ i.fatal /\ Crash
         \/ /\ ~i.fatal /\ ~i.checked
            /\ loader' = [loader EXCEPT !.step = "aborted"]
            /\ UNCHANGED given_up
         \/ /\ i.ok /\ i.checked
            /\ loader' = [loader EXCEPT
                            !.pos = i.pos, !.left = @ - 1,
                            !.chunk.instructions = Append(@, i.value)]
            /\ UNCHANGED given_up
         \/ ~i.ok /\ ~i.fatal /\ i.checked /\ Fail
  /\ UNCHANGED <<vars, made, binding, compiled, supported, saved>>

LoadInstructionsEnd ==
  /\ loader.step = "instructions" /\ loader.left = 0
  /\ loader' = [loader EXCEPT !.step = "inlined", !.pos = @ + 1,
                              !.left = At(Bytes, loader.pos)]
  /\ UNCHANGED <<vars, processVars, saved>>

(* An inlined function: its unoptimized code must be able to take over.  The *)
(* parser or the code generator may give up (a stack overflow).              *)
LoadInlined ==
  /\ loader.step = "inlined" /\ loader.left > 0
  /\ LET s == LoadSharedFunctionInfo(Bytes, loader.pos, World(loader.owner))
     IN  \/ /\ s.ok
            /\ supported' = supported \cup {s.value}
            /\ compiled' = compiled \cup {s.value}
            /\ loader' = [loader EXCEPT !.pos = s.pos, !.left = @ - 1,
                                        !.chunk.inlined = Append(@, s.value)]
            /\ UNCHANGED given_up
         \/ /\ ~s.ok \/ s.value \notin supported
            /\ Fail
            /\ UNCHANGED <<compiled, supported>>
  /\ UNCHANGED <<vars, made, binding, saved>>

(* The chunk is complete; GenerateOptimizedCode may still give up.           *)
LoadEnd ==
  /\ loader.step = "inlined" /\ loader.left = 0
  /\ \/ loader' = [loader EXCEPT !.step = "loaded"] /\ UNCHANGED given_up
     \/ Fail
  /\ UNCHANGED <<vars, made, binding, compiled, supported, saved>>

CacheNext ==
  \/ \E l \in Literal \ {Root} : MakeFunction(l) \/ Assign(l) \/ CompileLazy(l)
  \/ \E ck \in Chunk : SaveOptimizedCode(ck)
  \/ \E p \in Position : DiscardSavedOptimizedCode(p) \/ LoadBegin(p)
  \/ Finalize \/ Initialize \/ InitializeBlock
  \/ LoadConstant \/ LoadConstantsEnd
  \/ LoadInstructionStep \/ LoadInstructionsEnd \/ LoadInlined \/ LoadEnd

CacheSpec == CacheInit /\ [][CacheNext]_cacheVars

-----------------------------------------------------------------------------
Source == saved[loader.owner]

(* The function itself, or another one of its name: what the loader may put  *)
(* in the place of a function it finds by name.                              *)
Namesake(fn, other) ==
  fn = other \/ (NameOf[fn] # NoName /\ NameOf[fn] = NameOf[other])

SameEnvironment(env, loaded) ==
  /\ DOMAIN env = DOMAIN loaded
  /\ \A i \in DOMAIN env :
       /\ env[i].ast_id = loaded[i].ast_id
       /\ env[i].values = loaded[i].values
       /\ Namesake(env[i].closure, loaded[i].closure)

SameInstruction(instr, loaded) ==
  /\ instr.opcode = loaded.opcode
  /\ instr.inputs = loaded.inputs
  /\ instr.pointer_map = loaded.pointer_map
  /\ SameEnvironment(instr.deferred, loaded.deferred)
  /\ SameEnvironment(instr.env, loaded.env)

SameConstant(constant, loaded) ==
  /\ constant.type = loaded.type
  /\ IF constant.type = kOther THEN Namesake(constant.value, loaded.value)
     ELSE constant.value = loaded.value

(* A chunk that LChunkLoader::Load completes is the chunk the saving process *)
(* last saved for the function and did not discard: the same blocks,         *)
(* instructions, environments and inlined functions, whatever the state of   *)
(* the two processes, except that a function saved by name may have become   *)
(* another function of that name.                                            *)
LoadedAsSaved ==
  loader.step = "loaded" =>
    /\ Source # NoChunk
    /\ loader.chunk.spill_slot_count = Source.spill_slot_count
    /\ loader.chunk.blocks = Source.blocks
    /\ loader.chunk.inlined = Source.inlined
    /\ \A id \in DOMAIN loader.chunk.constants :
         SameConstant(Source.constants[id], loader.chunk.constants[id])
    /\ DOMAIN loader.chunk.instructions = DOMAIN Source.instructions
    /\ \A i \in DOMAIN Source.instructions :
         SameInstruction(Source.instructions[i], loader.chunk.instructions[i])

(* LookupConstant of a loaded chunk finds every constant the instructions    *)
(* and the environments, outer ones included, refer to: SaveConstants wrote  *)
(* down all that the loader's code generator will ask for.                   *)
EveryConstantLoaded ==
  loader.step = "loaded" =>
    \A instr \in ToSet(loader.chunk.instructions) :
      ConstantId \cap (ToSet(instr.inputs) \cup EnvironmentValues(instr.env)
                         \cup EnvironmentValues(instr.deferred))
        \subseteq DOMAIN loader.chunk.constants

(* Loading the constants or the instructions gives up only because a         *)
(* top-level function the chunk refers to has not been made yet in this      *)
(* process: references by name and to inner functions never fail (a name     *)
(* that is not bound ends the process instead).                              *)
FailureHasCause ==
  [][loader.step \in {"constants", "instructions"} /\ loader'.step = "failed" =>
       \E fn \in FunctionsOf(Source) : Outer(fn) = Root /\ fn \notin made]_cacheVars

(* CHECK(offset == saved_offset) of LChunkLoaderBase::Synchronize: the       *)
(* loader is never at another place than the saver was.                      *)
LoaderInStep == loader.step # "aborted"
=============================================================================
