------------------------- MODULE CodeBlockDatabase --------------------------
(***************************************************************************)
(* The file --save-code writes and --load-code reads: a list of code       *)
(* blocks, each the start position of a function and the bytes of its      *)
(* saved chunk, searched by position.  The first d8 process fills the list *)
(* and writes it; the second one reads it block by block.  The file is a   *)
(* sequence of cells: an int, a size_t or a primitive of a chunk takes one.*)
(***************************************************************************)
EXTENDS Integers, Sequences, SequencesExt

CONSTANTS Position,   \* start positions of functions, ints
          Code,       \* saved chunks: sequences of cells
          NoCode,
          MaxBlocks   \* bound on the number of blocks

ASSUME PositionAssumption == Position \subseteq Nat
ASSUME CodeAssumption == Code \subseteq Seq(Int) /\ NoCode \notin Code
ASSUME MaxBlocksAssumption == MaxBlocks \in Nat

VARIABLES
  mode,          \* "save", "written", "reading", "load"
  code_blocks,   \* code_blocks_
  request,       \* arguments of the last SetCode or RemoveCode
  file,          \* the contents of the file
  read_pointer,  \* read_pointer of Read
  to_read        \* blocks Read still has to read

vars == <<mode, code_blocks, request, file, read_pointer, to_read>>

Block == [start_position: Position, code: Code]

Init ==
  /\ mode = "save"
  /\ code_blocks = <<>>
  /\ request = <<>>
  /\ file = <<>>
  /\ read_pointer = 1
  /\ to_read = 0

-----------------------------------------------------------------------------
(* Searching: the loops of SetCode, HasCode, GetCode and RemoveCode stop at  *)
(* the first block with the position.                                        *)

IsFirst(i, p) ==
  /\ i \in 1..Len(code_blocks)
  /\ code_blocks[i].start_position = p
  /\ \A k \in 1 .. i - 1 : code_blocks[k].start_position # p

HasCode(p) == \E i \in 1..Len(code_blocks) : code_blocks[i].start_position = p

(* GetCode, and NoCode where it would be UNREACHABLE. *)
GetCode(p) ==
  IF HasCode(p)
  THEN code_blocks[CHOOSE i \in 1..Len(code_blocks) : IsFirst(i, p)].code
  ELSE NoCode

SetCode(p, c) ==
  /\ mode = "save"
  /\ \/ \E i \in 1..Len(code_blocks) :
          /\ IsFirst(i, p)
          /\ code_blocks' = [code_blocks EXCEPT ![i].code = c]
     \/ /\ ~HasCode(p)
        /\ Len(code_blocks) < MaxBlocks
        /\ code_blocks' = Append(code_blocks,
                                 [start_position |-> p, code |-> c])
  /\ request' = <<p, c>>
  /\ UNCHANGED <<mode, file, read_pointer, to_read>>

(* Mutation: the last block is dropped in place of the one found. *)
RemoveCodeLast(p) ==
  /\ mode = "save"
  /\ HasCode(p)
  /\ code_blocks' = Front(code_blocks)
  /\ request' = <<p, NoCode>>
  /\ UNCHANGED <<mode, file, read_pointer, to_read>>

(* RemoveCode of a position that is there; of another one it does nothing.   *)
RemoveCode(p) ==
  /\ mode = "save"
  /\ \E i \in 1..Len(code_blocks) :
       /\ IsFirst(i, p)
       /\ code_blocks' = RemoveAt(code_blocks, i)
  /\ request' = <<p, NoCode>>
  /\ UNCHANGED <<mode, file, read_pointer, to_read>>

-----------------------------------------------------------------------------
(* The file. *)

BlockBytes(b) == <<b.start_position, Len(b.code)>> \o b.code

(* The number of blocks, then the blocks. *)
FileBytes(blocks) ==
  <<Len(blocks)>> \o
  FlattenSeq([i \in 1..Len(blocks) |-> BlockBytes(blocks[i])])

(* FinalizeCodeBlockDatabase: the process ends. *)
Write ==
  /\ mode = "save"
  /\ file' = FileBytes(code_blocks)
  /\ code_blocks' = <<>>
  /\ request' = <<>>
  /\ mode' = "written"
  /\ UNCHANGED <<read_pointer, to_read>>

(* InitializeCodeBlockDatabase of the next process: Read up to its loop. *)
ReadBegin ==
  /\ mode = "written"
  /\ to_read' = file[1]
  /\ read_pointer' = 2
  /\ mode' = "reading"
  /\ UNCHANGED <<code_blocks, request, file>>

(* Mutation: the read pointer is advanced by the header only once. *)
ReadBlockShort ==
  /\ mode = "reading"
  /\ to_read > 0
  /\ LET size == file[read_pointer + 1]
         start == read_pointer + 2
     IN  /\ code_blocks' =
              Append(code_blocks,
                     [start_position |-> file[read_pointer],
                      code |-> SubSeq(file, start, start + size - 1)])
         /\ read_pointer' = start + size - 1
  /\ to_read' = to_read - 1
  /\ UNCHANGED <<mode, request, file>>

ReadBlock ==
  /\ mode = "reading"
  /\ to_read > 0
  /\ LET size == file[read_pointer + 1]
         start == read_pointer + 2
     IN  /\ code_blocks' =
              Append(code_blocks,
                     [start_position |-> file[read_pointer],
                      code |-> SubSeq(file, start, start + size - 1)])
         /\ read_pointer' = start + size
  /\ to_read' = to_read - 1
  /\ UNCHANGED <<mode, request, file>>

ReadEnd ==
  /\ mode = "reading"
  /\ to_read = 0
  /\ mode' = "load"
  /\ UNCHANGED <<code_blocks, request, file, read_pointer, to_read>>

Next ==
  \/ \E p \in Position : RemoveCode(p) \/ \E c \in Code : SetCode(p, c)
  \/ Write \/ ReadBegin \/ ReadBlock \/ ReadEnd

Spec == Init /\ [][Next]_vars

-----------------------------------------------------------------------------
(* Read's DCHECKs: every header and every block lies inside the buffer, and  *)
(* the whole buffer has been consumed when it is done.                       *)
ReadInBounds ==
  mode \in {"reading", "load"} =>
    IF to_read > 0
    THEN /\ read_pointer + 1 <= Len(file)
         /\ read_pointer + 1 + file[read_pointer + 1] <= Len(file)
    ELSE read_pointer = Len(file) + 1

Contents == [p \in Position |-> GetCode(p)]

(* Where the blocks of a file f start: each behind the one before it. *)
Starts(f) ==
  LET at[i \in 1..f[1]] ==
        IF i = 1 THEN 2 ELSE at[i - 1] + 2 + f[at[i - 1] + 1]
  IN  at

(* What a file f stands for. *)
StoredIn(f) ==
  LET at == Starts(f)
      First(i, p) == f[at[i]] = p /\ \A k \in 1 .. i - 1 : f[at[k]] # p
      CodeAt(a) == SubSeq(f, a + 2, a + 1 + f[a + 1])
  IN  [p \in Position |->
         IF \E i \in 1..f[1] : f[at[i]] = p
         THEN CodeAt(at[CHOOSE i \in 1..f[1] : First(i, p)]) ELSE NoCode]

(* What the file in between the processes stands for. *)
Stored == IF file = <<>> THEN [p \in Position |-> NoCode] ELSE StoredIn(file)

Map == INSTANCE CodeMap
         WITH map <- IF mode \in {"save", "load"} THEN Contents
                     ELSE [p \in Position |-> NoCode],
              stored <- Stored,
              phase <- IF mode \in {"written", "reading"} THEN "stored"
                       ELSE mode

(* The list and the file implement the map: what the loading process gets    *)
(* for a position is what the saving one stored last and did not discard.    *)
ImplementsMap == Map!Spec
=============================================================================
