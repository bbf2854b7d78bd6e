------------------------- MODULE CpuProfilerProofs --------------------------
(***************************************************************************)
(* Proofs about the CPU profiler, for every ring length, code space and    *)
(* number of events, samples and profiles: a sample is resolved to the     *)
(* code that was running, and no sample is left behind the code map.       *)
(*                                                                         *)
(* The invariant of the first is about the code maps of the past and of    *)
(* the future: there is a history of code maps, one for each code event,   *)
(* in which the processor's map is the one of the last event processed,    *)
(* each event of the buffer leads from one to the next, the last one holds *)
(* the code that exists now, and each sample resolves on the map that its  *)
(* order names.                                                            *)
(***************************************************************************)
EXTENDS CpuProfiler, SequenceTheorems, TLAPS

CodeObject == [start : Nat, size : Nat \ {0}, entry : Nat]
Event == [kind : {"create", "move", "annotate"}, order : Nat,
          code : CodeObject, to : Nat]
Record == [order : Nat, sample : [pc : Int, truth : Nat]]

(* No two code objects overlap. *)
Disjoint(map) == \A c, o \in map : c # o => ~Overlap(c, o.start, o.start + o.size)

-----------------------------------------------------------------------------
(* Code maps. *)

(* The start, the size and the entry of a code object. *)
LEMMA ObjectFields ==
  ASSUME NEW c \in CodeObject
  PROVE  /\ c.start \in Nat /\ c.size \in Nat /\ c.size > 0 /\ c.entry \in Nat
         /\ c = [start |-> c.start, size |-> c.size, entry |-> c.entry]
BY DEF CodeObject

(* In a map without overlaps one entry at most starts at an address. *)
LEMMA UniqueStart ==
  ASSUME NEW map \in SUBSET CodeObject, Disjoint(map),
         NEW c \in map, NEW o \in map, c.start = o.start
  PROVE  c = o
<1>1. c.start \in Nat /\ c.size \in Nat /\ c.size > 0 /\ o.size \in Nat /\ o.size > 0
  BY ObjectFields
<1>2. Overlap(c, o.start, o.start + o.size)
  BY <1>1 DEF Overlap
<1> QED
  BY <1>2 DEF Disjoint

(* The lookup finds the object that covers an address. *)
LEMMA FindCovering ==
  ASSUME NEW map \in SUBSET CodeObject, Disjoint(map),
         NEW c \in map, NEW a \in Nat, Covers(c, a)
  PROVE  FindEntry(map, a) = c.entry
<1> DEFINE below == {o \in map : o.start <= a}
           top == CHOOSE o \in below : \A p \in below : p.start <= o.start
<1>1. c \in below
  BY DEF Covers
<1>2. ASSUME NEW o \in below PROVE o.start <= c.start
  <2>1. /\ o.start \in Nat /\ o.size \in Nat /\ o.size > 0
        /\ c.start \in Nat /\ c.size \in Nat /\ c.size > 0
    BY ObjectFields
  <2>2. CASE o # c /\ o.start > c.start
    <3>1. Overlap(c, o.start, o.start + o.size)
      BY <2>1, <2>2 DEF Overlap, Covers
    <3> QED
      BY <2>2, <3>1 DEF Disjoint
  <2> QED
    BY <2>1, <2>2
<1>3. top \in below /\ \A p \in below : p.start <= top.start
  BY <1>1, <1>2
<1>4. top.start <= c.start /\ c.start <= top.start /\ top \in map
  BY <1>1, <1>2, <1>3
<1>5. top.start = c.start
  BY <1>4, ObjectFields
<1>6. top = c
  BY <1>4, <1>5, UniqueStart
<1> QED
  BY <1>1, <1>6 DEF FindEntry

(* A sample without generated code resolves to no entry, on any map. *)
LEMMA FindNothing ==
  ASSUME NEW map \in SUBSET CodeObject
  PROVE  FindEntry(map, NoSample.pc) = NoSample.truth
<1>1. NoSample.pc = -1 /\ NoSample.truth = NoCode
  BY DEF NoSample
<1>2. \A c \in map : ~(c.start <= -1)
  BY ObjectFields
<1> QED
  BY <1>1, <1>2 DEF FindEntry

(* DeleteAllCoveredCode looks at few entries of the map, yet deletes all     *)
(* those that overlap the range: the others cannot, as they do not overlap   *)
(* each other.                                                               *)
LEMMA DeleteCovered ==
  ASSUME NEW map \in SUBSET CodeObject, Disjoint(map),
         NEW start \in Nat, NEW size \in Nat, size > 0
  PROVE  DeleteAllCoveredCode(map, start, start + size) =
           {c \in map : ~Overlap(c, start, start + size)}
<1> DEFINE end == start + size
           inside == {c \in map : start <= c.start /\ c.start < end}
           lower == {c \in map : /\ c.start < start
                                 /\ \A o \in inside : o.start # start
                                 /\ \A o \in map : o.start < start =>
                                                     o.start <= c.start}
<1>1. ASSUME NEW c \in map, Overlap(c, start, end), c \notin inside
      PROVE  c \in lower
  <2>1. c.start \in Nat /\ c.size \in Nat /\ c.size > 0
    BY ObjectFields
  <2>2. c.start < start /\ start < c.start + c.size
    BY <1>1, <2>1 DEF Overlap
  <2>3. ASSUME NEW o \in map, c.start < o.start, o.start <= start PROVE FALSE
    <3>1. o.start \in Nat /\ o.size \in Nat /\ o.size > 0
      BY ObjectFields
    <3>2. c # o /\ Overlap(c, o.start, o.start + o.size)
      BY <2>1, <2>2, <2>3, <3>1 DEF Overlap
    <3> QED
      BY <3>2 DEF Disjoint
  <2>4. ASSUME NEW o \in inside PROVE o.start # start
    BY <2>2, <2>3
  <2>5. ASSUME NEW o \in map, o.start < start PROVE o.start <= c.start
    BY <2>1, <2>3, <2>5, ObjectFields
  <2> QED
    BY <2>2, <2>4, <2>5
<1>2. DeleteAllCoveredCode(map, start, end) =
        {c \in map : c \in inside \cup lower => ~Overlap(c, start, end)}
  BY DEF DeleteAllCoveredCode
<1> HIDE DEF inside, lower, end
<1>3. DeleteAllCoveredCode(map, start, end) = {c \in map : ~Overlap(c, start, end)}
  BY <1>1, <1>2
<1> QED
  BY <1>3 DEF end

(* AddCode: the new object replaces whatever it covers. *)
LEMMA AddedCode ==
  ASSUME NEW map \in SUBSET CodeObject, Disjoint(map), NEW c \in CodeObject
  PROVE  /\ AddCode(map, c.start, c.entry, c.size) =
              {o \in map : ~Overlap(o, c.start, c.start + c.size)} \cup {c}
         /\ AddCode(map, c.start, c.entry, c.size) \in SUBSET CodeObject
         /\ Disjoint(AddCode(map, c.start, c.entry, c.size))
<1> DEFINE kept == {o \in map : ~Overlap(o, c.start, c.start + c.size)}
<1>1. c.start \in Nat /\ c.size \in Nat /\ c.size > 0
      /\ c = [start |-> c.start, size |-> c.size, entry |-> c.entry]
  BY ObjectFields
<1>2. AddCode(map, c.start, c.entry, c.size) = kept \cup {c}
  BY <1>1, DeleteCovered DEF AddCode
<1>3. \A o \in kept : ~Overlap(c, o.start, o.start + o.size)
  <2> SUFFICES ASSUME NEW o \in kept PROVE ~Overlap(c, o.start, o.start + o.size)
    OBVIOUS
  <2>1. o.start \in Nat /\ o.size \in Nat /\ o.size > 0
    BY ObjectFields
  <2> QED
    BY <1>1, <2>1 DEF Overlap
<1>4. Disjoint(kept \cup {c})
  BY <1>3 DEF Disjoint
<1> QED
  BY <1>2, <1>4

(* MoveCode of an object of the map. *)
LEMMA MovedCode ==
  ASSUME NEW map \in SUBSET CodeObject, Disjoint(map), NEW c \in map,
         NEW to \in Nat
  PROVE  /\ to = c.start => MoveCode(map, c.start, to) = map
         /\ to # c.start =>
              LET moved == [start |-> to, size |-> c.size, entry |-> c.entry] IN
              MoveCode(map, c.start, to) =
                {o \in map \ {c} : ~Overlap(o, to, to + c.size)} \cup {moved}
         /\ MoveCode(map, c.start, to) \in SUBSET CodeObject
         /\ Disjoint(MoveCode(map, c.start, to))
<1> DEFINE moved == [start |-> to, size |-> c.size, entry |-> c.entry]
<1>1. CASE to = c.start
  BY <1>1 DEF MoveCode
<1>2. CASE to # c.start
  <2>1. (CHOOSE o \in map : o.start = c.start) = c
    BY UniqueStart
  <2>2. MoveCode(map, c.start, to) = AddCode(map \ {c}, to, c.entry, c.size)
    BY <1>2, <2>1 DEF MoveCode
  <2>3. /\ moved \in CodeObject
        /\ moved.start = to /\ moved.size = c.size /\ moved.entry = c.entry
    BY ObjectFields DEF CodeObject
  <2>4. map \ {c} \in SUBSET CodeObject /\ Disjoint(map \ {c})
    BY DEF Disjoint
  <2>5. /\ AddCode(map \ {c}, to, c.entry, c.size) =
             {o \in map \ {c} : ~Overlap(o, to, to + c.size)} \cup {moved}
        /\ AddCode(map \ {c}, to, c.entry, c.size) \in SUBSET CodeObject
        /\ Disjoint(AddCode(map \ {c}, to, c.entry, c.size))
    <3> HIDE DEF moved
    <3>1. ASSUME NEW m, m = map \ {c}
          PROVE  /\ AddCode(m, moved.start, moved.entry, moved.size) =
                      {o \in m : ~Overlap(o, moved.start, moved.start + moved.size)}
                        \cup {moved}
                 /\ AddCode(m, moved.start, moved.entry, moved.size) \in SUBSET CodeObject
                 /\ Disjoint(AddCode(m, moved.start, moved.entry, moved.size))
      BY <2>3, <2>4, <3>1, AddedCode
    <3> QED
      BY <2>3, <3>1
  <2> QED
    BY <1>2, <2>2, <2>5
<1> QED
  BY <1>1, <1>2

(* Every code event leads from a map without overlaps to another. *)
LEMMA UpdatedMap ==
  ASSUME NEW map \in SUBSET CodeObject, Disjoint(map), NEW e \in Event
  PROVE  /\ UpdateCodeMap(map, e) \in SUBSET CodeObject
         /\ Disjoint(UpdateCodeMap(map, e))
<1>1. e.code \in CodeObject /\ e.to \in Nat
  BY DEF Event
<1>2. CASE e.kind = "create"
  BY <1>1, <1>2, AddedCode DEF UpdateCodeMap
<1>3. CASE e.kind = "move"
  <2>1. UpdateCodeMap(map, e) = MoveCode(map, e.code.start, e.to)
    BY <1>3 DEF UpdateCodeMap
  <2>2. CASE \E c \in map : c.start = e.code.start
    BY <1>1, <2>1, <2>2, MovedCode
  <2>3. CASE ~\E c \in map : c.start = e.code.start
    BY <2>1, <2>3 DEF MoveCode
  <2> QED
    BY <2>2, <2>3
<1>4. CASE e.kind = "annotate"
  BY <1>4 DEF UpdateCodeMap
<1> QED
  BY <1>2, <1>3, <1>4 DEF Event

-----------------------------------------------------------------------------
(* Types, and what the program counters say of the flags. *)

TypeOK ==
  /\ live \in SUBSET CodeObject /\ Disjoint(live) /\ toLog \in SUBSET live
  /\ created \in Nat
  /\ vm \in {"idle", "log", "put", "join"}
  /\ event \in Event \cup {NoEvent}
  /\ sig \in {"none", "finish"}
  /\ is_profiling \in BOOLEAN /\ running = is_profiling /\ draining \in BOOLEAN
  /\ last_code_event_id \in Nat /\ last_processed \in Nat
  /\ events_buffer \in Seq(Event) /\ ticks_from_vm_buffer \in Seq(Record)
  /\ marker \in [Slot -> {"empty", "full"}] /\ record \in [Slot -> Record]
  /\ enqueue_pos \in Slot /\ dequeue_pos \in Slot
  /\ proc \in {"none", "check", "vm", "ring", "vm_again", "event", "remove",
               "timer", "done"}
  /\ code_map \in SUBSET CodeObject /\ Disjoint(code_map)
  /\ stackAdded \in BOOLEAN

(* There is a processor exactly from StartProcessor to Joined; events are    *)
(* logged, and samples taken, while is_profiling_ is set.                    *)
PhaseInv ==
  /\ is_profiling <=> vm \in {"log", "put"} \/ (vm = "idle" /\ proc # "none")
  /\ vm = "log" => proc = "none"
  /\ vm = "join" => proc # "none"
  /\ sig = "finish" => proc # "none" /\ is_profiling
  /\ draining => ~is_profiling /\ proc # "none"
  /\ proc = "none" => /\ ticks_from_vm_buffer = <<>> /\ last_processed = 0
                      /\ code_map = {} /\ ~stackAdded
                      /\ marker = [s \in Slot |-> "empty"]
                      /\ record = [s \in Slot |-> NoRecord]
                      /\ enqueue_pos = 0 /\ dequeue_pos = 0
                      /\ vm = "idle" => last_code_event_id = 0 /\ events_buffer = <<>>
  /\ toLog # {} => proc = "none" /\ vm \in {"log", "put"}
  /\ vm = "put" => event \in Event

BaseInv == TypeOK /\ PhaseInv

(* Records and events are what the types say. *)
LEMMA Shapes ==
  /\ NoRecord \in Record /\ NoObject \in CodeObject
  /\ NoSample \in [pc : Int, truth : Nat]
  /\ Slot \subseteq Nat /\ 0 \in Slot
  /\ \A s \in Slot : NextSlot(s) \in Slot
BY CpuProfilerAssumption
DEF NoRecord, Record, NoSample, NoObject, CodeObject, NoCode, Slot, NextSlot

(* A sample, and the record of one. *)
LEMMA SampleShape ==
  ASSUME TypeOK, NEW s \in StackSample, NEW n \in Nat
  PROVE  [order |-> n, sample |-> s] \in Record
<1>1. s \in [pc : Int, truth : Nat]
  <2>1. Address \subseteq Int /\ 1..created \subseteq Nat
    BY CpuProfilerAssumption DEF TypeOK
  <2>2. \A t \in [pc : Address, truth : 1..created] : t \in [pc : Int, truth : Nat]
    BY <2>1
  <2> QED
    BY <2>2, Shapes DEF StackSample
<1> QED
  BY <1>1 DEF Record

(* Taking the first element out of a sequence. *)
LEMMA PopSeq ==
  ASSUME NEW S, NEW q \in Seq(S), q # <<>>
  PROVE  /\ Head(q) = q[1] /\ Head(q) \in S /\ Tail(q) \in Seq(S)
         /\ Len(q) \in Nat /\ Len(q) > 0 /\ Len(Tail(q)) = Len(q) - 1
         /\ \A i \in 1 .. Len(q) - 1 : Tail(q)[i] = q[i + 1]
BY HeadTailProperties, LenProperties

(* Adding an element at the end of a sequence. *)
LEMMA PushSeq ==
  ASSUME NEW S, NEW q \in Seq(S), NEW x \in S
  PROVE  /\ Append(q, x) \in Seq(S)
         /\ Len(q) \in Nat /\ Len(Append(q, x)) = Len(q) + 1
         /\ \A i \in 1..Len(q) : Append(q, x)[i] = q[i]
         /\ Append(q, x)[Len(q) + 1] = x
BY AppendProperties, LenProperties

(* The heap after an object was placed at an address. *)
LEMMA Placed ==
  ASSUME TypeOK, NEW c \in CodeObject, NEW start \in Nat, Place(c, start)
  PROVE  /\ live' \in SUBSET CodeObject /\ Disjoint(live')
         /\ [c EXCEPT !.start = start] =
              [start |-> start, size |-> c.size, entry |-> c.entry]
         /\ live' = {o \in live \ {c} : ~Overlap(o, start, start + c.size)}
                      \cup {[start |-> start, size |-> c.size, entry |-> c.entry]}
<1> DEFINE moved == [start |-> start, size |-> c.size, entry |-> c.entry]
           kept == {o \in live \ {c} : ~Overlap(o, start, start + c.size)}
<1>1. /\ moved \in CodeObject /\ moved.start = start /\ moved.size = c.size
      /\ c.size \in Nat /\ c.size > 0
      /\ [c EXCEPT !.start = start] = moved
  BY ObjectFields DEF CodeObject
<1>2. live' = kept \cup {moved}
  BY <1>1 DEF Place
<1> HIDE DEF moved
<1>3. \A o \in kept : ~Overlap(moved, o.start, o.start + o.size)
  <2> SUFFICES ASSUME NEW o \in kept PROVE ~Overlap(moved, o.start, o.start + o.size)
    OBVIOUS
  <2>1. o.start \in Nat /\ o.size \in Nat /\ o.size > 0
    BY ObjectFields DEF TypeOK
  <2> QED
    BY <1>1, <2>1 DEF Overlap
<1>4. \A o \in kept : ~Overlap(o, moved.start, moved.start + moved.size)
  BY <1>1
<1>5. Disjoint(kept \cup {moved})
  BY <1>3, <1>4 DEF Disjoint, TypeOK
<1>6. live' \in SUBSET CodeObject
  BY <1>1, <1>2 DEF TypeOK
<1> QED
  BY <1>1, <1>2, <1>5, <1>6 DEF moved

(* The first half of Enqueue makes an event. *)
LEMMA BeginShape ==
  ASSUME TypeOK, NEW kind \in {"create", "move", "annotate"},
         NEW c \in CodeObject, NEW to \in Nat, EnqueueBegin(kind, c, to)
  PROVE  /\ event' \in Event /\ vm' = "put"
         /\ last_code_event_id' = last_code_event_id + 1
         /\ event'.kind = kind /\ event'.code = c /\ event'.to = to
         /\ event'.order = last_code_event_id'
BY DEF EnqueueBegin, TypeOK, Event

(* The VM thread's actions keep types and phases. *)
LEMMA BaseVm == BaseInv /\ VmThread => BaseInv'
<1> SUFFICES ASSUME BaseInv, VmThread PROVE BaseInv'
  OBVIOUS
<1> USE DEF BaseInv, heapVars, bufferVars, slotVars, ringVars, procVars,
            histVars, VmAt
<1>1. CASE EnqueueEnd
  <2>1. events_buffer' \in Seq(Event)
    BY <1>1, PushSeq DEF EnqueueEnd, TypeOK, PhaseInv
  <2>2. TypeOK'
    BY <1>1, <2>1 DEF EnqueueEnd, TypeOK
  <2>3. PhaseInv'
    BY <1>1 DEF EnqueueEnd, PhaseInv, TypeOK
  <2> QED
    BY <2>2, <2>3
<1>2. ASSUME NEW kind \in {"create", "move", "annotate"}, NEW c \in CodeObject,
             NEW to \in Nat, EnqueueBegin(kind, c, to),
             is_profiling, vm \in {"idle", "log"},
             live' \in SUBSET CodeObject, Disjoint(live'), toLog' \in SUBSET live',
             created' \in Nat, toLog' \subseteq toLog,
             UNCHANGED <<sig, is_profiling, running, events_buffer,
                         ticks_from_vm_buffer, ringVars, procVars, histVars>>
      PROVE  BaseInv'
  <2>1. /\ event' \in Event /\ vm' = "put" /\ last_code_event_id' \in Nat
    BY <1>2, BeginShape DEF TypeOK
  <2>2. TypeOK'
    BY <1>2, <2>1 DEF TypeOK
  <2>3. PhaseInv'
    BY <1>2, <2>1 DEF PhaseInv
  <2> QED
    BY <2>2, <2>3
<1>3. ASSUME live' \in SUBSET CodeObject, Disjoint(live'), created' \in Nat,
             ~is_profiling, vm = "idle",
             UNCHANGED <<vm, event, toLog, sig, is_profiling, running, bufferVars,
                         ringVars, procVars, histVars>>
      PROVE  BaseInv'
  <2>1. TypeOK'
    BY <1>3 DEF TypeOK, PhaseInv
  <2>2. PhaseInv'
    BY <1>3 DEF PhaseInv
  <2> QED
    BY <2>1, <2>2
<1>4. ASSUME NEW a \in Address, NEW n \in Size, CodeCreateEvent(a, n)
      PROVE  BaseInv'
  <2> DEFINE c == [start |-> a, size |-> n, entry |-> created + 1]
  <2>1. c \in CodeObject /\ a \in Nat /\ 0 \in Nat
    BY CpuProfilerAssumption DEF CodeObject, TypeOK
  <2>2. /\ Place(c, a) /\ LogEvent("create", c, 0) /\ created' = created + 1
        /\ vm = "idle"
        /\ UNCHANGED <<toLog, sig, is_profiling, running, events_buffer,
                       ticks_from_vm_buffer, ringVars, procVars, histVars>>
    BY <1>4 DEF CodeCreateEvent
  <2> HIDE DEF c
  <2>3. live' \in SUBSET CodeObject /\ Disjoint(live') /\ created' \in Nat
    <3>1. created' \in Nat
      BY <2>2 DEF TypeOK
    <3> QED
      BY <2>1, <2>2, <3>1, Placed
  <2>4. CASE is_profiling
    <3>1. toLog = {}
      BY <2>2 DEF PhaseInv
    <3>2. EnqueueBegin("create", c, 0)
      BY <2>2, <2>4 DEF LogEvent
    <3> QED
      BY <1>2, <2>1, <2>2, <2>3, <2>4, <3>1, <3>2
  <2>5. CASE ~is_profiling
    <3>1. UNCHANGED <<vm, event, last_code_event_id>>
      BY <2>2, <2>5 DEF LogEvent
    <3> QED
      BY <1>3, <2>2, <2>3, <2>5, <3>1
  <2> QED
    BY <2>4, <2>5
<1>5. ASSUME NEW c \in live, NEW a \in Address, CodeMoveEvent(c, a)
      PROVE  BaseInv'
  <2>1. c \in CodeObject /\ a \in Nat
    BY CpuProfilerAssumption DEF TypeOK
  <2>2. /\ Place(c, a) /\ LogEvent("move", c, a) /\ created' = created
        /\ vm = "idle"
        /\ UNCHANGED <<toLog, sig, is_profiling, running, events_buffer,
                       ticks_from_vm_buffer, ringVars, procVars, histVars>>
    BY <1>5 DEF CodeMoveEvent
  <2>3. live' \in SUBSET CodeObject /\ Disjoint(live') /\ created' \in Nat
    BY <2>1, <2>2, Placed DEF TypeOK
  <2>4. CASE is_profiling
    <3>1. toLog = {}
      BY <2>2 DEF PhaseInv
    <3>2. EnqueueBegin("move", c, a)
      BY <2>2, <2>4 DEF LogEvent
    <3> QED
      BY <1>2, <2>1, <2>2, <2>3, <2>4, <3>1, <3>2
  <2>5. CASE ~is_profiling
    <3>1. UNCHANGED <<vm, event, last_code_event_id>>
      BY <2>2, <2>5 DEF LogEvent
    <3> QED
      BY <1>3, <2>2, <2>3, <2>5, <3>1
  <2> QED
    BY <2>4, <2>5
<1>6. CASE CodeDisableOptEvent
  <2>1. NoObject \in CodeObject /\ 0 \in Nat
    BY Shapes
  <2> QED
    BY <1>2, <1>6, <2>1 DEF CodeDisableOptEvent, TypeOK
<1>7. ASSUME NEW c \in toLog, LogCodeObject(c) PROVE BaseInv'
  <2>1. /\ c \in CodeObject /\ 0 \in Nat /\ toLog' \in SUBSET live'
        /\ is_profiling
    BY <1>7 DEF LogCodeObject, TypeOK, PhaseInv
  <2> QED
    BY <1>2, <1>7, <2>1 DEF LogCodeObject, TypeOK
<1>8. CASE StartProfiling
  BY <1>8 DEF StartProfiling, TypeOK, PhaseInv
<1>9. CASE StartProcessor \/ StartProfilingAgain
  <2>1. ticks_from_vm_buffer' \in Seq(Record)
    <3> PICK s \in StackSample : AddCurrentStack(s)
      BY <1>9 DEF StartProcessor, StartProfilingAgain
    <3>1. [order |-> last_code_event_id, sample |-> s] \in Record
      BY SampleShape DEF TypeOK
    <3> QED
      BY <3>1, PushSeq DEF AddCurrentStack, TypeOK
  <2>2. TypeOK'
    BY <1>9, <2>1 DEF StartProcessor, StartProfilingAgain, TypeOK
  <2>3. PhaseInv'
    BY <1>9 DEF StartProcessor, StartProfilingAgain, PhaseInv
  <2> QED
    BY <2>2, <2>3
<1>10. CASE StopProcessor
  BY <1>10 DEF StopProcessor, TypeOK, PhaseInv
<1>11. CASE Joined
  <2>0. /\ marker' \in [Slot -> {"empty", "full"}] /\ record' \in [Slot -> Record]
        /\ enqueue_pos' \in Slot /\ dequeue_pos' \in Slot
        /\ events_buffer' \in Seq(Event) /\ ticks_from_vm_buffer' \in Seq(Record)
    BY <1>11, Shapes DEF Joined
  <2>1. TypeOK'
    BY <1>11, <2>0 DEF Joined, TypeOK, Disjoint
  <2>2. PhaseInv'
    BY <1>11 DEF Joined, PhaseInv, TypeOK
  <2> QED
    BY <2>1, <2>2
<1> QED
  BY <1>1, <1>4, <1>5, <1>6, <1>7, <1>8, <1>9, <1>10, <1>11 DEF VmThread

(* So do those of the signal handler. *)
LEMMA BaseSignal == BaseInv /\ SignalHandler => BaseInv'
<1> SUFFICES ASSUME BaseInv, SignalHandler PROVE BaseInv'
  OBVIOUS
<1> USE DEF BaseInv, heapVars, bufferVars, procVars, histVars
<1>1. CASE StartTickSample
  <2>1. record' \in [Slot -> Record]
    <3>1. CASE record' = record
      BY <3>1 DEF TypeOK
    <3>2. ASSUME NEW s \in StackSample,
                 record' = [record EXCEPT ![enqueue_pos] =
                              [order |-> last_code_event_id, sample |-> s]]
          PROVE  record' \in [Slot -> Record]
      <4>1. [order |-> last_code_event_id, sample |-> s] \in Record
        BY SampleShape DEF TypeOK
      <4> QED
        BY <3>2, <4>1 DEF TypeOK
    <3> QED
      BY <1>1, <3>1, <3>2 DEF StartTickSample
  <2>2. TypeOK'
    BY <1>1, <2>1 DEF StartTickSample, TypeOK
  <2>3. PhaseInv'
    BY <1>1 DEF StartTickSample, PhaseInv
  <2> QED
    BY <2>2, <2>3
<1>2. CASE FinishTickSample
  <2>1. TypeOK'
    BY <1>2, Shapes DEF FinishTickSample, TypeOK
  <2>2. PhaseInv'
    BY <1>2 DEF FinishTickSample, PhaseInv
  <2> QED
    BY <2>1, <2>2
<1> QED
  BY <1>1, <1>2 DEF SignalHandler

(* And those of the processor thread. *)
LEMMA BaseProcessor ==
  ASSUME BaseInv, Processor \/ Timer
  PROVE  BaseInv' /\ UnchangedByProcessor /\ proc # "none" /\ proc' # "none"
<1> USE DEF BaseInv, UnchangedByProcessor, heapVars, slotVars
<1>0. UnchangedByProcessor /\ proc # "none" /\ proc' # "none"
  BY DEF Processor, Timer, CheckRunning, CheckVmBuffer, CheckRing, Remove,
         CheckVmBufferAgain, ProcessCodeEvent, TimerRunning, DoSample,
         AfterSample
<1>1. PhaseInv'
  BY <1>0 DEF PhaseInv, TypeOK, Processor, Timer, CheckRunning, CheckVmBuffer,
         CheckRing, Remove, CheckVmBufferAgain, ProcessCodeEvent,
         TimerRunning, DoSample
<1>2. CASE CheckRunning \/ CheckRing \/ CheckVmBufferAgain \/ Timer
  <2>1. TypeOK'
    BY <1>2 DEF TypeOK, Timer, CheckRunning, CheckRing, CheckVmBufferAgain,
                TimerRunning, DoSample
  <2> QED
    BY <1>0, <1>1, <2>1
<1>3. CASE CheckVmBuffer
  <2>1. ticks_from_vm_buffer' \in Seq(Record)
    BY <1>3, PopSeq DEF CheckVmBuffer, TypeOK
  <2>2. TypeOK'
    BY <1>3, <2>1 DEF CheckVmBuffer, AfterSample, TypeOK
  <2> QED
    BY <1>0, <1>1, <2>2
<1>4. CASE Remove
  <2>1. /\ marker' \in [Slot -> {"empty", "full"}] /\ record' \in [Slot -> Record]
        /\ dequeue_pos' \in Slot
    BY <1>4, Shapes DEF Remove, TypeOK
  <2>2. TypeOK'
    BY <1>4, <2>1 DEF Remove, AfterSample, TypeOK
  <2> QED
    BY <1>0, <1>1, <2>2
<1>5. CASE ProcessCodeEvent
  <2>1. CASE events_buffer = <<>>
    BY <1>0, <1>1, <1>5, <2>1 DEF ProcessCodeEvent, TypeOK
  <2>2. CASE events_buffer # <<>>
    <3>1. /\ Head(events_buffer) \in Event /\ Tail(events_buffer) \in Seq(Event)
          /\ Head(events_buffer).order \in Nat
      <4>1. events_buffer \in Seq(Event)
        BY DEF TypeOK
      <4>2. Head(events_buffer) \in Event /\ Tail(events_buffer) \in Seq(Event)
        BY <2>2, <4>1, PopSeq
      <4> QED
        BY <4>2 DEF Event
    <3>2. /\ code_map' \in SUBSET CodeObject /\ Disjoint(code_map')
      BY <1>5, <2>2, <3>1, UpdatedMap DEF ProcessCodeEvent, TypeOK
    <3>3. TypeOK'
      BY <1>5, <2>2, <3>1, <3>2 DEF ProcessCodeEvent, AfterSample, TypeOK
    <3> QED
      BY <1>0, <1>1, <3>3
  <2> QED
    BY <2>1, <2>2
<1> QED
  BY <1>0, <1>1, <1>2, <1>3, <1>4, <1>5 DEF Processor

(* The first state. *)
LEMMA BaseInit == Init => BaseInv
<1> SUFFICES ASSUME Init PROVE BaseInv
  OBVIOUS
<1>0. /\ marker \in [Slot -> {"empty", "full"}] /\ record \in [Slot -> Record]
      /\ enqueue_pos \in Slot /\ dequeue_pos \in Slot
      /\ events_buffer \in Seq(Event) /\ ticks_from_vm_buffer \in Seq(Record)
  BY Shapes DEF Init
<1>1. TypeOK
  BY <1>0 DEF Init, TypeOK, Disjoint
<1>2. PhaseInv
  BY DEF Init, PhaseInv
<1> QED
  BY <1>1, <1>2 DEF BaseInv

(* Types and phases hold throughout. *)
LEMMA BaseInductive == Spec => []BaseInv
<1>2. BaseInv /\ UNCHANGED vars => BaseInv'
  BY DEF BaseInv, TypeOK, PhaseInv, vars, heapVars, bufferVars, slotVars,
         ringVars, procVars, histVars
<1>3. BaseInv /\ [Next]_vars => BaseInv'
  BY <1>2, BaseVm, BaseSignal, BaseProcessor DEF Next
<1> QED
  BY BaseInit, <1>3, PTL DEF Spec

-----------------------------------------------------------------------------
(* The history of code maps. *)

(* A sample is not ahead of the events, and if it can still be resolved the  *)
(* map of its order resolves it rightly.                                     *)
Resolved(H, r) ==
  /\ r.order <= last_code_event_id
  /\ r.order >= last_processed =>
       FindEntry(H[r.order], r.sample.pc) = r.sample.truth

(* The events that wait lead from the processor's map to that of the last. *)
Replay(H) ==
  /\ H[last_processed] = code_map
  /\ \A i \in 1..Len(events_buffer) :
       /\ events_buffer[i].order = last_processed + i
       /\ H[last_processed + i] =
            UpdateCodeMap(H[last_processed + i - 1], events_buffer[i])
  /\ vm # "put" => last_code_event_id = last_processed + Len(events_buffer)
  /\ vm = "put" =>
       /\ last_code_event_id = last_processed + Len(events_buffer) + 1
       /\ event.order = last_code_event_id
       /\ H[last_code_event_id] = UpdateCodeMap(H[last_code_event_id - 1], event)

Samples(H) ==
  /\ \A s \in Slot : Resolved(H, record[s])
  /\ \A i \in 1..Len(ticks_from_vm_buffer) : Resolved(H, ticks_from_vm_buffer[i])

Hist(H) ==
  /\ H \in [Nat -> SUBSET CodeObject]
  /\ \A n \in Nat : Disjoint(H[n])
  /\ Replay(H)
  /\ Samples(H)
  /\ is_profiling => live \ toLog \subseteq H[last_code_event_id]

HistInv == attributed /\ \E H : Hist(H)

(* A step that leaves events, samples and code alone. *)
LEMMA HistSame ==
  ASSUME HistInv, attributed' = attributed, vm' = "put" <=> vm = "put",
         event' = event \/ vm' # "put",
         is_profiling' => \/ live' \ toLog' = {}
                          \/ live' \ toLog' \subseteq live \ toLog /\ is_profiling,
         UNCHANGED <<last_code_event_id, last_processed, code_map,
                     events_buffer, ticks_from_vm_buffer, record>>
  PROVE  HistInv'
<1> PICK H : Hist(H)
  BY DEF HistInv
<1>1. Replay(H)'
  BY DEF Hist, Replay
<1>2. Samples(H)'
  BY DEF Hist, Samples, Resolved
<1>3. Hist(H)'
  BY <1>1, <1>2 DEF Hist
<1> QED
  BY <1>3 DEF HistInv

(* ++last_code_event_id_ begins a new map, with the event that is under way. *)
LEMMA HistEvent ==
  ASSUME BaseInv, attributed' = attributed, attributed, NEW H, Hist(H),
         vm # "put", vm' = "put",
         event' \in Event, event'.order = last_code_event_id',
         last_code_event_id' = last_code_event_id + 1,
         is_profiling' =>
           live' \ toLog' \subseteq UpdateCodeMap(H[last_code_event_id], event'),
         UNCHANGED <<last_processed, code_map, events_buffer,
                     ticks_from_vm_buffer, record>>
  PROVE  HistInv'
<1> DEFINE n == last_code_event_id
           L == Len(events_buffer)
<1>0. /\ n \in Nat /\ last_processed \in Nat /\ L \in Nat /\ n = last_processed + L
      /\ H \in [Nat -> SUBSET CodeObject]
  BY LenProperties DEF BaseInv, TypeOK, Hist, Replay
<1>1. /\ UpdateCodeMap(H[n], event') \in SUBSET CodeObject
      /\ Disjoint(UpdateCodeMap(H[n], event'))
  BY <1>0, UpdatedMap DEF Hist
<1> PICK G : G = [H EXCEPT ![n + 1] = UpdateCodeMap(H[n], event')]
  OBVIOUS
<1>2. /\ G \in [Nat -> SUBSET CodeObject]
      /\ G[n + 1] = UpdateCodeMap(H[n], event')
      /\ \A m \in Nat : m # n + 1 => G[m] = H[m]
  BY <1>0, <1>1
<1>3. \A m \in Nat : Disjoint(G[m])
  BY <1>0, <1>1, <1>2 DEF Hist
<1>4. Replay(G)'
  <2>1. G[last_processed] = code_map /\ G[n] = H[n]
    BY <1>0, <1>2 DEF Hist, Replay
  <2>2. ASSUME NEW i \in 1..L
        PROVE  /\ events_buffer[i].order = last_processed + i
               /\ G[last_processed + i] =
                    UpdateCodeMap(G[last_processed + i - 1], events_buffer[i])
    <3>1. /\ last_processed + i \in Nat /\ last_processed + i # n + 1
          /\ last_processed + i - 1 \in Nat /\ last_processed + i - 1 # n + 1
      BY <1>0
    <3> QED
      BY <1>2, <3>1 DEF Hist, Replay
  <2>3. G[n + 1] = UpdateCodeMap(G[n + 1 - 1], event')
    <3>1. n + 1 - 1 = n
      BY <1>0
    <3> QED
      BY <1>2, <2>1, <3>1
  <2> QED
    BY <1>0, <2>1, <2>2, <2>3 DEF Replay
<1>5. ASSUME NEW r \in Record, Resolved(H, r) PROVE Resolved(G, r)'
  <2>1. r.order \in Nat /\ r.order <= n /\ r.order # n + 1 /\ r.order <= n + 1
    BY <1>0, <1>5 DEF Record, Resolved
  <2> QED
    BY <1>2, <1>5, <2>1 DEF Resolved
<1>6. Samples(G)'
  <2>1. \A s \in Slot : record[s] \in Record
    BY DEF BaseInv, TypeOK
  <2>2. \A i \in 1..Len(ticks_from_vm_buffer) : ticks_from_vm_buffer[i] \in Record
    BY ElementOfSeq DEF BaseInv, TypeOK
  <2> QED
    BY <1>5, <2>1, <2>2 DEF Samples, Hist
<1>7. Hist(G)'
  BY <1>2, <1>3, <1>4, <1>6 DEF Hist
<1> QED
  BY <1>7 DEF HistInv

(* A sample taken now resolves on the map of the last event. *)
LEMMA SampleResolves ==
  ASSUME BaseInv, is_profiling, proc # "none" \/ toLog = {}, NEW H, Hist(H),
         NEW s \in StackSample
  PROVE  Resolved(H, [order |-> last_code_event_id, sample |-> s])
<1> DEFINE n == last_code_event_id
<1>1. toLog = {} /\ n \in Nat
  BY DEF BaseInv, PhaseInv, TypeOK
<1>2. live \subseteq H[n] /\ H[n] \in SUBSET CodeObject /\ Disjoint(H[n])
  BY <1>1 DEF Hist
<1>3. FindEntry(H[n], s.pc) = s.truth
  <2>1. CASE s = NoSample
    BY <1>2, <2>1, FindNothing
  <2>2. CASE s # NoSample
    <3>1. s.pc \in Nat
      BY <2>2, CpuProfilerAssumption DEF StackSample
    <3> PICK c \in live : Covers(c, s.pc) /\ s.truth = c.entry
      BY <2>2 DEF StackSample
    <3> QED
      BY <1>2, <3>1, FindCovering
  <2> QED
    BY <2>1, <2>2
<1> QED
  BY <1>1, <1>3 DEF Resolved

(* Logging a code object: the map gets it, and keeps the rest of the heap. *)
LEMMA HistCreate ==
  ASSUME BaseInv, HistInv, attributed' = attributed, NEW c \in CodeObject,
         EnqueueBegin("create", c, 0), is_profiling, vm # "put",
         \A o \in live' \ toLog' :
           o = c \/ (o \in live \ toLog /\ ~Overlap(o, c.start, c.start + c.size)),
         UNCHANGED <<last_processed, code_map, events_buffer,
                     ticks_from_vm_buffer, record>>
  PROVE  HistInv'
<1> PICK H : Hist(H)
  BY DEF HistInv
<1>1. /\ event' \in Event /\ vm' = "put"
      /\ last_code_event_id' = last_code_event_id + 1
      /\ event'.kind = "create" /\ event'.code = c
      /\ event'.order = last_code_event_id'
  BY BeginShape DEF BaseInv
<1>2. /\ last_code_event_id \in Nat
      /\ live \ toLog \subseteq H[last_code_event_id]
      /\ H[last_code_event_id] \in SUBSET CodeObject
      /\ Disjoint(H[last_code_event_id])
  BY DEF Hist, BaseInv, TypeOK
<1>3. UpdateCodeMap(H[last_code_event_id], event') =
        {o \in H[last_code_event_id] : ~Overlap(o, c.start, c.start + c.size)}
          \cup {c}
  BY <1>1, <1>2, AddedCode DEF UpdateCodeMap
<1>4. live' \ toLog' \subseteq UpdateCodeMap(H[last_code_event_id], event')
  BY <1>2, <1>3
<1> QED
  BY <1>1, <1>4, HistEvent DEF HistInv

(* Logging a move: the map moves the same object. *)
LEMMA HistMove ==
  ASSUME BaseInv, HistInv, NEW c \in live, NEW a \in Address, CodeMoveEvent(c, a)
  PROVE  HistInv'
<1> USE DEF heapVars, bufferVars, slotVars, ringVars, procVars, histVars
<1>1. /\ VmAt("idle") /\ ~Overlap(c, a, a + c.size) /\ Place(c, a)
      /\ LogEvent("move", c, a)
      /\ UNCHANGED <<toLog, is_profiling, last_processed, code_map,
                     events_buffer, ticks_from_vm_buffer, record, attributed>>
  BY DEF CodeMoveEvent
<1>2. c \in CodeObject /\ a \in Nat /\ c.start \in Nat /\ c.size \in Nat /\ c.size > 0
  BY CpuProfilerAssumption, ObjectFields DEF BaseInv, TypeOK
<1>3. CASE ~is_profiling
  <2>1. UNCHANGED <<vm, event, last_code_event_id>>
    BY <1>1, <1>3 DEF LogEvent
  <2> QED
    BY <1>1, <1>3, <2>1, HistSame
<1>4. CASE is_profiling
  <2> PICK H : Hist(H)
    BY DEF HistInv
  <2>1. EnqueueBegin("move", c, a)
    BY <1>1, <1>4 DEF LogEvent
  <2>2. /\ event' \in Event /\ vm' = "put"
        /\ last_code_event_id' = last_code_event_id + 1
        /\ event'.kind = "move" /\ event'.code = c /\ event'.to = a
        /\ event'.order = last_code_event_id'
    BY <1>2, <2>1, BeginShape DEF BaseInv
  <2>3. toLog = {}
    BY <1>1 DEF VmAt, BaseInv, PhaseInv
  <2>4. /\ last_code_event_id \in Nat
        /\ live \subseteq H[last_code_event_id]
        /\ H[last_code_event_id] \in SUBSET CodeObject
        /\ Disjoint(H[last_code_event_id])
    BY <1>4, <2>3 DEF Hist, BaseInv, TypeOK
  <2>5. a # c.start
    BY <1>1, <1>2 DEF Overlap
  <2> DEFINE moved == [start |-> a, size |-> c.size, entry |-> c.entry]
  <2>6. UpdateCodeMap(H[last_code_event_id], event') =
          {o \in H[last_code_event_id] \ {c} : ~Overlap(o, a, a + c.size)}
            \cup {moved}
    BY <1>2, <2>2, <2>4, <2>5, MovedCode DEF UpdateCodeMap
  <2>7. live' = {o \in live \ {c} : ~Overlap(o, a, a + c.size)} \cup {moved}
    BY <1>1, <1>2, Placed DEF BaseInv
  <2> HIDE DEF moved
  <2>8. live' \ toLog' \subseteq UpdateCodeMap(H[last_code_event_id], event')
    BY <2>4, <2>6, <2>7
  <2>9. vm # "put"
    BY <1>1 DEF VmAt
  <2> QED
    BY <1>1, <2>2, <2>8, <2>9, HistEvent DEF HistInv
<1> QED
  BY <1>3, <1>4

(* AddCurrentStack: a sample from the VM thread itself. *)
LEMMA HistTick ==
  ASSUME BaseInv, HistInv, is_profiling, toLog = {}, vm # "put", vm' # "put",
         NEW s \in StackSample, AddCurrentStack(s), attributed' = attributed,
         UNCHANGED <<live, toLog, is_profiling, last_code_event_id,
                     last_processed, code_map, events_buffer, record>>
  PROVE  HistInv'
<1> PICK H : Hist(H)
  BY DEF HistInv
<1> DEFINE r == [order |-> last_code_event_id, sample |-> s]
<1>1. Resolved(H, r)
  BY SampleResolves
<1>2. r \in Record /\ ticks_from_vm_buffer \in Seq(Record)
  BY SampleShape DEF BaseInv, TypeOK
<1>3. ticks_from_vm_buffer' = Append(ticks_from_vm_buffer, r)
  BY DEF AddCurrentStack
<1> HIDE DEF r
<1>4. /\ Len(ticks_from_vm_buffer) \in Nat
      /\ Len(ticks_from_vm_buffer') = Len(ticks_from_vm_buffer) + 1
      /\ \A i \in 1..Len(ticks_from_vm_buffer) :
           ticks_from_vm_buffer'[i] = ticks_from_vm_buffer[i]
      /\ ticks_from_vm_buffer'[Len(ticks_from_vm_buffer) + 1] = r
  BY <1>2, <1>3, PushSeq
<1>5. \A i \in 1..Len(ticks_from_vm_buffer') : Resolved(H, ticks_from_vm_buffer'[i])
  BY <1>1, <1>4 DEF Hist, Samples
<1>6. Samples(H)'
  BY <1>5 DEF Hist, Samples, Resolved
<1>7. Replay(H)'
  BY DEF Hist, Replay
<1>8. Hist(H)'
  BY <1>6, <1>7 DEF Hist
<1> QED
  BY <1>8 DEF HistInv

(* The second half of Enqueue: the event joins the buffer, its map stays. *)
LEMMA HistEnqueueEnd ==
  ASSUME BaseInv, HistInv, EnqueueEnd
  PROVE  HistInv'
<1> USE DEF heapVars, slotVars, ringVars, procVars, histVars
<1> PICK H : Hist(H)
  BY DEF HistInv
<1>1. /\ vm = "put" /\ vm' # "put"
      /\ events_buffer' = Append(events_buffer, event)
      /\ UNCHANGED <<live, toLog, is_profiling, last_code_event_id,
                     last_processed, code_map, ticks_from_vm_buffer, record,
                     attributed>>
  BY DEF EnqueueEnd, VmAt
<1>2. event \in Event /\ events_buffer \in Seq(Event) /\ last_processed \in Nat
  BY <1>1 DEF BaseInv, PhaseInv, TypeOK
<1> DEFINE L == Len(events_buffer)
<1>3. /\ L \in Nat /\ Len(events_buffer') = L + 1
      /\ \A i \in 1..L : events_buffer'[i] = events_buffer[i]
      /\ events_buffer'[L + 1] = event
  BY <1>1, <1>2, PushSeq
<1>4. /\ last_code_event_id = last_processed + L + 1
      /\ event.order = last_code_event_id
      /\ H[last_code_event_id] = UpdateCodeMap(H[last_code_event_id - 1], event)
      /\ H[last_processed] = code_map
  BY <1>1 DEF Hist, Replay
<1>5. ASSUME NEW i \in 1 .. L + 1
      PROVE  /\ events_buffer'[i].order = last_processed + i
             /\ H[last_processed + i] =
                  UpdateCodeMap(H[last_processed + i - 1], events_buffer'[i])
  <2>1. CASE i = L + 1
    <3>1. /\ last_processed + i = last_code_event_id
          /\ last_processed + i - 1 = last_code_event_id - 1
      BY <1>2, <1>3, <1>4, <2>1
    <3> QED
      BY <1>3, <1>4, <2>1, <3>1
  <2>2. CASE i \in 1..L
    BY <1>3, <2>2 DEF Hist, Replay
  <2> QED
    BY <1>3, <2>1, <2>2
<1>6. Replay(H)'
  BY <1>1, <1>2, <1>3, <1>4, <1>5 DEF Replay
<1>7. Samples(H)'
  BY <1>1 DEF Hist, Samples, Resolved
<1>8. Hist(H)'
  BY <1>1, <1>6, <1>7 DEF Hist
<1> QED
  BY <1>1, <1>8 DEF HistInv

Fresh ==
  /\ last_code_event_id = 0 /\ last_processed = 0 /\ code_map = {}
  /\ events_buffer = <<>> /\ ticks_from_vm_buffer = <<>>
  /\ record = [s \in Slot |-> NoRecord]
  /\ vm = "idle" /\ ~is_profiling

(* A history begins anew with each processor. *)
LEMMA HistFresh == Fresh => \E H : Hist(H)
<1> SUFFICES ASSUME Fresh PROVE \E H : Hist(H)
  OBVIOUS
<1> USE DEF Fresh
<1> DEFINE H == [n \in Nat |-> {}]
<1>1. H \in [Nat -> SUBSET CodeObject] /\ \A n \in Nat : Disjoint(H[n])
  BY DEF Disjoint
<1>2. Replay(H)
  BY DEF Replay
<1>3. \A s \in Slot : Resolved(H, record[s])
  <2>1. FindEntry({}, NoSample.pc) = NoSample.truth
    BY FindNothing
  <2> QED
    BY <2>1 DEF Resolved, NoRecord
<1>4. Samples(H)
  BY <1>3 DEF Samples
<1>5. Hist(H)
  BY <1>1, <1>2, <1>4 DEF Hist
<1> QED
  BY <1>5

(* The same after a step. *)
LEMMA HistFreshNext == Fresh' => (\E H : Hist(H))'
BY HistFresh, PTL

(* The VM thread keeps the history. *)
LEMMA HistVm ==
  ASSUME BaseInv, HistInv, VmThread
  PROVE  HistInv'
<1> USE DEF heapVars, bufferVars, slotVars, ringVars, procVars, histVars, VmAt
<1>1. ASSUME NEW a \in Address, NEW n \in Size, CodeCreateEvent(a, n)
      PROVE  HistInv'
  <2> DEFINE c == [start |-> a, size |-> n, entry |-> created + 1]
  <2>1. /\ c \in CodeObject /\ c.start = a /\ c.size = n /\ c.entry = created + 1
        /\ a \in Nat
    BY CpuProfilerAssumption DEF CodeObject, BaseInv, TypeOK
  <2>2. /\ Place(c, a) /\ LogEvent("create", c, 0) /\ vm = "idle"
        /\ UNCHANGED <<toLog, is_profiling, last_processed, code_map,
                       events_buffer, ticks_from_vm_buffer, record, attributed>>
    BY <1>1 DEF CodeCreateEvent
  <2>3. CASE ~is_profiling
    <3>1. UNCHANGED <<vm, event, last_code_event_id>>
      BY <2>2, <2>3 DEF LogEvent
    <3> QED
      BY <2>2, <2>3, <3>1, HistSame
  <2>4. CASE is_profiling
    <3>1. toLog = {}
      BY <2>2 DEF BaseInv, PhaseInv
    <3>2. EnqueueBegin("create", c, 0)
      BY <2>2, <2>4 DEF LogEvent
    <3>3. c = [start |-> a, size |-> c.size, entry |-> c.entry]
      BY <2>1
    <3> HIDE DEF c
    <3>4. live' = {o \in live \ {c} : ~Overlap(o, a, a + c.size)} \cup {c}
      BY <2>1, <2>2, <3>3, Placed DEF BaseInv
    <3>5. \A o \in live' \ toLog' :
            o = c \/ (o \in live \ toLog /\ ~Overlap(o, c.start, c.start + c.size))
      BY <2>1, <3>1, <3>4
    <3> QED
      BY <2>1, <2>2, <2>4, <3>2, <3>5, HistCreate
  <2> QED
    BY <2>3, <2>4
<1>2. CASE CodeDisableOptEvent
  <2> PICK H : Hist(H)
    BY DEF HistInv
  <2>1. NoObject \in CodeObject /\ 0 \in Nat
    BY Shapes
  <2>2. /\ EnqueueBegin("annotate", NoObject, 0) /\ vm = "idle" /\ is_profiling
        /\ UNCHANGED <<live, toLog, is_profiling, last_processed, code_map,
                       events_buffer, ticks_from_vm_buffer, record, attributed>>
    BY <1>2 DEF CodeDisableOptEvent
  <2>3. /\ event' \in Event /\ vm' = "put"
        /\ last_code_event_id' = last_code_event_id + 1
        /\ event'.kind = "annotate" /\ event'.order = last_code_event_id'
    BY <2>1, <2>2, BeginShape DEF BaseInv
  <2>4. UpdateCodeMap(H[last_code_event_id], event') = H[last_code_event_id]
    BY <2>3 DEF UpdateCodeMap
  <2>5. live' \ toLog' \subseteq UpdateCodeMap(H[last_code_event_id], event')
    BY <2>2, <2>4 DEF Hist
  <2> QED
    BY <2>2, <2>3, <2>5, HistEvent DEF HistInv
<1>3. ASSUME NEW c \in toLog, LogCodeObject(c) PROVE HistInv'
  <2>1. /\ vm = "log" /\ EnqueueBegin("create", c, 0) /\ toLog' = toLog \ {c}
        /\ UNCHANGED <<live, is_profiling, last_processed, code_map,
                       events_buffer, ticks_from_vm_buffer, record, attributed>>
    BY <1>3 DEF LogCodeObject
  <2>2. c \in CodeObject /\ c \in live /\ is_profiling /\ Disjoint(live)
    BY <2>1 DEF BaseInv, TypeOK, PhaseInv
  <2>3. \A o \in live' \ toLog' :
          o = c \/ (o \in live \ toLog /\ ~Overlap(o, c.start, c.start + c.size))
    BY <2>1, <2>2 DEF Disjoint
  <2> QED
    BY <2>1, <2>2, <2>3, HistCreate
<1>4. CASE StartProfiling \/ StopProcessor
  BY <1>4, HistSame DEF StartProfiling, StopProcessor
<1>5. CASE StartProcessor \/ StartProfilingAgain
  <2>1. is_profiling /\ toLog = {}
    BY <1>5 DEF StartProcessor, StartProfilingAgain, BaseInv, PhaseInv
  <2> PICK s \in StackSample : AddCurrentStack(s)
    BY <1>5 DEF StartProcessor, StartProfilingAgain
  <2> QED
    BY <1>5, <2>1, HistTick DEF StartProcessor, StartProfilingAgain
<1>6. CASE Joined
  <2>1. ~is_profiling
    BY <1>6 DEF Joined, BaseInv, PhaseInv
  <2>2. (\E H : Hist(H))'
    BY <1>6, <2>1, HistFreshNext DEF Joined, Fresh
  <2> QED
    BY <1>6, <2>2 DEF Joined, HistInv
<1> QED
  BY <1>1, <1>2, <1>3, <1>4, <1>5, <1>6, HistMove, HistEnqueueEnd DEF VmThread

(* A step of the processor or of the handler that only changes samples, to   *)
(* others that resolve.                                                      *)
LEMMA HistSamples ==
  ASSUME NEW H, Hist(H), attributed',
         \A s \in Slot : Resolved(H, record'[s]),
         \A i \in 1..Len(ticks_from_vm_buffer') :
           Resolved(H, ticks_from_vm_buffer'[i]),
         UNCHANGED <<vm, event, live, toLog, is_profiling, last_code_event_id,
                     last_processed, code_map, events_buffer>>
  PROVE  HistInv'
<1>1. Replay(H)'
  BY DEF Hist, Replay
<1>2. Samples(H)'
  BY DEF Samples, Resolved
<1>3. Hist(H)'
  BY <1>1, <1>2 DEF Hist
<1> QED
  BY <1>3 DEF HistInv

(* The signal handler keeps the history. *)
LEMMA HistSignal ==
  ASSUME BaseInv, HistInv, SignalHandler
  PROVE  HistInv'
<1> USE DEF heapVars, bufferVars, procVars, histVars
<1> PICK H : Hist(H)
  BY DEF HistInv
<1>0. /\ attributed /\ \A s \in Slot : Resolved(H, record[s])
      /\ \A i \in 1..Len(ticks_from_vm_buffer) : Resolved(H, ticks_from_vm_buffer[i])
  BY DEF HistInv, Hist, Samples
<1>1. CASE StartTickSample
  <2>1. \A s \in Slot : Resolved(H, record'[s])
    <3>1. CASE record' = record
      BY <1>0, <3>1
    <3>2. ASSUME NEW t \in StackSample,
                 record' = [record EXCEPT ![enqueue_pos] =
                              [order |-> last_code_event_id, sample |-> t]]
          PROVE  \A s \in Slot : Resolved(H, record'[s])
      <4>1. Resolved(H, [order |-> last_code_event_id, sample |-> t])
        BY <1>1, SampleResolves DEF StartTickSample
      <4>2. \A s \in Slot :
              \/ record'[s] = record[s]
              \/ record'[s] = [order |-> last_code_event_id, sample |-> t]
        BY <3>2 DEF BaseInv, TypeOK
      <4> QED
        BY <1>0, <4>1, <4>2
    <3> QED
      BY <1>1, <3>1, <3>2 DEF StartTickSample
  <2> QED
    BY <1>0, <1>1, <2>1, HistSamples DEF StartTickSample
<1>2. CASE FinishTickSample
  BY <1>0, <1>2, HistSamples DEF FinishTickSample
<1> QED
  BY <1>1, <1>2 DEF SignalHandler

(* A sample whose order is that of the last event processed is resolved on   *)
(* the processor's map.                                                      *)
LEMMA RecordedRightly ==
  ASSUME BaseInv, HistInv, NEW H, Hist(H), NEW r \in Record, Resolved(H, r),
         r.order = last_processed, RecordTickSample(r.sample)
  PROVE  attributed'
<1>1. r.order \in Nat /\ r.order >= last_processed /\ H[r.order] = code_map
  BY DEF Record, Hist, Replay
<1> QED
  BY <1>1 DEF RecordTickSample, Resolved, HistInv

(* UpdateCodeMap brings the processor's map to the next one of the history. *)
LEMMA HistProcessEvent ==
  ASSUME BaseInv, HistInv, ProcessCodeEvent, events_buffer # <<>>
  PROVE  HistInv'
<1> PICK H : Hist(H)
  BY DEF HistInv
<1>1. /\ code_map' = UpdateCodeMap(code_map, Head(events_buffer))
      /\ last_processed' = Head(events_buffer).order
      /\ events_buffer' = Tail(events_buffer)
      /\ UNCHANGED <<vm, event, live, toLog, is_profiling, last_code_event_id,
                     ticks_from_vm_buffer, record, attributed>>
  BY DEF ProcessCodeEvent, UnchangedByProcessor, heapVars, slotVars
<1> DEFINE L == Len(events_buffer)
<1>2. events_buffer \in Seq(Event) /\ last_processed \in Nat
  BY DEF BaseInv, TypeOK
<1>3. /\ L \in Nat /\ L > 0 /\ Len(events_buffer') = L - 1
      /\ Head(events_buffer) = events_buffer[1]
      /\ \A i \in 1 .. L - 1 : events_buffer'[i] = events_buffer[i + 1]
  BY <1>1, <1>2, PopSeq
<1>4. \A i \in 1..L :
        /\ events_buffer[i].order = last_processed + i
        /\ H[last_processed + i] =
             UpdateCodeMap(H[last_processed + i - 1], events_buffer[i])
  BY DEF Hist, Replay
<1>5. last_processed' = last_processed + 1 /\ H[last_processed'] = code_map'
  <2>1. 1 \in 1..L /\ last_processed + 1 - 1 = last_processed
    BY <1>2, <1>3
  <2>2. H[last_processed] = code_map
    BY DEF Hist, Replay
  <2> QED
    BY <1>1, <1>3, <1>4, <2>1, <2>2
<1>6. ASSUME NEW i \in 1 .. L - 1
      PROVE  /\ events_buffer'[i].order = last_processed' + i
             /\ H[last_processed' + i] =
                  UpdateCodeMap(H[last_processed' + i - 1], events_buffer'[i])
  <2>1. /\ i + 1 \in 1..L /\ last_processed + (i + 1) = last_processed' + i
        /\ last_processed + (i + 1) - 1 = last_processed' + i - 1
    BY <1>2, <1>3, <1>5
  <2> QED
    BY <1>3, <1>4, <2>1
<1>7. Replay(H)'
  <2>1. /\ last_processed' + (L - 1) = last_processed + L
    BY <1>2, <1>3, <1>5
  <2>2. /\ vm # "put" => last_code_event_id = last_processed + L
        /\ vm = "put" =>
             /\ last_code_event_id = last_processed + L + 1
             /\ event.order = last_code_event_id
             /\ H[last_code_event_id] =
                  UpdateCodeMap(H[last_code_event_id - 1], event)
    BY DEF Hist, Replay
  <2> QED
    BY <1>1, <1>3, <1>5, <1>6, <2>1, <2>2 DEF Replay
<1>8. ASSUME NEW r \in Record, Resolved(H, r) PROVE Resolved(H, r)'
  <2>1. r.order >= last_processed' => r.order >= last_processed
    BY <1>2, <1>5 DEF Record
  <2> QED
    BY <1>1, <1>8, <2>1 DEF Resolved
<1>9. Samples(H)'
  <2>1. \A s \in Slot : record[s] \in Record
    BY DEF BaseInv, TypeOK
  <2>2. \A i \in 1..Len(ticks_from_vm_buffer) : ticks_from_vm_buffer[i] \in Record
    BY ElementOfSeq DEF BaseInv, TypeOK
  <2> QED
    BY <1>1, <1>8, <2>1, <2>2 DEF Samples, Hist
<1>10. Hist(H)'
  BY <1>1, <1>7, <1>9 DEF Hist
<1> QED
  BY <1>1, <1>10 DEF HistInv

(* The processor thread keeps the history and resolves samples rightly. *)
LEMMA HistProcessor ==
  ASSUME BaseInv, HistInv, Processor \/ Timer
  PROVE  HistInv'
<1> USE DEF heapVars, slotVars
<1> PICK H : Hist(H)
  BY DEF HistInv
<1>0. /\ attributed /\ \A s \in Slot : Resolved(H, record[s])
      /\ \A i \in 1..Len(ticks_from_vm_buffer) : Resolved(H, ticks_from_vm_buffer[i])
  BY DEF HistInv, Hist, Samples
<1>a. UNCHANGED <<vm, event, live, toLog, is_profiling, last_code_event_id>>
  BY BaseProcessor DEF UnchangedByProcessor
<1>1. CASE CheckRunning \/ CheckVmBufferAgain \/ Timer
  BY <1>0, <1>1, <1>a, HistSamples
  DEF CheckRunning, CheckVmBufferAgain, Timer, TimerRunning, DoSample
<1>2. CASE CheckVmBuffer
  <2> DEFINE q == ticks_from_vm_buffer
  <2>1. UNCHANGED <<last_processed, code_map, events_buffer, record>>
    BY <1>2 DEF CheckVmBuffer
  <2>2. CASE q # <<>> /\ Head(q).order = last_processed
    <3>1. RecordTickSample(Head(q).sample) /\ q' = Tail(q)
      BY <1>2, <2>2 DEF CheckVmBuffer
    <3>2. q \in Seq(Record)
      BY DEF BaseInv, TypeOK
    <3>3. /\ Head(q) = q[1] /\ Head(q) \in Record /\ Len(q) \in Nat /\ Len(q) > 0
          /\ Len(q') = Len(q) - 1
          /\ \A i \in 1 .. Len(q) - 1 : q'[i] = q[i + 1]
      BY <2>2, <3>1, <3>2, PopSeq
    <3>4. Resolved(H, Head(q)) /\ \A i \in 1..Len(q') : Resolved(H, q'[i])
      BY <1>0, <3>3
    <3>5. attributed'
      BY <2>2, <3>1, <3>3, <3>4, RecordedRightly
    <3> QED
      BY <1>0, <1>a, <2>1, <3>4, <3>5, HistSamples
  <2>3. CASE ~(q # <<>> /\ Head(q).order = last_processed)
    <3>1. UNCHANGED <<ticks_from_vm_buffer, attributed>>
      BY <1>2, <2>3 DEF CheckVmBuffer
    <3> QED
      BY <1>0, <1>a, <2>1, <3>1, HistSamples
  <2> QED
    BY <2>2, <2>3
<1>3. CASE CheckRing
  <2>1. UNCHANGED <<last_processed, code_map, events_buffer, record,
                    ticks_from_vm_buffer>>
    BY <1>3 DEF CheckRing
  <2>2. attributed'
    <3>1. CASE attributed' = attributed
      BY <1>0, <3>1
    <3>2. CASE /\ record[dequeue_pos].order = last_processed
               /\ RecordTickSample(record[dequeue_pos].sample)
      <4>1. record[dequeue_pos] \in Record /\ dequeue_pos \in Slot
        BY DEF BaseInv, TypeOK
      <4> QED
        BY <1>0, <3>2, <4>1, RecordedRightly
    <3> QED
      BY <1>3, <3>1, <3>2 DEF CheckRing
  <2> QED
    BY <1>0, <1>a, <2>1, <2>2, HistSamples
<1>4. CASE Remove
  <2>1. /\ record' = [record EXCEPT ![dequeue_pos] = NoRecord]
        /\ UNCHANGED <<last_processed, code_map, events_buffer,
                       ticks_from_vm_buffer, attributed>>
    BY <1>4 DEF Remove
  <2>2. Resolved(H, NoRecord)
    <3>1. /\ NoRecord.order = 0 /\ NoRecord.sample = NoSample
          /\ last_code_event_id \in Nat /\ H[0] \in SUBSET CodeObject
      BY DEF NoRecord, BaseInv, TypeOK, Hist
    <3> QED
      BY <3>1, FindNothing DEF Resolved
  <2>3. \A s \in Slot : record'[s] = record[s] \/ record'[s] = NoRecord
    BY <2>1 DEF BaseInv, TypeOK
  <2> QED
    BY <1>0, <1>a, <2>1, <2>2, <2>3, HistSamples
<1>5. CASE ProcessCodeEvent /\ events_buffer = <<>>
  BY <1>0, <1>5, <1>a, HistSamples DEF ProcessCodeEvent
<1> QED
  BY <1>1, <1>2, <1>3, <1>4, <1>5, HistProcessEvent DEF Processor

(* The history exists throughout. *)
LEMMA HistInductive == Spec => []HistInv
<1>1. Init => HistInv
  BY HistFresh DEF Init, Fresh, HistInv
<1>2. BaseInv /\ HistInv /\ [Next]_vars => HistInv'
  <2>1. ASSUME HistInv, UNCHANGED vars PROVE HistInv'
    BY <2>1, HistSame DEF vars, heapVars, bufferVars, slotVars, ringVars,
                          procVars, histVars
  <2> QED
    BY <2>1, HistVm, HistSignal, HistProcessor DEF Next
<1> QED
  BY <1>1, <1>2, BaseInductive, PTL DEF Spec

(* ProcessOneSample compares the order of a sample with the last event       *)
(* processed.  That is enough: every sample that passes is resolved to the   *)
(* code object that was running when it was taken, whatever was created,     *)
(* moved or overwritten since.                                               *)
THEOREM SamplesFindTheirCode == Spec => []SampleFindsItsCode
BY HistInductive, PTL DEF HistInv, SampleFindsItsCode

-----------------------------------------------------------------------------
(* The ring: the full slots are a stretch from dequeue_pos_ to enqueue_pos_, *)
(* and the samples in it were taken in that order.                           *)

(* The slot d places after slot p. *)
Pos(p, d) == IF p + d < QueueLength THEN p + d ELSE p + d - QueueLength

(* The samples of the stretch, with the one the handler is writing. *)
Pending(k) == IF sig = "finish" THEN k + 1 ELSE k
Order(d) == record[Pos(dequeue_pos, d)].order

Ring(k) ==
  /\ k \in 0..QueueLength
  /\ enqueue_pos = Pos(dequeue_pos, k)
  /\ \A d \in Slot : marker[Pos(dequeue_pos, d)] = "full" <=> d < k
  /\ sig = "finish" => k < QueueLength
  /\ \A d, e \in Slot : d <= e /\ e < Pending(k) => Order(d) <= Order(e)
  /\ proc = "remove" => k > 0
  /\ draining /\ proc = "vm_again" => k = 0

(* No sample is behind the code map, none is level with it when the next     *)
(* code event is about to be taken, and the stack that StartProcessor added  *)
(* is older than the samples of the ring.                                    *)
InStep(k) ==
  ~stackAdded =>
    /\ \A d \in Slot : d < Pending(k) =>
         /\ Order(d) >= last_processed /\ Order(d) <= last_code_event_id
         /\ proc = "event" => Order(d) > last_processed
         /\ ticks_from_vm_buffer # <<>> => Order(d) >= ticks_from_vm_buffer[1].order
    /\ Len(ticks_from_vm_buffer) <= 1
    /\ ticks_from_vm_buffer # <<>> =>
         /\ ticks_from_vm_buffer[1].order >= last_processed
         /\ ticks_from_vm_buffer[1].order <= last_code_event_id
         /\ proc \in {"ring", "vm_again", "event"} =>
              ticks_from_vm_buffer[1].order > last_processed
    /\ proc = "event" => draining \/ last_code_event_id > last_processed

RingInv == \E k : Ring(k) /\ InStep(k)

(* Going round the ring. *)
LEMMA Around ==
  ASSUME NEW p \in Slot
  PROVE  /\ \A d \in 0..QueueLength : Pos(p, d) \in Slot
         /\ Pos(p, 0) = p /\ Pos(p, QueueLength) = p
         /\ \A d, e \in Slot : Pos(p, d) = Pos(p, e) => d = e
         /\ \A d \in Slot : /\ d + 1 \in 0..QueueLength /\ d \in 0..QueueLength
                            /\ NextSlot(Pos(p, d)) = Pos(p, d + 1)
                            /\ Pos(NextSlot(p), d) = Pos(p, d + 1)
         /\ \A s \in Slot : \E d \in Slot : Pos(p, d) = s
<1> USE CpuProfilerAssumption DEF Slot, Pos, NextSlot
<1>1. /\ \A d \in 0..QueueLength : Pos(p, d) \in Slot
      /\ Pos(p, 0) = p /\ Pos(p, QueueLength) = p
  OBVIOUS
<1>2. \A d, e \in Slot : Pos(p, d) = Pos(p, e) => d = e
  OBVIOUS
<1>3. \A d \in Slot : /\ d + 1 \in 0..QueueLength /\ d \in 0..QueueLength
                      /\ NextSlot(Pos(p, d)) = Pos(p, d + 1)
                      /\ Pos(NextSlot(p), d) = Pos(p, d + 1)
  OBVIOUS
<1>4. ASSUME NEW s \in Slot PROVE \E d \in Slot : Pos(p, d) = s
  <2>1. CASE s >= p
    <3>1. s - p \in Slot /\ Pos(p, s - p) = s
      BY <2>1
    <3> QED
      BY <3>1
  <2>2. CASE s < p
    <3>1. s - p + QueueLength \in Slot /\ Pos(p, s - p + QueueLength) = s
      BY <2>2
    <3> QED
      BY <3>1
  <2> QED
    BY <2>1, <2>2
<1> HIDE DEF Slot, Pos, NextSlot
<1> QED
  BY <1>1, <1>2, <1>3, <1>4

(* The orders of the ring and of the events are numbers. *)
LEMMA OrderNat ==
  ASSUME TypeOK
  PROVE  /\ \A d \in Slot : Order(d) \in Nat
         /\ \A s \in Slot : record[s].order \in Nat
         /\ last_processed \in Nat /\ last_code_event_id \in Nat
         /\ ticks_from_vm_buffer # <<>> => ticks_from_vm_buffer[1].order \in Nat
<1>1. \A s \in Slot : record[s].order \in Nat
  BY DEF TypeOK, Record
<1>2. \A d \in Slot : Order(d) \in Nat
  BY <1>1, Around DEF TypeOK, Order
<1>3. ticks_from_vm_buffer # <<>> => ticks_from_vm_buffer[1].order \in Nat
  <2>1. ticks_from_vm_buffer # <<>> => ticks_from_vm_buffer[1] \in Record
    BY PopSeq DEF TypeOK
  <2> QED
    BY <2>1 DEF Record
<1> QED
  BY <1>1, <1>2, <1>3 DEF TypeOK

(* The processor is not ahead of the events. *)
LEMMA NotAhead ==
  ASSUME BaseInv, HistInv
  PROVE  last_processed <= last_code_event_id
<1> PICK H : Hist(H)
  BY DEF HistInv
<1>1. Len(events_buffer) \in Nat /\ last_processed \in Nat
  BY LenProperties DEF BaseInv, TypeOK
<1> QED
  BY <1>1 DEF Hist, Replay

(* A step that leaves the ring and the code map alone. *)
LEMMA RingSame ==
  ASSUME BaseInv, NEW k, Ring(k), InStep(k),
         UNCHANGED <<marker, record, enqueue_pos, dequeue_pos, sig,
                     last_processed, stackAdded>>,
         last_code_event_id' \in Nat, last_code_event_id' >= last_code_event_id,
         \/ stackAdded
         \/ ticks_from_vm_buffer' \in {ticks_from_vm_buffer, <<>>},
         proc' = "remove" => k > 0,
         draining' /\ proc' = "vm_again" => k = 0,
         ~stackAdded /\ proc' = "event" =>
           /\ \A d \in Slot : d < Pending(k) => Order(d) > last_processed
           /\ draining' \/ last_code_event_id' > last_processed,
         (/\ ~stackAdded /\ ticks_from_vm_buffer # <<>>
          /\ proc' \in {"ring", "vm_again", "event"})
         => \/ ticks_from_vm_buffer' = <<>>
            \/ ticks_from_vm_buffer[1].order > last_processed
  PROVE  RingInv'
<1>1. /\ \A d \in Slot : Order(d) \in Nat
      /\ last_processed \in Nat /\ last_code_event_id \in Nat
      /\ ticks_from_vm_buffer # <<>> => ticks_from_vm_buffer[1].order \in Nat
  BY OrderNat DEF BaseInv
<1>2. \A d : Order(d)' = Order(d) /\ Pending(k)' = Pending(k)
  BY DEF Order, Pending
<1>3. Ring(k)'
  BY <1>2 DEF Ring
<1>4. InStep(k)'
  <2> SUFFICES ASSUME ~stackAdded
               PROVE  InStep(k)'
    BY DEF InStep
  <2>1. /\ ticks_from_vm_buffer' \in {ticks_from_vm_buffer, <<>>}
        /\ Len(ticks_from_vm_buffer') <= 1
    BY DEF InStep
  <2>2. \A d \in Slot : d < Pending(k) =>
          /\ Order(d) >= last_processed /\ Order(d) <= last_code_event_id'
          /\ proc' = "event" => Order(d) > last_processed
          /\ ticks_from_vm_buffer' # <<>> =>
               Order(d) >= ticks_from_vm_buffer'[1].order
    BY <1>1, <2>1 DEF InStep
  <2>3. ticks_from_vm_buffer' # <<>> =>
          /\ ticks_from_vm_buffer'[1].order >= last_processed
          /\ ticks_from_vm_buffer'[1].order <= last_code_event_id'
          /\ proc' \in {"ring", "vm_again", "event"} =>
               ticks_from_vm_buffer'[1].order > last_processed
    BY <1>1, <2>1 DEF InStep
  <2> QED
    BY <1>2, <2>1, <2>2, <2>3 DEF InStep
<1> QED
  BY <1>3, <1>4 DEF RingInv

(* An empty ring. *)
LEMMA RingEmpty ==
  ASSUME BaseInv, marker = [s \in Slot |-> "empty"], dequeue_pos = 0,
         enqueue_pos = 0, sig = "none", proc = "none"
  PROVE  Ring(0)
<1>1. /\ dequeue_pos \in Slot /\ 0 \in 0..QueueLength
      /\ \A d \in Slot : ~(d < 0)
  BY CpuProfilerAssumption DEF Slot
<1>2. /\ Pos(dequeue_pos, 0) = dequeue_pos
      /\ \A d \in Slot : Pos(dequeue_pos, d) \in Slot
  BY <1>1, Around
<1> QED
  BY <1>1, <1>2 DEF Ring, Pending

(* With no processor there are no samples. *)
LEMMA RingNone == BaseInv /\ proc = "none" => RingInv
<1> SUFFICES ASSUME BaseInv, proc = "none" PROVE RingInv
  OBVIOUS
<1>1. /\ marker = [s \in Slot |-> "empty"] /\ dequeue_pos = 0 /\ enqueue_pos = 0
      /\ sig = "none" /\ ticks_from_vm_buffer = <<>>
  BY DEF BaseInv, PhaseInv, TypeOK
<1>2. Ring(0)
  BY <1>1, RingEmpty
<1>3. \A d \in Slot : ~(d < Pending(0))
  BY <1>1 DEF Slot, Pending
<1>4. InStep(0)
  BY <1>1, <1>3 DEF InStep
<1> QED
  BY <1>2, <1>4 DEF RingInv

(* The same after a step. *)
LEMMA RingNoneNext == BaseInv' /\ (proc = "none")' => RingInv'
BY RingNone, PTL

(* The VM thread never touches the ring; the stack it adds to begin with is  *)
(* the oldest sample.                                                        *)
LEMMA RingVm ==
  ASSUME BaseInv, BaseInv', HistInv, RingInv, VmThread
  PROVE  RingInv'
<1> USE DEF heapVars, bufferVars, slotVars, ringVars, procVars, histVars, VmAt
<1> PICK k : Ring(k) /\ InStep(k)
  BY DEF RingInv
<1>0. /\ last_code_event_id \in Nat /\ last_processed \in Nat
      /\ last_processed <= last_code_event_id
  BY NotAhead DEF BaseInv, TypeOK
<1>1. CASE StartProcessor
  <2> PICK s \in StackSample : AddCurrentStack(s)
    BY <1>1 DEF StartProcessor
  <2>1. /\ proc = "none" /\ proc' = "check"
        /\ UNCHANGED <<marker, record, enqueue_pos, dequeue_pos, sig, stackAdded,
                       last_processed, last_code_event_id, draining>>
    BY <1>1 DEF StartProcessor, BaseInv, PhaseInv
  <2>2. /\ marker = [i \in Slot |-> "empty"] /\ dequeue_pos = 0 /\ enqueue_pos = 0
        /\ sig = "none" /\ ticks_from_vm_buffer = <<>>
    BY <2>1 DEF BaseInv, PhaseInv, TypeOK
  <2> DEFINE r == [order |-> last_code_event_id, sample |-> s]
  <2>3. Len(ticks_from_vm_buffer') = 1 /\ ticks_from_vm_buffer'[1] = r
    BY <2>2 DEF AddCurrentStack
  <2>4. r.order = last_code_event_id
    OBVIOUS
  <2>5. Ring(0)
    BY <2>1, <2>2, RingEmpty
  <2>6. Ring(0)'
    BY <2>1, <2>5 DEF Ring, Pending, Order
  <2>7. \A d \in Slot : ~(d < Pending(0)')
    BY <2>1, <2>2 DEF Slot, Pending
  <2> HIDE DEF r
  <2>8. InStep(0)'
    BY <1>0, <2>1, <2>3, <2>4, <2>7 DEF InStep
  <2> QED
    BY <2>6, <2>8 DEF RingInv
<1>2. CASE StartProfilingAgain
  <2>1. /\ stackAdded'
        /\ UNCHANGED <<marker, record, enqueue_pos, dequeue_pos, sig, proc, draining>>
    BY <1>2 DEF StartProfilingAgain
  <2>2. Ring(k)' /\ InStep(k)'
    BY <2>1 DEF Ring, InStep, Pending, Order
  <2> QED
    BY <2>2 DEF RingInv
<1>3. CASE Joined
  <2>1. proc' = "none"
    BY <1>3 DEF Joined
  <2> QED
    BY <2>1, RingNoneNext
<1>4. CASE ~StartProcessor /\ ~StartProfilingAgain /\ ~Joined
  <2>1. /\ UNCHANGED <<marker, record, enqueue_pos, dequeue_pos, sig,
                       last_processed, stackAdded, ticks_from_vm_buffer,
                       proc, draining>>
    BY <1>4 DEF VmThread, EnqueueEnd, CodeDisableOptEvent, StopProcessor,
       CodeCreateEvent, CodeMoveEvent, LogCodeObject, StartProfiling
  <2>2. \/ last_code_event_id' = last_code_event_id
        \/ last_code_event_id' = last_code_event_id + 1
    BY <1>4 DEF VmThread, EnqueueEnd, CodeDisableOptEvent, StopProcessor,
       CodeCreateEvent, CodeMoveEvent, LogCodeObject, StartProfiling,
       LogEvent, EnqueueBegin
  <2>3. last_code_event_id' \in Nat /\ last_code_event_id' >= last_code_event_id
    BY <1>0, <2>2
  <2>4. /\ proc = "remove" => k > 0
        /\ draining /\ proc = "vm_again" => k = 0
    BY DEF Ring
  <2>5. ~stackAdded /\ proc = "event" =>
           /\ \A d \in Slot : d < Pending(k) => Order(d) > last_processed
           /\ draining \/ last_code_event_id' > last_processed
    BY <1>0, <2>3 DEF InStep
  <2>6. (/\ ~stackAdded /\ ticks_from_vm_buffer # <<>>
         /\ proc \in {"ring", "vm_again", "event"})
        => ticks_from_vm_buffer[1].order > last_processed
    BY DEF InStep
  <2> QED
    BY <2>1, <2>3, <2>4, <2>5, <2>6, RingSame
<1> QED
  BY <1>1, <1>2, <1>3, <1>4

(* SampleStack takes the slot after the stretch, which is empty, and joins   *)
(* it to the stretch when it is written.                                     *)
LEMMA RingSignal ==
  ASSUME BaseInv, HistInv, RingInv, SignalHandler
  PROVE  RingInv'
<1> USE DEF heapVars, bufferVars, slotVars, procVars, histVars
<1> PICK k : Ring(k) /\ InStep(k)
  BY DEF RingInv
<1> DEFINE p == dequeue_pos
<1>0. /\ last_code_event_id \in Nat /\ last_processed \in Nat
      /\ last_processed <= last_code_event_id
      /\ p \in Slot /\ k \in 0..QueueLength /\ enqueue_pos = Pos(p, k)
      /\ enqueue_pos \in Slot /\ QueueLength \in Nat \ {0}
  BY NotAhead, CpuProfilerAssumption DEF BaseInv, TypeOK, Ring
<1>1. \A d \in Slot : Order(d) \in Nat
  BY OrderNat DEF BaseInv
<1>2. CASE StartTickSample
  <2>1. CASE marker[enqueue_pos] # "empty"
    <3>1. UNCHANGED <<marker, record, enqueue_pos, dequeue_pos, sig,
                      last_processed, last_code_event_id, stackAdded,
                      ticks_from_vm_buffer, proc, draining>>
      BY <1>2, <2>1 DEF StartTickSample
    <3>2. Ring(k)' /\ InStep(k)'
      BY <3>1 DEF Ring, InStep, Pending, Order
    <3> QED
      BY <3>2 DEF RingInv
  <2>2. CASE marker[enqueue_pos] = "empty"
    <3>1. k \in Slot /\ sig = "none" /\ is_profiling /\ sig' = "finish"
      <4>1. k # QueueLength
        <5>1. 0 \in Slot /\ Pos(p, QueueLength) = Pos(p, 0)
          BY <1>0, Around, Shapes
        <5>2. marker[Pos(p, 0)] = "full" <=> 0 < k
          BY <5>1 DEF Ring
        <5> QED
          BY <1>0, <2>2, <5>1, <5>2
      <4> QED
        BY <1>0, <1>2, <2>2, <4>1 DEF Slot, StartTickSample
    <3> PICK s \in StackSample :
               record' = [record EXCEPT ![enqueue_pos] =
                            [order |-> last_code_event_id, sample |-> s]]
      BY <1>2, <2>2 DEF StartTickSample
    <3>2. UNCHANGED <<marker, enqueue_pos, dequeue_pos, last_processed,
                      last_code_event_id, stackAdded, ticks_from_vm_buffer,
                      proc, draining>>
      BY <1>2 DEF StartTickSample
    <3>3. ~draining
      BY <3>1 DEF BaseInv, PhaseInv
    <3>4. \A d \in Slot : Pos(p, d) \in Slot /\ (Pos(p, d) = Pos(p, k) => d = k)
      BY <1>0, <3>1, Around
    <3>5. /\ Order(k)' = last_code_event_id
          /\ \A d \in Slot : d # k => Order(d)' = Order(d)
      BY <1>0, <3>1, <3>2, <3>4 DEF Order, BaseInv, TypeOK
    <3>6. Pending(k)' = k + 1 /\ Pending(k) = k
      BY <3>1 DEF Pending
    <3>7. \A d \in Slot : d < k + 1 => d = k \/ d < k
      BY <3>1 DEF Slot
    <3>8. \A d \in Slot : d < k =>
            Order(d) <= last_code_event_id
      <4>1. PICK H : Hist(H)
        BY DEF HistInv
      <4>2. \A i \in Slot : record[i].order <= last_code_event_id
        BY <4>1 DEF Hist, Samples, Resolved
      <4> QED
        BY <3>4, <4>2 DEF Order
    <3>9. \A d, e \in Slot : d <= e /\ e < k + 1 => Order(d)' <= Order(e)'
      <4> SUFFICES ASSUME NEW d \in Slot, NEW e \in Slot, d <= e, e < k + 1
                   PROVE  Order(d)' <= Order(e)'
        OBVIOUS
      <4>1. CASE e < k
        <5>1. d # k /\ e # k
          BY <1>0, <4>1 DEF Slot
        <5> QED
          BY <3>5, <3>6, <4>1, <5>1 DEF Ring
      <4>2. CASE e = k
        BY <1>0, <3>1, <3>5, <3>8, <4>2 DEF Slot
      <4> QED
        BY <3>7, <4>1, <4>2
    <3>10. Ring(k)'
      <4>1. k < QueueLength
        BY <1>0, <3>1 DEF Slot
      <4>2. /\ \A d \in Slot : marker[Pos(p, d)] = "full" <=> d < k
            /\ proc = "remove" => k > 0
        BY DEF Ring
      <4> QED
        BY <1>0, <3>2, <3>3, <3>6, <3>9, <4>1, <4>2 DEF Ring
    <3>11. InStep(k)'
      <4> SUFFICES ASSUME ~stackAdded PROVE InStep(k)'
        BY <3>2 DEF InStep
      <4>1. ASSUME NEW d \in Slot, d < k + 1
            PROVE  /\ Order(d)' >= last_processed /\ Order(d)' <= last_code_event_id
                   /\ proc = "event" => Order(d)' > last_processed
                   /\ ticks_from_vm_buffer # <<>> =>
                        Order(d)' >= ticks_from_vm_buffer[1].order
        <5>1. CASE d = k
          BY <1>0, <3>3, <3>5, <5>1 DEF InStep
        <5>2. CASE d < k
          <6>1. Order(d)' = Order(d)
            BY <1>0, <3>5, <5>2 DEF Slot
          <6> QED
            BY <3>6, <5>2, <6>1 DEF InStep
        <5> QED
          BY <3>7, <4>1, <5>1, <5>2
      <4> QED
        BY <3>2, <3>6, <4>1 DEF InStep
    <3> QED
      BY <3>10, <3>11 DEF RingInv
  <2> QED
    BY <2>1, <2>2
<1>3. CASE FinishTickSample
  <2>1. /\ sig = "finish" /\ sig' = "none"
        /\ marker' = [marker EXCEPT ![enqueue_pos] = "full"]
        /\ enqueue_pos' = NextSlot(enqueue_pos)
        /\ UNCHANGED <<record, dequeue_pos, last_processed,
                       last_code_event_id, stackAdded, ticks_from_vm_buffer,
                       proc, draining, is_profiling>>
    BY <1>3 DEF FinishTickSample
  <2>2. k \in Slot /\ is_profiling /\ ~draining
    BY <1>0, <2>1 DEF Ring, Slot, BaseInv, PhaseInv
  <2>3. /\ Pending(k + 1)' = k + 1 /\ Pending(k) = k + 1
        /\ \A d : Order(d)' = Order(d)
    BY <2>1 DEF Pending, Order
  <2>4. /\ \A d \in Slot : Pos(p, d) \in Slot /\ (Pos(p, d) = Pos(p, k) => d = k)
        /\ NextSlot(Pos(p, k)) = Pos(p, k + 1) /\ k + 1 \in 0..QueueLength
    <3>1. \A d \in Slot : Pos(p, d) \in Slot
      BY <1>0, Around
    <3>2. \A d \in Slot : Pos(p, d) = Pos(p, k) => d = k
      BY <1>0, <2>2, Around
    <3>3. NextSlot(Pos(p, k)) = Pos(p, k + 1) /\ k + 1 \in 0..QueueLength
      BY <1>0, <2>2, Around
    <3> QED
      BY <3>1, <3>2, <3>3
  <2>5. \A d \in Slot : marker'[Pos(p, d)] = "full" <=> d < k + 1
    <3> SUFFICES ASSUME NEW d \in Slot
                 PROVE  marker'[Pos(p, d)] = "full" <=> d < k + 1
      OBVIOUS
    <3>1. CASE d = k
      <4>1. marker'[Pos(p, d)] = "full"
        BY <1>0, <2>1, <3>1 DEF BaseInv, TypeOK
      <4> QED
        BY <2>2, <3>1, <4>1 DEF Slot
    <3>2. CASE d # k
      <4>1. marker'[Pos(p, d)] = marker[Pos(p, d)]
        BY <1>0, <2>1, <2>4, <3>2 DEF BaseInv, TypeOK
      <4>2. d < k + 1 <=> d < k
        BY <2>2, <3>2 DEF Slot
      <4> QED
        BY <4>1, <4>2 DEF Ring
    <3> QED
      BY <3>1, <3>2
  <2>6. Ring(k + 1)'
    <3>1. k + 1 > 0
      BY <2>2 DEF Slot
    <3> QED
      BY <1>0, <2>1, <2>2, <2>3, <2>4, <2>5, <3>1 DEF Ring
  <2>7. InStep(k + 1)'
    BY <2>1, <2>3 DEF InStep
  <2> QED
    BY <2>6, <2>7 DEF RingInv
<1> QED
  BY <1>2, <1>3 DEF SignalHandler

(* The next event is the one after the last that was processed. *)
LEMMA NextEvent ==
  ASSUME BaseInv, HistInv, events_buffer # <<>>
  PROVE  Head(events_buffer).order = last_processed + 1
<1> PICK H : Hist(H)
  BY DEF HistInv
<1>1. /\ Head(events_buffer) = events_buffer[1]
      /\ Len(events_buffer) \in Nat /\ Len(events_buffer) > 0
  BY PopSeq DEF BaseInv, TypeOK
<1>2. 1 \in 1..Len(events_buffer)
  BY <1>1
<1> QED
  BY <1>1, <1>2 DEF Hist, Replay

(* A code event is taken only when no sample needs the present code map. *)
LEMMA RingEvent ==
  ASSUME BaseInv, HistInv, RingInv, ProcessCodeEvent
  PROVE  RingInv'
<1> PICK k : Ring(k) /\ InStep(k)
  BY DEF RingInv
<1>1. /\ proc = "event" /\ proc' \in {"vm", "timer", "done"}
      /\ UNCHANGED <<marker, record, enqueue_pos, dequeue_pos, sig, stackAdded,
                     last_code_event_id, ticks_from_vm_buffer, draining>>
  BY DEF ProcessCodeEvent, UnchangedByProcessor, AfterSample, slotVars
<1>2. \/ last_processed' = last_processed
      \/ last_processed' = last_processed + 1
  BY NextEvent DEF ProcessCodeEvent
<1>3. /\ \A d \in Slot : Order(d) \in Nat
      /\ last_processed \in Nat /\ last_code_event_id \in Nat
      /\ ticks_from_vm_buffer # <<>> => ticks_from_vm_buffer[1].order \in Nat
  BY OrderNat DEF BaseInv
<1>4. \A d : Order(d)' = Order(d) /\ Pending(k)' = Pending(k)
  BY <1>1 DEF Order, Pending
<1>5. Ring(k)'
  BY <1>1, <1>4 DEF Ring
<1>6. InStep(k)'
  <2> SUFFICES ASSUME ~stackAdded PROVE InStep(k)'
    BY <1>1 DEF InStep
  <2>1. \A d \in Slot : d < Pending(k) =>
          /\ Order(d) >= last_processed' /\ Order(d) <= last_code_event_id
          /\ ticks_from_vm_buffer # <<>> =>
               Order(d) >= ticks_from_vm_buffer[1].order
    BY <1>1, <1>2, <1>3 DEF InStep
  <2>2. ticks_from_vm_buffer # <<>> =>
          /\ ticks_from_vm_buffer[1].order >= last_processed'
          /\ ticks_from_vm_buffer[1].order <= last_code_event_id
    BY <1>1, <1>2, <1>3 DEF InStep
  <2>3. Len(ticks_from_vm_buffer) <= 1
    BY DEF InStep
  <2> QED
    BY <1>1, <1>4, <2>1, <2>2, <2>3 DEF InStep
<1> QED
  BY <1>5, <1>6 DEF RingInv

(* Remove frees the first slot of the stretch. *)
LEMMA RingRemove ==
  ASSUME BaseInv, RingInv, Remove
  PROVE  RingInv'
<1> PICK k : Ring(k) /\ InStep(k)
  BY DEF RingInv
<1> DEFINE p == dequeue_pos
<1>1. /\ proc = "remove" /\ proc' \in {"vm", "timer"}
      /\ marker' = [marker EXCEPT ![p] = "empty"]
      /\ record' = [record EXCEPT ![p] = NoRecord]
      /\ dequeue_pos' = NextSlot(p)
      /\ UNCHANGED <<enqueue_pos, sig, stackAdded, last_processed,
                     last_code_event_id, ticks_from_vm_buffer, draining>>
  BY DEF Remove, UnchangedByProcessor, AfterSample
<1>2. /\ k \in 0..QueueLength /\ k > 0 /\ p \in Slot /\ QueueLength \in Nat
      /\ 0 \in Slot /\ k - 1 \in Slot /\ k - 1 \in 0..QueueLength
  BY <1>1, CpuProfilerAssumption DEF Ring, BaseInv, TypeOK, Slot
<1>3. /\ Pos(p, 0) = p /\ \A d \in Slot : Pos(p, d) \in Slot
      /\ \A d \in Slot : Pos(p, d) = p => d = 0
  <2>1. Pos(p, 0) = p /\ \A d \in Slot : d \in 0..QueueLength
    BY <1>2, Around DEF Slot
  <2>2. \A d \in Slot : Pos(p, d) \in Slot
    BY <1>2, <2>1, Around
  <2>3. \A d \in Slot : Pos(p, d) = Pos(p, 0) => d = 0
    BY <1>2, Around
  <2> QED
    BY <2>1, <2>2, <2>3
<1>4. \A d \in Slot : Pos(dequeue_pos', d) = Pos(p, d + 1)
  BY <1>1, <1>2, Around
<1>5. enqueue_pos = Pos(dequeue_pos', k - 1)
  <2>1. Pos(dequeue_pos', k - 1) = Pos(p, k - 1 + 1)
    BY <1>2, <1>4
  <2>2. k - 1 + 1 = k
    BY <1>2
  <2> QED
    BY <2>1, <2>2 DEF Ring
<1>6. ASSUME NEW d \in Slot, d + 1 \in Slot
      PROVE  /\ Order(d)' = Order(d + 1)
             /\ marker'[Pos(dequeue_pos', d)] = marker[Pos(p, d + 1)]
  <2>1. d + 1 # 0
    BY <1>6 DEF Slot
  <2>2. Pos(p, d + 1) # p /\ Pos(p, d + 1) \in Slot
    BY <1>3, <1>6, <2>1
  <2> QED
    BY <1>1, <1>4, <2>2 DEF Order, BaseInv, TypeOK
<1>7. ASSUME NEW d \in Slot, ~(d + 1 \in Slot)
      PROVE  /\ marker'[Pos(dequeue_pos', d)] = "empty"
             /\ d + 1 = QueueLength
  <2>1. d + 1 = QueueLength
    BY <1>2, <1>7 DEF Slot
  <2>2. Pos(p, d + 1) = p
    BY <1>2, <2>1, Around
  <2> QED
    BY <1>1, <1>2, <1>4, <2>1, <2>2 DEF BaseInv, TypeOK
<1>8. \A d \in Slot : marker'[Pos(dequeue_pos', d)] = "full" <=> d < k - 1
  <2> SUFFICES ASSUME NEW d \in Slot
               PROVE  marker'[Pos(dequeue_pos', d)] = "full" <=> d < k - 1
    OBVIOUS
  <2>1. CASE d + 1 \in Slot
    <3>1. marker[Pos(p, d + 1)] = "full" <=> d + 1 < k
      BY <2>1 DEF Ring
    <3>2. d + 1 < k <=> d < k - 1
      BY <1>2 DEF Slot
    <3> QED
      BY <1>6, <2>1, <3>1, <3>2
  <2>2. CASE ~(d + 1 \in Slot)
    <3>1. ~(d < k - 1)
      BY <1>2, <1>7, <2>2 DEF Slot
    <3> QED
      BY <1>7, <2>2, <3>1
  <2> QED
    BY <2>1, <2>2
<1>9. Pending(k - 1)' = Pending(k) - 1 /\ Pending(k) \in Nat /\ Pending(k) <= QueueLength
  BY <1>1, <1>2 DEF Pending, Ring
<1>10. \A d \in Slot : d < Pending(k - 1)' =>
         /\ d + 1 \in Slot /\ d + 1 < Pending(k) /\ Order(d)' = Order(d + 1)
  <2>1. \A d \in Slot : d < Pending(k - 1)' => d + 1 \in Slot /\ d + 1 < Pending(k)
    BY <1>2, <1>9 DEF Slot
  <2> QED
    BY <1>6, <2>1
<1>11. Ring(k - 1)'
  <2>1. ASSUME NEW d \in Slot, NEW e \in Slot, d <= e, e < Pending(k - 1)'
        PROVE  Order(d)' <= Order(e)'
    <3>1. d < Pending(k - 1)' /\ d + 1 <= e + 1
      BY <1>9, <2>1 DEF Slot
    <3> QED
      BY <1>10, <2>1, <3>1 DEF Ring
  <2>2. sig = "finish" => k - 1 < QueueLength
    BY <1>2 DEF Slot
  <2> QED
    BY <1>1, <1>2, <1>5, <1>8, <2>1, <2>2 DEF Ring
<1>12. InStep(k - 1)'
  <2> SUFFICES ASSUME ~stackAdded PROVE InStep(k - 1)'
    BY <1>1 DEF InStep
  <2>1. \A d \in Slot : d < Pending(k - 1)' =>
          /\ Order(d)' >= last_processed /\ Order(d)' <= last_code_event_id
          /\ ticks_from_vm_buffer # <<>> =>
               Order(d)' >= ticks_from_vm_buffer[1].order
    BY <1>10 DEF InStep
  <2>2. /\ Len(ticks_from_vm_buffer) <= 1
        /\ ticks_from_vm_buffer # <<>> =>
             /\ ticks_from_vm_buffer[1].order >= last_processed
             /\ ticks_from_vm_buffer[1].order <= last_code_event_id
    BY DEF InStep
  <2> QED
    BY <1>1, <2>1, <2>2 DEF InStep
<1> QED
  BY <1>11, <1>12 DEF RingInv

(* The thread's looks at the two buffers. *)
LEMMA RingLooks ==
  ASSUME BaseInv, HistInv, RingInv,
         CheckRunning \/ CheckVmBuffer \/ CheckRing \/ CheckVmBufferAgain \/ Timer
  PROVE  RingInv'
<1> USE DEF UnchangedByProcessor, slotVars, AfterSample
<1> PICK k : Ring(k) /\ InStep(k)
  BY DEF RingInv
<1> DEFINE q == ticks_from_vm_buffer
<1>0. /\ UNCHANGED <<marker, record, enqueue_pos, dequeue_pos, sig,
                     last_processed, stackAdded, last_code_event_id>>
      /\ last_code_event_id \in Nat /\ last_code_event_id >= last_code_event_id
      /\ last_processed \in Nat
  BY DEF CheckRunning, CheckVmBuffer, CheckRing, CheckVmBufferAgain, Timer,
         TimerRunning, DoSample, BaseInv, TypeOK
<1>1. /\ \A d \in Slot : Order(d) \in Nat
      /\ q # <<>> => q[1].order \in Nat
      /\ 0 \in Slot /\ Pos(dequeue_pos, 0) = dequeue_pos
      /\ k \in 0..QueueLength
  <2>1. 0 \in Slot /\ dequeue_pos \in Slot
    BY CpuProfilerAssumption DEF Slot, BaseInv, TypeOK
  <2> QED
    BY <2>1, OrderNat, Around DEF BaseInv, Ring
<1>2. CASE CheckRunning \/ Timer
  <2>1. proc' \in {"vm", "check"} /\ q' = q
    BY <1>2 DEF CheckRunning, Timer, TimerRunning, DoSample
  <2> QED
    BY <1>0, <2>1, RingSame
<1>3. CASE CheckVmBuffer
  <2>1. CASE q # <<>> /\ Head(q).order = last_processed
    <3>1. q' = Tail(q) /\ proc' \in {"vm", "timer"}
      BY <1>3, <2>1 DEF CheckVmBuffer
    <3>2. stackAdded \/ Tail(q) = <<>>
      <4>1. Tail(q) \in Seq(Record) /\ Len(Tail(q)) = Len(q) - 1 /\ Len(q) > 0
            /\ Len(q) \in Nat
        BY <2>1, PopSeq DEF BaseInv, TypeOK
      <4>2. CASE ~stackAdded
        <5>1. Len(Tail(q)) = 0
          BY <4>1, <4>2 DEF InStep
        <5> QED
          BY <4>1, <5>1, EmptySeq
      <4> QED
        BY <4>2
    <3> QED
      BY <1>0, <3>1, <3>2, RingSame
  <2>2. CASE ~(q # <<>> /\ Head(q).order = last_processed)
    <3>1. q' = q /\ proc' = "ring"
      BY <1>3, <2>2 DEF CheckVmBuffer
    <3>2. q # <<>> => Head(q) = q[1]
      BY PopSeq DEF BaseInv, TypeOK
    <3>3. ~stackAdded /\ q # <<>> => q[1].order > last_processed
      BY <1>0, <1>1, <2>2, <3>2 DEF InStep
    <3> QED
      BY <1>0, <3>1, <3>3, RingSame
  <2> QED
    BY <2>1, <2>2
<1>4. CASE CheckRing
  <2>0. /\ q' = q /\ draining' = draining /\ proc = "ring"
        /\ marker[dequeue_pos] = "full" <=> 0 < k
        /\ ~stackAdded /\ q # <<>> => q[1].order > last_processed
    BY <1>1, <1>4 DEF CheckRing, Ring, InStep
  <2>1. CASE marker[dequeue_pos] = "empty"
    <3>1. proc' = "vm_again" /\ k = 0
      BY <1>1, <1>4, <2>0, <2>1 DEF CheckRing
    <3> QED
      BY <1>0, <2>0, <3>1, RingSame
  <2>2. CASE /\ marker[dequeue_pos] = "full"
             /\ record[dequeue_pos].order # last_processed
    <3>1. proc' = "event" /\ k > 0 /\ Order(0) # last_processed
      BY <1>1, <1>4, <2>0, <2>2 DEF CheckRing, Order
    <3>2. 0 < Pending(k)
      BY <1>1, <3>1 DEF Pending
    <3>3. \A d \in Slot : d < Pending(k) => Order(0) <= Order(d)
      <4>1. \A d \in Slot : 0 <= d
        BY DEF Slot
      <4> QED
        BY <1>1, <4>1 DEF Ring
    <3>4. ~stackAdded => /\ Order(0) > last_processed
                         /\ last_code_event_id >= Order(0)
      BY <1>0, <1>1, <3>1, <3>2 DEF InStep
    <3>5. ~stackAdded =>
            /\ \A d \in Slot : d < Pending(k) => Order(d) > last_processed
            /\ last_code_event_id > last_processed
      BY <1>0, <1>1, <3>3, <3>4
    <3> QED
      BY <1>0, <2>0, <3>1, <3>5, RingSame
  <2>3. CASE /\ marker[dequeue_pos] = "full"
             /\ record[dequeue_pos].order = last_processed
    <3>1. proc' = "remove" /\ k > 0
      BY <1>1, <1>4, <2>0, <2>3 DEF CheckRing
    <3> QED
      BY <1>0, <2>0, <3>1, RingSame
  <2> QED
    BY <1>4, <2>1, <2>2, <2>3 DEF CheckRing
<1>5. CASE CheckVmBufferAgain
  <2>0. /\ q' = q /\ draining' = draining /\ proc = "vm_again"
        /\ ~stackAdded /\ q # <<>> => q[1].order > last_processed
    BY <1>5 DEF CheckVmBufferAgain, InStep
  <2>1. CASE q = <<>> /\ ~draining
    <3>1. proc' = "timer"
      BY <1>5, <2>1 DEF CheckVmBufferAgain
    <3> QED
      BY <1>0, <2>0, <3>1, RingSame
  <2>2. CASE draining
    <3>1. /\ proc' \in {"event", "timer"}
          /\ Pending(k) = 0 /\ \A d \in Slot : ~(d < 0)
      BY <1>5, <2>0, <2>2 DEF CheckVmBufferAgain, Ring, Pending, BaseInv, PhaseInv, Slot
    <3> QED
      BY <1>0, <2>0, <2>2, <3>1, RingSame
  <2>3. CASE q # <<>>
    <3>1. proc' = "event"
      BY <1>5, <2>3 DEF CheckVmBufferAgain
    <3>2. ~stackAdded =>
            /\ \A d \in Slot : d < Pending(k) => Order(d) > last_processed
            /\ last_code_event_id > last_processed
      BY <1>0, <1>1, <2>0, <2>3 DEF InStep
    <3> QED
      BY <1>0, <2>0, <3>1, <3>2, RingSame
  <2> QED
    BY <2>1, <2>2, <2>3
<1> QED
  BY <1>2, <1>3, <1>4, <1>5

(* The ring keeps its shape, and the processor its place behind the samples. *)
LEMMA RingInductive == Spec => []RingInv
<1>1. Init => RingInv
  <2>1. Init => BaseInv /\ proc = "none"
    BY BaseInit DEF Init
  <2> QED
    BY <2>1, RingNone
<1>2. BaseInv /\ BaseInv' /\ HistInv /\ RingInv /\ [Next]_vars => RingInv'
  <2>1. ASSUME RingInv, UNCHANGED vars PROVE RingInv'
    <3> PICK k : Ring(k) /\ InStep(k)
      BY <2>1 DEF RingInv
    <3>1. Ring(k)' /\ InStep(k)'
      BY <2>1 DEF Ring, InStep, Pending, Order, vars, heapVars, bufferVars,
                  slotVars, ringVars, procVars, histVars
    <3> QED
      BY <3>1 DEF RingInv
  <2> QED
    BY <2>1, RingVm, RingSignal, RingEvent, RingRemove, RingLooks
       DEF Next, Processor
<1> QED
  BY <1>1, <1>2, BaseInductive, HistInductive, PTL DEF Spec

(* "All ticks of the current last_processed_code_event_id_ are processed,    *)
(* proceed to the next code event": while only the signal handler adds       *)
(* samples beside the processor, none in either buffer is ever older than    *)
(* the code map, for a ring and buffers of any length.                       *)
THEOREM NoSampleBehind == Spec => []NoSampleLeftBehind
<1>1. BaseInv /\ RingInv => NoSampleLeftBehind
  <2> SUFFICES ASSUME BaseInv, RingInv, ~stackAdded, NEW o \in Waiting
               PROVE  o >= last_processed
    BY DEF NoSampleLeftBehind
  <2> PICK k : Ring(k) /\ InStep(k)
    BY DEF RingInv
  <2>1. ASSUME NEW s \in Slot, marker[s] = "full", o = record[s].order
        PROVE  o >= last_processed
    <3>1. dequeue_pos \in Slot
      BY DEF BaseInv, TypeOK
    <3>2. PICK d \in Slot : Pos(dequeue_pos, d) = s
      BY <3>1, Around
    <3>3. d < k
      BY <2>1, <3>2 DEF Ring
    <3>4. d < Pending(k)
      BY <3>3, CpuProfilerAssumption DEF Pending, Ring, Slot
    <3> QED
      BY <2>1, <3>2, <3>4 DEF InStep, Order
  <2>2. ASSUME NEW i \in DOMAIN ticks_from_vm_buffer,
               o = ticks_from_vm_buffer[i].order
        PROVE  o >= last_processed
    <3>1. ticks_from_vm_buffer \in Seq(Record)
      BY DEF BaseInv, TypeOK
    <3>2. i \in 1..Len(ticks_from_vm_buffer) /\ Len(ticks_from_vm_buffer) \in Nat
      BY <2>2, <3>1, LenProperties
    <3>3. Len(ticks_from_vm_buffer) <= 1
      BY DEF InStep
    <3>4. i = 1 /\ ticks_from_vm_buffer # <<>>
      BY <3>2, <3>3
    <3> QED
      BY <2>2, <3>4 DEF InStep
  <2> QED
    BY <2>1, <2>2 DEF Waiting
<1> QED
  BY <1>1, BaseInductive, RingInductive, PTL
=============================================================================
