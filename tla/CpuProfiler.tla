----------------------------- MODULE CpuProfiler -----------------------------
(***************************************************************************)
(* The sampling CPU profiler.  The VM thread logs every code object it     *)
(* creates or moves into events_buffer_ with a running number; the profile *)
(* signal interrupts it and writes a sample, stamped with the number of    *)
(* the last event, into a ring of slots; the processor thread reads both,  *)
(* replays the events on its own code map and must resolve each sample on  *)
(* the code map of the moment the sample was taken.  Every access of one   *)
(* thread that the other can see is a step of its own.                     *)
(***************************************************************************)
EXTENDS Integers, Sequences

CONSTANTS
  Address,       \* the addresses 0 .. n that code can occupy
  Size,          \* sizes of code objects
  QueueLength,   \* kTickSampleQueueLength
  MaxStarts,     \* bound: calls of StartProfiling
  MaxCode,       \* bound: code objects created
  MaxEvents,     \* bound: code events of one processor
  MaxTicks       \* bound: signals delivered while a profile is taken

ASSUME CpuProfilerAssumption ==
  /\ QueueLength \in Nat \ {0}
  /\ Address \subseteq Nat /\ Size \subseteq Nat \ {0}
  /\ {MaxStarts, MaxCode, MaxEvents, MaxTicks} \subseteq Nat

NoCode == 0                                  \* no CodeEntry
Slot == 0 .. QueueLength - 1

VARIABLES
  (* the VM thread and its heap *)
  live,                  \* code objects: [start, size, entry]
  created,               \* entries handed out so far
  vm,                    \* "idle" | "log" | "put" | "join"
  event,                 \* the event between ++last_code_event_id_ and Enqueue
  toLog,                 \* existing code StartProcessor has still to log
  starts,
  (* the signal handler, which runs on the VM thread *)
  sig,                   \* "none" | "finish"
  ticks,
  (* ProfilerEventsProcessor, written by the VM thread *)
  is_profiling, running, last_code_event_id,
  events_buffer, ticks_from_vm_buffer,
  (* ... the ring, written by both *)
  marker, record, enqueue_pos, dequeue_pos,
  (* ... the processor thread *)
  proc,                  \* where it is; "none" without a thread
  draining,              \* it has left the loop on running_
  last_processed, code_map,
  (* history *)
  attributed,            \* every sample so far was resolved to the code it hit
  stackAdded             \* AddCurrentStack was called beside a running thread

heapVars == <<live, created>>
bufferVars == <<last_code_event_id, events_buffer, ticks_from_vm_buffer>>
slotVars == <<marker, record, dequeue_pos>>
ringVars == <<slotVars, enqueue_pos>>
procVars == <<proc, draining, last_processed, code_map>>
histVars == <<attributed, stackAdded>>
vars == <<heapVars, vm, event, toLog, starts, ticks, sig, is_profiling,
          running, bufferVars, ringVars, procVars, histVars>>

NoObject == [start |-> 0, size |-> 1, entry |-> NoCode]
NoEvent == [kind |-> "none", order |-> 0, code |-> NoObject, to |-> 0]
NoSample == [pc |-> -1, truth |-> NoCode]
NoRecord == [order |-> 0, sample |-> NoSample]

-----------------------------------------------------------------------------
(* CodeMap: code objects by start address.                                   *)

Covers(c, addr) == c.start <= addr /\ addr < c.start + c.size
Overlap(c, start, end) == c.start < end /\ start < c.start + c.size

FindEntry(map, addr) ==
  LET below == {c \in map : c.start <= addr}
      c == CHOOSE c \in below : \A o \in below : o.start <= c.start
  IN IF below # {} /\ Covers(c, addr) THEN c.entry ELSE NoCode

(* The loop walks down from end - 1 and stops once it is below start: it     *)
(* looks at every entry that starts in [start, end), and at one that starts  *)
(* lower unless one starts at start itself.                                  *)
DeleteAllCoveredCode(map, start, end) ==
  LET inside == {c \in map : start <= c.start /\ c.start < end}
      lower == {c \in map : /\ c.start < start
                            /\ \A o \in inside : o.start # start
                            /\ \A o \in map : o.start < start =>
                                                o.start <= c.start}
  IN {c \in map : c \in inside \cup lower => ~Overlap(c, start, end)}

(* Mutation: code that the new object covers stays in the map. *)
AddCodeOverCovered(map, start, entry, size) ==
  {c \in map : c.start # start}
    \cup {[start |-> start, size |-> size, entry |-> entry]}

AddCode(map, start, entry, size) ==
  DeleteAllCoveredCode(map, start, start + size)
    \cup {[start |-> start, size |-> size, entry |-> entry]}

MoveCode(map, from, to) ==
  LET c == CHOOSE c \in map : c.start = from
  IN IF from = to \/ \A o \in map : o.start # from THEN map
     ELSE AddCode(map \ {c}, to, c.entry, c.size)

(* UpdateCodeMap of each event record.  A report of a builtin or of a        *)
(* disabled optimization annotates an entry and moves no code.               *)
UpdateCodeMap(map, e) ==
  CASE e.kind = "create" -> AddCode(map, e.code.start, e.code.entry, e.code.size)
    [] e.kind = "move" -> MoveCode(map, e.code.start, e.to)
    [] e.kind = "annotate" -> map

-----------------------------------------------------------------------------
Init ==
  /\ live = {} /\ created = 0
  /\ vm = "idle" /\ event = NoEvent /\ toLog = {}
  /\ starts = 0
  /\ sig = "none" /\ ticks = 0
  /\ is_profiling = FALSE /\ running = FALSE
  /\ last_code_event_id = 0 /\ events_buffer = <<>>
  /\ ticks_from_vm_buffer = <<>>
  /\ marker = [s \in Slot |-> "empty"] /\ record = [s \in Slot |-> NoRecord]
  /\ enqueue_pos = 0 /\ dequeue_pos = 0
  /\ proc = "none" /\ draining = FALSE
  /\ last_processed = 0 /\ code_map = {}
  /\ attributed = TRUE /\ stackAdded = FALSE

-----------------------------------------------------------------------------
(* The VM thread.  It makes no step while the signal handler runs on it.     *)

VmAt(pc) == vm = pc /\ sig = "none"

(* ++last_code_event_id_, the first half of Enqueue.                         *)
EnqueueBegin(kind, c, to) ==
  /\ last_code_event_id < MaxEvents
  /\ last_code_event_id' = last_code_event_id + 1
  /\ event' = [kind |-> kind, order |-> last_code_event_id + 1,
                code |-> c, to |-> to]
  /\ vm' = "put"

(* events_buffer_.Enqueue(event), the second half; then on with the logging  *)
(* while StartProcessorIfNotStarted is not done, else back to JavaScript.    *)
EnqueueEnd ==
  /\ VmAt("put")
  /\ events_buffer' = Append(events_buffer, event)
  /\ event' = NoEvent
  /\ vm' = IF proc = "none" THEN "log" ELSE "idle"
  /\ UNCHANGED <<heapVars, toLog, starts, ticks, sig, is_profiling,
                 running, last_code_event_id, ticks_from_vm_buffer, ringVars,
                 procVars, histVars>>

(* The event is enqueued if a profile is being taken (PROFILE).              *)
LogEvent(kind, c, to) ==
  \/ is_profiling /\ EnqueueBegin(kind, c, to)
  \/ ~is_profiling /\ UNCHANGED <<vm, event, last_code_event_id>>

(* An object is placed at start.  A collection may have freed what was there *)
(* without a word (CodeDeleteEvent is empty): the code map keeps the entry   *)
(* until the event that reuses the address.                                  *)
Place(c, start) ==
  /\ start .. start + c.size - 1 \subseteq Address
  /\ live' = {o \in live \ {c} : ~Overlap(o, start, start + c.size)}
               \cup {[c EXCEPT !.start = start]}

CodeCreateEvent(start, size) ==
  LET c == [start |-> start, size |-> size, entry |-> created + 1] IN
  /\ VmAt("idle") /\ created < MaxCode
  /\ created' = created + 1
  /\ Place(c, start)
  /\ LogEvent("create", c, 0)
  /\ UNCHANGED <<toLog, starts, ticks, sig, is_profiling, running,
                 events_buffer, ticks_from_vm_buffer, ringVars, procVars,
                 histVars>>

(* A compacting collection moves an object to other memory.                  *)
CodeMoveEvent(c, to) ==
  /\ VmAt("idle") /\ ~Overlap(c, to, to + c.size)
  /\ Place(c, to)
  /\ LogEvent("move", c, to)
  /\ UNCHANGED <<created, toLog, starts, ticks, sig, is_profiling,
                 running, events_buffer, ticks_from_vm_buffer, ringVars,
                 procVars, histVars>>

CodeDisableOptEvent ==
  /\ VmAt("idle") /\ is_profiling
  /\ EnqueueBegin("annotate", NoObject, 0)
  /\ UNCHANGED <<heapVars, toLog, starts, ticks, sig, is_profiling,
                 running, events_buffer, ticks_from_vm_buffer, ringVars,
                 procVars, histVars>>

(* What a sample taken now can hold: no generated code, or an address in     *)
(* code on the stack.  Code whose creation is being logged has not run yet;  *)
(* during a collection no stack is walked.                                   *)
StackSample ==
  {NoSample} \cup
  {s \in [pc : Address, truth : 1..created] :
     \E c \in live : /\ Covers(c, s.pc) /\ s.truth = c.entry
                     /\ event.kind # "move"
                     /\ event.kind = "create" => event.code.entry # c.entry}

AddCurrentStack(s) ==
  ticks_from_vm_buffer' = Append(ticks_from_vm_buffer,
                            [order |-> last_code_event_id, sample |-> s])

(* StartProfiling beside a running processor only adds the current stack.    *)
StartProfilingAgain ==
  /\ VmAt("idle") /\ proc # "none"
  /\ starts < MaxStarts /\ starts' = starts + 1
  /\ \E s \in StackSample : AddCurrentStack(s)
  /\ stackAdded' = TRUE
  /\ UNCHANGED <<heapVars, vm, event, toLog, ticks, sig, is_profiling,
                 running, last_code_event_id, events_buffer, ringVars,
                 procVars, attributed>>

(* The first StartProfiling makes a processor and a generator (their fields  *)
(* have their initial values: Joined) and goes on to log the code that       *)
(* exists.                                                                   *)
StartProfiling ==
  /\ VmAt("idle") /\ proc = "none"
  /\ starts < MaxStarts /\ starts' = starts + 1
  /\ vm' = "log" /\ toLog' = live
  /\ is_profiling' = TRUE /\ running' = TRUE
  /\ UNCHANGED <<heapVars, event, ticks, sig, bufferVars, ringVars,
                 procVars, histVars>>

(* LogCodeObjects, LogCompiledFunctions.                                     *)
LogCodeObject(c) ==
  /\ VmAt("log")
  /\ EnqueueBegin("create", c, 0)
  /\ toLog' = toLog \ {c}
  /\ UNCHANGED <<heapVars, starts, ticks, sig, is_profiling, running,
                 events_buffer, ticks_from_vm_buffer, ringVars, procVars,
                 histVars>>

(* AddCurrentStack and StartSynchronously, once everything is logged.        *)
StartProcessor ==
  /\ VmAt("log") /\ toLog = {}
  /\ \E s \in StackSample : AddCurrentStack(s)
  /\ proc' = "check"
  /\ vm' = "idle"
  /\ UNCHANGED <<heapVars, event, toLog, starts, ticks, sig,
                 is_profiling, running, last_code_event_id, events_buffer,
                 ringVars, draining, last_processed, code_map, histVars>>

(* StopProcessor up to Join: no sample is started any more, and the thread   *)
(* is told to leave its loop.  Called by StopProfiling for the last profile  *)
(* and by DeleteAllProfiles.                                                 *)
StopProcessor ==
  /\ VmAt("idle") /\ is_profiling
  /\ is_profiling' = FALSE
  /\ running' = FALSE
  /\ vm' = "join"
  /\ UNCHANGED <<heapVars, event, toLog, starts, ticks, sig, bufferVars,
                 ringVars, procVars, histVars>>

(* Join returns, processor_ and generator_ are deleted.                      *)
Joined ==
  /\ VmAt("join") /\ proc = "done"
  /\ last_code_event_id' = 0 /\ events_buffer' = <<>>
  /\ ticks_from_vm_buffer' = <<>>
  /\ marker' = [s \in Slot |-> "empty"] /\ record' = [s \in Slot |-> NoRecord]
  /\ enqueue_pos' = 0 /\ dequeue_pos' = 0
  /\ proc' = "none" /\ draining' = FALSE
  /\ last_processed' = 0 /\ code_map' = {}
  /\ stackAdded' = FALSE
  /\ vm' = "idle"
  /\ UNCHANGED <<heapVars, event, toLog, starts, ticks, sig,
                 is_profiling, running, attributed>>

-----------------------------------------------------------------------------
(* The profile signal, which the processor's DoSample has sent, interrupts   *)
(* the VM thread between any two of its steps: SampleStack takes the slot at *)
(* enqueue_pos_ if it is empty, fills it in place and marks it full.  With   *)
(* is_profiling_ cleared, or a full slot, the sample is thrown away.         *)

NextSlot(s) == IF s + 1 = QueueLength THEN 0 ELSE s + 1

StartTickSample ==
  /\ proc # "none" /\ is_profiling /\ sig = "none"
  /\ ticks < MaxTicks /\ ticks' = ticks + 1
  /\ IF marker[enqueue_pos] = "empty"
     THEN /\ \E s \in StackSample :
               record' = [record EXCEPT ![enqueue_pos] =
                            [order |-> last_code_event_id, sample |-> s]]
          /\ sig' = "finish"
     ELSE UNCHANGED <<record, sig>>
  /\ UNCHANGED <<heapVars, vm, event, toLog, starts, is_profiling, running,
                 bufferVars, marker, enqueue_pos, dequeue_pos, procVars,
                 histVars>>

FinishTickSample ==
  /\ sig = "finish"
  /\ marker' = [marker EXCEPT ![enqueue_pos] = "full"]
  /\ enqueue_pos' = NextSlot(enqueue_pos)
  /\ sig' = "none"
  /\ UNCHANGED <<heapVars, vm, event, toLog, starts, ticks,
                 is_profiling, running, bufferVars, record, dequeue_pos,
                 procVars, histVars>>

-----------------------------------------------------------------------------
(* The processor thread.  ProcessOneSample looks at ticks_from_vm_buffer_    *)
(* (CheckVmBuffer), at the ring (CheckRing), and, if the ring was empty, at  *)
(* ticks_from_vm_buffer_ again (CheckVmBufferAgain).                         *)

UnchangedByProcessor ==
  UNCHANGED <<heapVars, vm, event, toLog, starts, ticks, sig, is_profiling, running,
              last_code_event_id, enqueue_pos, stackAdded>>

(* generator_->RecordTickSample resolves the sample on the current code map. *)
RecordTickSample(s) ==
  attributed' = (attributed /\ FindEntry(code_map, s.pc) = s.truth)

(* Run tests running_; once it is cleared the thread drains its queues.      *)
CheckRunning ==
  /\ proc = "check"
  /\ draining' = ~running
  /\ proc' = "vm"
  /\ UnchangedByProcessor
  /\ UNCHANGED <<events_buffer, ticks_from_vm_buffer, slotVars,
                 last_processed, code_map, attributed>>

(* Where Run goes after ProcessOneSample returned OneSampleProcessed.        *)
AfterSample == IF draining THEN "vm" ELSE "timer"

CheckVmBuffer ==
  /\ proc = "vm"
  /\ IF /\ ticks_from_vm_buffer # <<>>
        /\ Head(ticks_from_vm_buffer).order = last_processed
     THEN /\ RecordTickSample(Head(ticks_from_vm_buffer).sample)
          /\ ticks_from_vm_buffer' = Tail(ticks_from_vm_buffer)
          /\ proc' = AfterSample
     ELSE /\ proc' = "ring"
          /\ UNCHANGED <<ticks_from_vm_buffer, attributed>>
  /\ UnchangedByProcessor
  /\ UNCHANGED <<events_buffer, slotVars, draining,
                 last_processed, code_map>>

(* ticks_buffer_.Peek(), and the record if it belongs to the code map.       *)
CheckRing ==
  /\ proc = "ring"
  /\ \/ /\ marker[dequeue_pos] = "empty"
        /\ proc' = "vm_again"
        /\ UNCHANGED attributed
     \/ /\ marker[dequeue_pos] = "full"
        /\ record[dequeue_pos].order # last_processed
        /\ proc' = "event"
        /\ UNCHANGED attributed
     \/ /\ marker[dequeue_pos] = "full"
        /\ record[dequeue_pos].order = last_processed
        /\ RecordTickSample(record[dequeue_pos].sample)
        /\ proc' = "remove"
  /\ UnchangedByProcessor
  /\ UNCHANGED <<events_buffer, ticks_from_vm_buffer, slotVars,
                 draining, last_processed, code_map>>

(* Mutation: the slot stays marked full. *)
RemoveUnmarked ==
  /\ proc = "remove"
  /\ dequeue_pos' = NextSlot(dequeue_pos)
  /\ proc' = AfterSample
  /\ UnchangedByProcessor
  /\ UNCHANGED <<events_buffer, ticks_from_vm_buffer, marker, record, draining,
                 last_processed, code_map, attributed>>

(* ticks_buffer_.Remove().  What the slot still holds is never read again.   *)
Remove ==
  /\ proc = "remove"
  /\ marker' = [marker EXCEPT ![dequeue_pos] = "empty"]
  /\ record' = [record EXCEPT ![dequeue_pos] = NoRecord]
  /\ dequeue_pos' = NextSlot(dequeue_pos)
  /\ proc' = AfterSample
  /\ UnchangedByProcessor
  /\ UNCHANGED <<events_buffer, ticks_from_vm_buffer, draining,
                 last_processed, code_map, attributed>>

(* Mutation: an empty ring is taken for a sample of the next event. *)
CheckVmBufferAgainFound ==
  /\ proc = "vm_again"
  /\ proc' = "event"
  /\ UnchangedByProcessor
  /\ UNCHANGED <<events_buffer, ticks_from_vm_buffer, slotVars,
                 draining, last_processed, code_map, attributed>>

(* With both buffers empty the loop waits; the drain tries the next event.   *)
CheckVmBufferAgain ==
  /\ proc = "vm_again"
  /\ proc' = IF ticks_from_vm_buffer # <<>> \/ draining THEN "event"
             ELSE "timer"
  /\ UnchangedByProcessor
  /\ UNCHANGED <<events_buffer, ticks_from_vm_buffer, slotVars,
                 draining, last_processed, code_map, attributed>>

(* Mutation: TRUE is returned for an empty queue too. *)
ProcessCodeEventAlways ==
  /\ proc = "event"
  /\ IF events_buffer # <<>>
     THEN /\ code_map' = UpdateCodeMap(code_map, Head(events_buffer))
          /\ last_processed' = Head(events_buffer).order
          /\ events_buffer' = Tail(events_buffer)
     ELSE UNCHANGED <<code_map, last_processed, events_buffer>>
  /\ proc' = AfterSample
  /\ UnchangedByProcessor
  /\ UNCHANGED <<ticks_from_vm_buffer, slotVars, draining, attributed>>

(* events_buffer_.Dequeue and UpdateCodeMap; the drain ends with the events. *)
ProcessCodeEvent ==
  /\ proc = "event"
  /\ IF events_buffer # <<>>
     THEN /\ code_map' = UpdateCodeMap(code_map, Head(events_buffer))
          /\ last_processed' = Head(events_buffer).order
          /\ events_buffer' = Tail(events_buffer)
          /\ proc' = AfterSample
     ELSE /\ proc' = IF draining THEN "done" ELSE "timer"
          /\ UNCHANGED <<code_map, last_processed, events_buffer>>
  /\ UnchangedByProcessor
  /\ UNCHANGED <<ticks_from_vm_buffer, slotVars,
                 draining, attributed>>

(* !timer.HasExpired(period_)                                                *)
TimerRunning ==
  /\ proc = "timer"
  /\ proc' = "vm"
  /\ UnchangedByProcessor
  /\ UNCHANGED <<events_buffer, ticks_from_vm_buffer, slotVars,
                 draining, last_processed, code_map, attributed>>

(* The period is over: DoSample sends SIGPROF to the VM thread.              *)
DoSample ==
  /\ proc = "timer"
  /\ proc' = "check"
  /\ UnchangedByProcessor
  /\ UNCHANGED <<events_buffer, ticks_from_vm_buffer, slotVars,
                 draining, last_processed, code_map, attributed>>

-----------------------------------------------------------------------------
VmThread ==
  \/ EnqueueEnd \/ CodeDisableOptEvent
  \/ StartProcessor \/ StopProcessor \/ Joined
  \/ \E a \in Address, n \in Size : CodeCreateEvent(a, n)
  \/ \E c \in live, a \in Address : CodeMoveEvent(c, a)
  \/ \E c \in toLog : LogCodeObject(c)
  \/ StartProfiling \/ StartProfilingAgain

SignalHandler == StartTickSample \/ FinishTickSample

Processor ==
  \/ CheckRunning \/ CheckVmBuffer \/ CheckRing \/ Remove
  \/ CheckVmBufferAgain \/ ProcessCodeEvent

Timer == TimerRunning \/ DoSample

Next == VmThread \/ SignalHandler \/ Processor \/ Timer

Spec == Init /\ [][Next]_vars

(* The scheduler runs the processor and, once a step of an API call or of    *)
(* the handler is begun, the VM thread; time passes, so the timer of a       *)
(* period expires.  Nothing says that a program ever starts or stops a       *)
(* profile, makes code or is interrupted by a signal.                        *)
Fairness ==
  /\ WF_vars(Processor) /\ WF_vars(Timer) /\ SF_vars(DoSample)
  /\ WF_vars(FinishTickSample)
  /\ WF_vars(EnqueueEnd) /\ WF_vars(StartProcessor) /\ WF_vars(Joined)
  /\ WF_vars(\E c \in toLog : LogCodeObject(c))

FairSpec == Spec /\ Fairness

-----------------------------------------------------------------------------
(* Properties.                                                               *)

(* Every sample is resolved to the code object that was running when it was  *)
(* taken, although the processor looks it up later, on a code map of its     *)
(* own, after the object may have moved and its address been reused: the     *)
(* order stamp of ProcessOneSample against last_processed_code_event_id_.    *)
SampleFindsItsCode == attributed

(* The orders of the samples that wait in the two buffers.                   *)
Waiting ==
  {record[s].order : s \in {s \in Slot : marker[s] = "full"}}
    \cup {ticks_from_vm_buffer[i].order : i \in DOMAIN ticks_from_vm_buffer}

(* The comment in Run, "All ticks of the current                             *)
(* last_processed_code_event_id_ are processed, proceed to the next code     *)
(* event": no sample is left behind the code map (it could never be resolved *)
(* again, and would block its buffer).  It holds while only the signal       *)
(* handler adds samples beside the processor; a second StartProfiling adds   *)
(* one from the VM thread.                                                   *)
NoSampleLeftBehind ==
  proc # "none" /\ ~stackAdded => \A o \in Waiting : o >= last_processed

(* StopSynchronously returns: the thread leaves its loop and its drain ends. *)
StopReturns == vm = "join" ~> vm = "idle"

(* The processor catches up: unless a second profile was started beside it,  *)
(* a sample in the ring is resolved and its slot is used again.              *)
SamplesAreProcessed ==
  [](~stackAdded) => \A s \in Slot : marker[s] = "full" ~> marker[s] = "empty"
============================================================================
