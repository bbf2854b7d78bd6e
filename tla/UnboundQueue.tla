---------------------------- MODULE UnboundQueue ----------------------------
(***************************************************************************)
(* The lock-free list behind output_queue_: one producer (the compiler     *)
(* thread) and one consumer (the main thread) share a singly linked list   *)
(* with a dummy node.  The producer appends at last_ and frees the nodes   *)
(* the consumer has left behind, from first_ up to divider_; the consumer  *)
(* only moves divider_.  Each access to the shared last_ and divider_ is a *)
(* step of its own.                                                        *)
(***************************************************************************)
EXTENDS Integers, Sequences

CONSTANTS Node,      \* addresses a list node can live at
          Record,    \* values
          NoNode, NoRecord

ASSUME NodeAssumption == NoNode \notin Node /\ NoRecord \notin Record

VARIABLES
  value, next,            \* the fields of each node
  allocated,              \* the nodes that are not freed
  first, divider, last,   \* first_, divider_, last_
  ppc, node,              \* producer: where it is, the node it allocated
  cpc, rec,               \* consumer: where it is, what it read
  sent                    \* history: values enqueued and not yet dequeued

heapVars == <<value, next, allocated>>
unboundVars == <<heapVars, first, divider, last, ppc, node, cpc, rec,
                 sent>>

UnboundQueueInit ==
  \E d \in Node :
    /\ allocated = {d}
    /\ value = [n \in Node |-> NoRecord]
    /\ next = [n \in Node |-> NoNode]
    /\ first = d /\ divider = d /\ last = d
    /\ ppc = "idle" /\ node = NoNode
    /\ cpc = "idle" /\ rec = NoRecord
    /\ sent = <<>>

(* Enqueue: next = new Node(rec), written into the node last_ points to.     *)
EnqueueLink(r) ==
  /\ ppc = "idle"
  /\ \E n \in Node \ allocated :
       /\ allocated' = allocated \cup {n}
       /\ value' = [value EXCEPT ![n] = r]
       /\ next' = [next EXCEPT ![last] = n, ![n] = NoNode]
       /\ node' = n
  /\ ppc' = "publish"
  /\ UNCHANGED <<first, divider, last, cpc, rec, sent>>

(* Release_Store(&last_, next): the value becomes visible.                   *)
EnqueuePublish ==
  /\ ppc = "publish"
  /\ last' = node
  /\ sent' = Append(sent, value[node])
  /\ node' = NoNode
  /\ ppc' = "reclaim"
  /\ UNCHANGED <<heapVars, first, divider, cpc, rec>>

(* Mutation: nodes are freed up to and including the divider. *)
ReclaimPastDivider ==
  /\ ppc = "reclaim"
  /\ IF first # last
     THEN /\ first' = next[first]
          /\ allocated' = allocated \ {first}
          /\ UNCHANGED ppc
     ELSE ppc' = "idle" /\ UNCHANGED <<first, allocated>>
  /\ UNCHANGED <<value, next, divider, last, node, cpc, rec, sent>>

(* while (first_ != Acquire_Load(&divider_)) DeleteFirst()                   *)
Reclaim ==
  /\ ppc = "reclaim"
  /\ IF first # divider
     THEN /\ first' = next[first]
          /\ allocated' = allocated \ {first}
          /\ value' = [value EXCEPT ![first] = NoRecord]
          /\ next' = [next EXCEPT ![first] = NoNode]
          /\ UNCHANGED ppc
     ELSE ppc' = "idle" /\ UNCHANGED <<first, heapVars>>
  /\ UNCHANGED <<divider, last, node, cpc, rec, sent>>

(* Mutation: emptiness is judged by the producer's first_. *)
DequeueTestFirst ==
  /\ cpc = "idle"
  /\ cpc' = IF divider = first THEN "idle" ELSE "read"
  /\ UNCHANGED <<heapVars, first, divider, last, ppc, node, rec, sent>>

(* Dequeue: returns false when divider_ == Acquire_Load(&last_).             *)
DequeueTest ==
  /\ cpc = "idle"
  /\ cpc' = IF divider = last THEN "idle" ELSE "read"
  /\ UNCHANGED <<heapVars, first, divider, last, ppc, node, rec, sent>>

(* next = divider_->next; *rec = next->value                                 *)
DequeueRead ==
  /\ cpc = "read"
  /\ rec' = value[next[divider]]
  /\ cpc' = "move"
  /\ UNCHANGED <<heapVars, first, divider, last, ppc, node, sent>>

(* Mutation: the divider jumps to the end of the list. *)
DequeueMoveToLast ==
  /\ cpc = "move"
  /\ divider' = last
  /\ sent' = Tail(sent)
  /\ rec' = NoRecord
  /\ cpc' = "idle"
  /\ UNCHANGED <<heapVars, first, last, ppc, node>>

(* Release_Store(&divider_, next)                                            *)
DequeueMove ==
  /\ cpc = "move"
  /\ divider' = next[divider]
  /\ sent' = Tail(sent)
  /\ rec' = NoRecord
  /\ cpc' = "idle"
  /\ UNCHANGED <<heapVars, first, last, ppc, node>>

Producer == (\E r \in Record : EnqueueLink(r)) \/ EnqueuePublish \/ Reclaim
Consumer == DequeueTest \/ DequeueRead \/ DequeueMove

UnboundQueueSpec ==
  UnboundQueueInit /\ [][Producer \/ Consumer]_unboundVars

-----------------------------------------------------------------------------
(* No freed node is ever dereferenced: the consumer's divider_ and the node  *)
(* after it, the producer's first_ and last_ are allocated whenever they are *)
(* about to be followed.                                                     *)
NoDanglingNode ==
  /\ {first, last, divider} \subseteq allocated
  /\ cpc \in {"read", "move"} => next[divider] \in allocated
  /\ ppc = "publish" => node \in allocated

(* The list holds exactly the values enqueued and not dequeued, in order:    *)
(* following next from divider_ spells out sent and ends at last_.           *)
ListMatchesSent ==
  \E at \in [0..Len(sent) -> Node] :
    /\ at[0] = divider /\ at[Len(sent)] = last
    /\ \A i \in 1..Len(sent) : /\ at[i] = next[at[i - 1]]
                              /\ at[i] \in allocated
                              /\ value[at[i]] = sent[i]
=============================================================================
