----------------------- MODULE SavedCodeTieringProofs -----------------------
(***************************************************************************)
(* The safety of saved and loaded code in all tiers, for any script, any   *)
(* closures and any number of code objects and frames.  What a compilation *)
(* leaves behind is an outcome, and the state is one too (Unchanged): the  *)
(* inductive invariant is stated of outcomes, and each step of the         *)
(* compiler keeps it.                                                      *)
(***************************************************************************)
EXTENDS SavedCodeTiering, SequenceTheorems, TLAPS

CodeObject ==
  [shared: Shared, literal: Literal, loop: Loop \cup {NoLoop},
   inlined: SUBSET Shared, loaded: BOOLEAN, marked: BOOLEAN,
   bailedOut: BOOLEAN]
SavedChunk ==
  [literal: Literal, loop: Loop \cup {NoLoop}, inlined: SUBSET Literal,
   made: Nat]
MapEntry == [shared: Shared, osr: Loop \cup {NoLoop}, code: Nat]
Outcome ==
  [result: Nat, db: [Position -> SavedChunk \cup {NoChunk}],
   sfi: [Shared -> {"none", "lazy", "full", "deopt"}],
   hasSaved: [Shared -> BOOLEAN], disabled: [Shared -> BOOLEAN],
   codeMap: SUBSET MapEntry, heap: Seq(CodeObject)]

(* The optimized code maps hold valid code of their functions. *)
MapOK(o) ==
  \A e \in o.codeMap :
    /\ e.code \in 1..Len(o.heap)
    /\ o.heap[e.code].shared = e.shared
    /\ ~o.heap[e.code].marked

(* Every function in a code object has deoptimization support. *)
SupportOK(o) ==
  \A k \in 1..Len(o.heap) :
    /\ o.sfi[o.heap[k].shared] = "deopt"
    /\ \A s \in o.heap[k].inlined : o.sfi[s] = "deopt"

(* A saving process: a chunk was made from code that is in a code map, for   *)
(* the position of its function.                                             *)
SavedOK(o) ==
  Process = "save" =>
    /\ \A s \in Shared : ~o.hasSaved[s]
    /\ \A p \in Position : o.db[p] # NoChunk =>
         /\ Storable(p, o.db[p])
         /\ o.db[p].made \in 1..Len(o.heap)
         /\ Start(o.heap[o.db[p].made].shared) = p
         /\ \E e \in o.codeMap : e.code = o.db[p].made

(* A loading process: saved code is used for functions that are either not   *)
(* compiled or can be deoptimized, until it is deoptimized itself.           *)
LoadOK(o) ==
  /\ \A s \in Shared : o.hasSaved[s] =>
       /\ o.db[Start(s)] # NoChunk /\ ~o.disabled[s]
       /\ o.sfi[s] \in {"lazy", "deopt"}
  /\ \A k \in 1..Len(o.heap) :
       o.heap[k].loaded /\ (o.heap[k].marked \/ o.heap[k].bailedOut)
         => ~o.hasSaved[o.heap[k].shared]
  /\ \A s \in Shared : o.sfi[s] = "none" => ~o.disabled[s] /\ ~o.hasSaved[s]

Good(o) ==
  o \in Outcome /\ MapOK(o) /\ SupportOK(o) /\ SavedOK(o) /\ LoadOK(o)

(* What closures and frames refer to. *)
ClosureOK ==
  \A c \in Closure :
    /\ code[c] \in {NoFunction, Marked, Lazy, Full} \cup 1..Len(heap)
    /\ code[c] # NoFunction => sfi[SharedOf[c]] # "none"
    /\ code[c] \in 1..Len(heap) => /\ heap[code[c]].shared = SharedOf[c]
                                   /\ ~heap[code[c]].marked

Fits(f, h, cd) ==
  /\ f.code \in 0..Len(h) /\ cd[f.fn] # NoFunction
  /\ f.code \in 1..Len(h) /\ ~h[f.code].marked => cd[f.fn] = f.code

FrameOK == \A i \in 1..Len(stack) : Fits(stack[i], heap, code)

CurrentOK ==
  \A l \in Literal : current[l] # NoShared => sfi[current[l]] # "none"

Frame == [fn: Closure, code: Nat]

TypeOK ==
  /\ patched \in SUBSET Shared /\ current \in [Literal -> Shared \cup {NoShared}]
  /\ code \in [Closure -> Int] /\ stack \in Seq(Frame)

TierInv == TypeOK /\ Good(Unchanged) /\ ClosureOK /\ FrameOK /\ CurrentOK

-----------------------------------------------------------------------------
(* Sequences, by position. *)

(* Adding an element at the end. *)
LEMMA PushSeq ==
  ASSUME NEW S, NEW q \in Seq(S), NEW x \in S
  PROVE  /\ Append(q, x) \in Seq(S)
         /\ Len(q) \in Nat /\ Len(Append(q, x)) = Len(q) + 1
         /\ \A i \in 1..Len(q) : Append(q, x)[i] = q[i]
         /\ Append(q, x)[Len(q) + 1] = x
BY AppendProperties, LenProperties

(* Leaving out the last element. *)
LEMMA FrontSeq ==
  ASSUME NEW S, NEW q \in Seq(S), q # <<>>
  PROVE  /\ Last(q) = q[Len(q)] /\ Last(q) \in S /\ Len(q) \in Nat \ {0}
         /\ Front(q) \in Seq(S) /\ Len(Front(q)) = Len(q) - 1
         /\ \A i \in 1 .. Len(q) - 1 : Front(q)[i] = q[i]
<1>1. Len(q) \in Nat \ {0}
  BY EmptySeq
<1>2. Front(q) = [i \in 1 .. Len(q) - 1 |-> q[i]]
  BY <1>1 DEF Front
<1> QED
  BY <1>1, <1>2 DEF Last

-----------------------------------------------------------------------------
(* The steps of a compilation keep an outcome good. *)

(* The fields of an outcome. *)
LEMMA OutcomeFields ==
  ASSUME NEW o \in Outcome
  PROVE  /\ o.result \in Nat
         /\ o.db \in [Position -> SavedChunk \cup {NoChunk}]
         /\ o.sfi \in [Shared -> {"none", "lazy", "full", "deopt"}]
         /\ o.hasSaved \in [Shared -> BOOLEAN]
         /\ o.disabled \in [Shared -> BOOLEAN]
         /\ o.codeMap \in SUBSET MapEntry /\ o.heap \in Seq(CodeObject)
         /\ Len(o.heap) \in Nat
         /\ \A k \in 1..Len(o.heap) : o.heap[k] \in CodeObject
<1>1. o.heap \in Seq(CodeObject)
  BY DEF Outcome
<1>2. Len(o.heap) \in Nat /\ \A k \in 1..Len(o.heap) : o.heap[k] \in CodeObject
  BY <1>1, ElementOfSeq, LenProperties
<1> QED
  BY <1>2 DEF Outcome

(* A code object's functions. *)
LEMMA CodeFields ==
  ASSUME NEW k \in CodeObject
  PROVE  /\ k.shared \in Shared /\ k.inlined \in SUBSET Shared
         /\ k.literal \in Literal /\ k.loop \in Loop \cup {NoLoop}
         /\ k.loaded \in BOOLEAN /\ k.marked \in BOOLEAN /\ k.bailedOut \in BOOLEAN
BY DEF CodeObject

(* Deoptimization support only adds unoptimized code. *)
LEMMA Supported ==
  ASSUME NEW o, Good(o), NEW S \in SUBSET Shared,
         \A s \in S : o.sfi[s] # "none",
         NEW r, r = EnsureDeoptimizationSupport(o, S)
  PROVE  /\ Good(r)
         /\ r.result = o.result /\ r.db = o.db /\ r.hasSaved = o.hasSaved
         /\ r.disabled = o.disabled /\ r.codeMap = o.codeMap /\ r.heap = o.heap
         /\ \A s \in S : r.sfi[s] = "deopt"
         /\ \A s \in Shared \ S : r.sfi[s] = o.sfi[s]
<1>1. o \in Outcome /\ o.sfi \in [Shared -> {"none", "lazy", "full", "deopt"}]
  BY OutcomeFields DEF Good
<1> DEFINE g == [s \in Shared |-> IF s \in S THEN "deopt" ELSE o.sfi[s]]
<1>2. g \in [Shared -> {"none", "lazy", "full", "deopt"}]
  BY <1>1
<1>3. r = [o EXCEPT !.sfi = g]
  BY DEF EnsureDeoptimizationSupport
<1> HIDE DEF g
<1>4. /\ r \in Outcome /\ r.sfi = g
      /\ r.result = o.result /\ r.db = o.db /\ r.hasSaved = o.hasSaved
      /\ r.disabled = o.disabled /\ r.codeMap = o.codeMap /\ r.heap = o.heap
  BY <1>1, <1>2, <1>3 DEF Outcome
<1>5. /\ \A s \in S : r.sfi[s] = "deopt"
      /\ \A s \in Shared \ S : r.sfi[s] = o.sfi[s]
      /\ \A s \in Shared : o.sfi[s] = "deopt" => r.sfi[s] = "deopt"
  BY <1>4 DEF g
<1>6. MapOK(r) /\ SavedOK(r)
  BY <1>4 DEF Good, MapOK, SavedOK
<1>7. SupportOK(r)
  <2>1. \A k \in 1..Len(o.heap) : /\ o.heap[k].shared \in Shared
                                  /\ o.heap[k].inlined \in SUBSET Shared
    BY <1>1, OutcomeFields, CodeFields
  <2> QED
    BY <1>4, <1>5, <2>1 DEF Good, SupportOK
<1>8. LoadOK(r)
  <2>1. \A s \in Shared : r.sfi[s] = o.sfi[s] \/ (r.sfi[s] = "deopt" /\ o.sfi[s] # "none")
    BY <1>5
  <2> QED
    BY <1>4, <2>1 DEF Good, LoadOK
<1> QED
  BY <1>4, <1>5, <1>6, <1>7, <1>8 DEF Good

NewCode(o, s, osr, ck, I) ==
  {GenerateOptimizedCode(o, s, osr, ck, I, TRUE),
   GenerateOptimizedCode(o, s, osr, ck, I, FALSE)}

Grown(o, r, s, osr, ck, I) ==
  /\ Good(r)
  /\ r.db = o.db /\ r.hasSaved = o.hasSaved /\ r.sfi = o.sfi
  /\ r.disabled = o.disabled
  /\ r.result = Len(o.heap) + 1 /\ Len(r.heap) = Len(o.heap) + 1
  /\ \A k \in 1..Len(o.heap) : r.heap[k] = o.heap[k]
  /\ r.heap[r.result].shared = s /\ r.heap[r.result].inlined = I
  /\ r.heap[r.result].literal = ck.literal
  /\ r.heap[r.result].loop = ck.loop /\ ~r.heap[r.result].marked
  /\ [shared |-> s, osr |-> osr, code |-> r.result] \in r.codeMap

(* New optimized code. *)
LEMMA Generated ==
  ASSUME NEW o, Good(o), NEW s \in Shared, NEW osr \in Loop \cup {NoLoop},
         NEW ck, ck.literal \in Literal, ck.loop \in Loop \cup {NoLoop},
         NEW I \in SUBSET Shared,
         o.sfi[s] = "deopt", \A t \in I : o.sfi[t] = "deopt",
         NEW r \in NewCode(o, s, osr, ck, I)
  PROVE  Grown(o, r, s, osr, ck, I)
<1> PICK loaded \in BOOLEAN : r = GenerateOptimizedCode(o, s, osr, ck, I, loaded)
  BY DEF NewCode
<1> DEFINE x == [shared |-> s, literal |-> ck.literal,
                 loop |-> ck.loop, inlined |-> I,
                 loaded |-> loaded, marked |-> FALSE,
                 bailedOut |-> FALSE]
           n == Len(o.heap) + 1
           h == Append(o.heap, x)
           e == [shared |-> s, osr |-> osr, code |-> n]
           m == o.codeMap \cup {e}
<1>0. o \in Outcome
  BY DEF Good
<1>1. /\ Len(o.heap) \in Nat /\ n \in Nat /\ o.heap \in Seq(CodeObject)
      /\ o.codeMap \in SUBSET MapEntry
      /\ \A k \in 1..Len(o.heap) : o.heap[k] \in CodeObject
  BY <1>0, OutcomeFields
<1>2. x \in CodeObject /\ e \in MapEntry
  BY <1>1 DEF CodeObject, MapEntry
<1>3. /\ x.shared = s /\ x.inlined = I /\ ~x.marked /\ ~x.bailedOut
      /\ x.literal = ck.literal /\ x.loop = ck.loop
      /\ e.shared = s /\ e.code = n
  OBVIOUS
<1>4. r = [o EXCEPT !.result = n, !.heap = h, !.codeMap = m]
  BY DEF GenerateOptimizedCode
<1> HIDE DEF x, e
<1>5. /\ h \in Seq(CodeObject) /\ Len(h) = n
      /\ \A i \in 1..Len(o.heap) : h[i] = o.heap[i]
      /\ h[n] = x
  BY <1>1, <1>2, PushSeq
<1>6. m \in SUBSET MapEntry
  BY <1>1, <1>2
<1> HIDE DEF h, n, m
<1>7. /\ r \in Outcome /\ r.result = n /\ r.heap = h /\ r.codeMap = m
      /\ r.db = o.db /\ r.hasSaved = o.hasSaved /\ r.sfi = o.sfi
      /\ r.disabled = o.disabled
  BY <1>0, <1>1, <1>4, <1>5, <1>6 DEF Outcome
<1>8. /\ \A k \in 1..Len(h) : k = n \/ k \in 1..Len(o.heap)
      /\ \A k \in 1..Len(o.heap) : k \in 1..Len(h) /\ h[k] = o.heap[k]
      /\ n \in 1..Len(h)
  BY <1>1, <1>5 DEF n
<1>9. MapOK(r)
  <2>1. \A a \in m : a = e \/ a \in o.codeMap
    BY DEF m
  <2>2. ASSUME NEW a \in m
        PROVE  a.code \in 1..Len(h) /\ h[a.code].shared = a.shared /\ ~h[a.code].marked
    <3>1. CASE a = e
      BY <1>3, <1>5, <1>8, <3>1
    <3>2. CASE a \in o.codeMap
      <4>1. /\ a.code \in 1..Len(o.heap) /\ o.heap[a.code].shared = a.shared
            /\ ~o.heap[a.code].marked
        BY <3>2 DEF Good, MapOK
      <4> QED
        BY <1>8, <4>1
    <3> QED
      BY <2>1, <2>2, <3>1, <3>2
  <2> QED
    BY <1>7, <2>2 DEF MapOK
<1>10. SupportOK(r)
  BY <1>3, <1>5, <1>7, <1>8 DEF Good, SupportOK
<1>11. SavedOK(r)
  <2> SUFFICES ASSUME Process = "save",
                      NEW p \in Position, o.db[p] # NoChunk
               PROVE  /\ Storable(p, o.db[p])
                      /\ o.db[p].made \in 1..Len(h)
                      /\ Start(h[o.db[p].made].shared) = p
                      /\ \E a \in m : a.code = o.db[p].made
    BY <1>7 DEF Good, SavedOK
  <2>1. /\ Storable(p, o.db[p])
        /\ o.db[p].made \in 1..Len(o.heap)
        /\ Start(o.heap[o.db[p].made].shared) = p
        /\ \E a \in o.codeMap : a.code = o.db[p].made
    BY DEF Good, SavedOK
  <2> QED
    BY <1>8, <2>1 DEF m
<1>12. LoadOK(r)
  BY <1>3, <1>5, <1>7, <1>8 DEF Good, LoadOK
<1>13. e \in m
  BY DEF m
<1> QED
  BY <1>3, <1>5, <1>7, <1>9, <1>10, <1>11, <1>12, <1>13
     DEF Good, Grown, e, n

(* SharedFunctionInfo::DiscardSavedOptimizedCode goes with what was marked   *)
(* or evicted: if S has every function whose code was evicted, or whose      *)
(* loaded code was deoptimized, the outcome is good again.                   *)
LEMMA Discarded ==
  ASSUME NEW o, Good(o), NEW y \in Outcome, NEW S \in SUBSET Shared,
         y.db = o.db, y.sfi = o.sfi, y.hasSaved = o.hasSaved,
         y.disabled = o.disabled, y.codeMap \subseteq o.codeMap,
         Len(y.heap) = Len(o.heap),
         \A k \in 1..Len(o.heap) :
           /\ y.heap[k].shared = o.heap[k].shared
           /\ y.heap[k].inlined = o.heap[k].inlined
           /\ y.heap[k].loaded = o.heap[k].loaded
           /\ \/ /\ y.heap[k].marked = o.heap[k].marked
                 /\ y.heap[k].bailedOut = o.heap[k].bailedOut
              \/ o.heap[k].shared \in S,
         \A e \in y.codeMap : ~y.heap[e.code].marked,
         \A e \in o.codeMap : e \in y.codeMap \/ e.shared \in S,
         NEW x, x = Discard(y, S)
  PROVE  /\ Good(x) /\ x.heap = y.heap /\ x.sfi = o.sfi /\ x.result = y.result
         /\ x.codeMap = y.codeMap /\ x.disabled = o.disabled
<1>0. o \in Outcome
  BY DEF Good
<1> DEFINE d == [p \in Position |-> IF \E t \in S : Start(t) = p
                                    THEN NoChunk ELSE y.db[p]]
           h == [t \in Shared |-> y.hasSaved[t] /\ t \notin S]
<1>1. /\ d \in [Position -> SavedChunk \cup {NoChunk}]
      /\ h \in [Shared -> BOOLEAN]
  BY OutcomeFields
<1>2. /\ Process = "save" => x = [y EXCEPT !.db = d]
      /\ Process # "save" => x = [y EXCEPT !.hasSaved = h]
  BY DEF Discard
<1>3. \A p \in Position : d[p] # NoChunk => d[p] = o.db[p] /\ \A t \in S : Start(t) # p
  OBVIOUS
<1>4. \A t \in Shared : h[t] => o.hasSaved[t] /\ t \notin S
  OBVIOUS
<1> HIDE DEF d, h
<1>5. /\ x \in Outcome /\ x.heap = y.heap /\ x.sfi = o.sfi /\ x.codeMap = y.codeMap
      /\ x.disabled = o.disabled /\ x.result = y.result
      /\ Process = "save" => x.db = d /\ x.hasSaved = o.hasSaved
      /\ Process # "save" => x.db = o.db /\ x.hasSaved = h
  <2>1. CASE Process = "save"
    <3>1. x = [y EXCEPT !.db = d]
      BY <1>2, <2>1
    <3> QED
      BY <1>1, <2>1, <3>1 DEF Outcome
  <2>2. CASE Process # "save"
    <3>1. x = [y EXCEPT !.hasSaved = h]
      BY <1>2, <2>2
    <3> QED
      BY <1>1, <2>2, <3>1 DEF Outcome
  <2> QED
    BY <2>1, <2>2
<1>6. \A e \in o.codeMap : e.code \in 1..Len(o.heap) /\ o.heap[e.code].shared = e.shared
  BY DEF Good, MapOK
<1>7. MapOK(x)
  BY <1>5, <1>6 DEF MapOK
<1>8. SupportOK(x)
  BY <1>5 DEF SupportOK, Good
<1>9. SavedOK(x)
  <2> SUFFICES ASSUME Process = "save"
               PROVE  SavedOK(x)
    BY DEF SavedOK
  <2>1. \A t \in Shared : ~x.hasSaved[t]
    BY <1>5 DEF Good, SavedOK
  <2>2. ASSUME NEW p \in Position, d[p] # NoChunk
        PROVE  /\ Storable(p, d[p])
               /\ d[p].made \in 1..Len(y.heap)
               /\ Start(y.heap[d[p].made].shared) = p
               /\ \E e \in y.codeMap : e.code = d[p].made
    <3>1. d[p] = o.db[p] /\ o.db[p] # NoChunk /\ \A t \in S : Start(t) # p
      BY <1>3, <2>2
    <3>2. /\ Storable(p, d[p])
          /\ d[p].made \in 1..Len(o.heap)
          /\ Start(o.heap[d[p].made].shared) = p
          /\ \E e \in o.codeMap : e.code = d[p].made
      BY <3>1 DEF Good, SavedOK
    <3>3. PICK e \in o.codeMap : e.code = d[p].made
      BY <3>2
    <3>4. e.shared \notin S
      BY <1>6, <3>1, <3>2, <3>3
    <3> QED
      BY <3>2, <3>3, <3>4
  <2> QED
    BY <1>5, <2>1, <2>2 DEF SavedOK
<1>10. LoadOK(x)
  <2>1. \A t \in Shared : x.hasSaved[t] => o.hasSaved[t] /\ x.db = o.db /\ t \notin S
    BY <1>4, <1>5 DEF Good, SavedOK
  <2>2. \A k \in 1..Len(o.heap) : o.heap[k].shared \in Shared
    BY <1>0, OutcomeFields, CodeFields
  <2>3. ASSUME NEW k \in 1..Len(o.heap), y.heap[k].loaded,
               y.heap[k].marked \/ y.heap[k].bailedOut
        PROVE  ~x.hasSaved[y.heap[k].shared]
    <3>1. CASE o.heap[k].shared \in S
      BY <2>1, <2>2, <3>1
    <3>2. CASE /\ y.heap[k].marked = o.heap[k].marked
               /\ y.heap[k].bailedOut = o.heap[k].bailedOut
      <4>1. ~o.hasSaved[o.heap[k].shared]
        BY <2>3, <3>2 DEF Good, LoadOK
      <4> QED
        BY <2>1, <2>2, <4>1
    <3> QED
      BY <3>1, <3>2
  <2> QED
    BY <1>5, <2>1, <2>3 DEF Good, LoadOK
<1> QED
  BY <1>5, <1>7, <1>8, <1>9, <1>10 DEF Good

(* What a compilation for s that began with o and ended with r may do. *)
Compiled(o, r, s) ==
  /\ Good(r)
  /\ \A t \in Shared : o.sfi[t] # "none" => r.sfi[t] # "none"
  /\ Len(o.heap) <= Len(r.heap)
  /\ \A k \in 1..Len(o.heap) : r.heap[k] = o.heap[k]
  /\ r.result = Full => r.heap = o.heap /\ ~r.hasSaved[s]
  /\ r.result # Full => /\ r.result \in 1..Len(r.heap)
                        /\ r.heap[r.result].shared = s
                        /\ ~r.heap[r.result].marked

Fail(o, s) == [o EXCEPT !.hasSaved[s] = FALSE]
Disable(o, s, b) == [o EXCEPT !.disabled[s] = b]

(* A load that failed. *)
LEMMA Failed ==
  ASSUME NEW o, Good(o), NEW s \in Shared, NEW r, r = Fail(o, s)
  PROVE  /\ Good(r) /\ r.result = o.result /\ r.heap = o.heap /\ r.sfi = o.sfi
         /\ ~r.hasSaved[s]
<1>0. o \in Outcome /\ o.hasSaved \in [Shared -> BOOLEAN]
  BY OutcomeFields DEF Good
<1>1. /\ r \in Outcome /\ r.result = o.result /\ r.heap = o.heap /\ r.sfi = o.sfi
      /\ r.db = o.db /\ r.codeMap = o.codeMap /\ r.disabled = o.disabled
      /\ r.hasSaved = [o.hasSaved EXCEPT ![s] = FALSE]
  BY <1>0 DEF Outcome, Fail
<1>2. ~r.hasSaved[s] /\ \A t \in Shared : r.hasSaved[t] => o.hasSaved[t]
  BY <1>0, <1>1
<1>3. \A k \in 1..Len(o.heap) : o.heap[k].shared \in Shared
  BY <1>0, OutcomeFields, CodeFields
<1>4. MapOK(r) /\ SupportOK(r)
  BY <1>1 DEF Good, MapOK, SupportOK
<1>5. SavedOK(r)
  BY <1>1, <1>2 DEF Good, SavedOK
<1>6. LoadOK(r)
  BY <1>1, <1>2, <1>3 DEF Good, LoadOK
<1> QED
  BY <1>1, <1>2, <1>4, <1>5, <1>6 DEF Good

(* A compilation that disables optimization. *)
LEMMA Disabled ==
  ASSUME NEW o, Good(o), NEW s \in Shared, NEW b \in BOOLEAN,
         ~o.hasSaved[s], o.sfi[s] # "none", NEW r, r = Disable(o, s, b)
  PROVE  /\ Good(r) /\ r.result = o.result /\ r.heap = o.heap /\ r.sfi = o.sfi
         /\ r.hasSaved = o.hasSaved
<1>0. o \in Outcome /\ o.disabled \in [Shared -> BOOLEAN]
  BY OutcomeFields DEF Good
<1>1. /\ r \in Outcome /\ r.result = o.result /\ r.heap = o.heap /\ r.sfi = o.sfi
      /\ r.db = o.db /\ r.codeMap = o.codeMap /\ r.hasSaved = o.hasSaved
      /\ r.disabled = [o.disabled EXCEPT ![s] = b]
  BY <1>0 DEF Outcome, Disable
<1>2. \A t \in Shared : t # s => r.disabled[t] = o.disabled[t]
  BY <1>0, <1>1
<1>3. MapOK(r) /\ SupportOK(r) /\ SavedOK(r)
  BY <1>1 DEF Good, MapOK, SupportOK, SavedOK
<1>4. LoadOK(r)
  BY <1>1, <1>2 DEF Good, LoadOK
<1> QED
  BY <1>1, <1>3, <1>4 DEF Good

(* LoadOptimizedCode, whether it succeeds or not.  The chunk is there, so    *)
(* its parts are what a saving process wrote.                                *)
LEMMA Loaded ==
  ASSUME TypeOK, NEW o, Good(o), NEW s \in Shared, NEW osr \in Loop \cup {NoLoop},
         o.result = Full, o.hasSaved[s], o.sfi[s] = "deopt",
         \A l \in Literal : current[l] # NoShared => o.sfi[current[l]] # "none",
         NEW r \in LoadOptimizedCode(o, s, osr)
  PROVE  Compiled(o, r, s)
<1> DEFINE ck == o.db[Start(s)]
           reached == {current[l] : l \in ck.inlined}
           failed == Fail(o, s)
           yes == TRUE
<1>0. o \in Outcome /\ o.sfi \in [Shared -> {"none", "lazy", "full", "deopt"}]
      /\ Len(o.heap) \in Nat
  BY OutcomeFields DEF Good
<1>1. ck \in SavedChunk
  <2>1. Start(s) \in Position
    BY SetAssumption DEF Start, Position
  <2>2. o.db \in [Position -> SavedChunk \cup {NoChunk}]
    BY <1>0, OutcomeFields
  <2> QED
    BY <2>1, <2>2 DEF Good, LoadOK
<1>2. /\ ck.literal \in Literal /\ ck.loop \in Loop \cup {NoLoop}
      /\ ck.inlined \in SUBSET Literal
  BY <1>1 DEF SavedChunk
<1> HIDE DEF ck
<1>3. /\ reached \ {NoShared} \in SUBSET Shared
      /\ \A t \in reached \ {NoShared} : o.sfi[t] # "none"
  BY <1>2 DEF TypeOK
<1>4. r \in {EnsureDeoptimizationSupport(failed, R) :
               R \in SUBSET (reached \ {NoShared})}
            \cup
            (IF NoShared \in reached THEN {}
             ELSE {GenerateOptimizedCode(EnsureDeoptimizationSupport(o, reached),
                                         s, osr, ck, reached, TRUE),
                   Disable(EnsureDeoptimizationSupport(failed, reached), s, yes)})
  BY DEF LoadOptimizedCode, ck, Fail, Disable
<1> HIDE DEF reached, yes
<1>5. /\ Good(failed) /\ failed.result = Full /\ failed.heap = o.heap
      /\ failed.sfi = o.sfi /\ ~failed.hasSaved[s]
  BY Failed
<1> HIDE DEF failed
<1>6. ASSUME NEW R \in SUBSET (reached \ {NoShared}),
             NEW q, q = EnsureDeoptimizationSupport(failed, R)
      PROVE  Compiled(o, q, s) /\ q.result = Full /\ ~q.hasSaved[s]
  <2>1. R \in SUBSET Shared /\ \A t \in R : failed.sfi[t] # "none"
    BY <1>3, <1>5
  <2>2. /\ Good(q) /\ q.result = failed.result /\ q.hasSaved = failed.hasSaved
        /\ q.heap = failed.heap
        /\ \A t \in R : q.sfi[t] = "deopt"
        /\ \A t \in Shared \ R : q.sfi[t] = failed.sfi[t]
    BY <1>5, <1>6, <2>1, Supported
  <2> QED
    BY <1>0, <1>5, <2>2 DEF Compiled
<1>7. CASE \E R \in SUBSET (reached \ {NoShared}) :
             r = EnsureDeoptimizationSupport(failed, R)
  BY <1>6, <1>7
<1>8. CASE /\ NoShared \notin reached
           /\ r = GenerateOptimizedCode(EnsureDeoptimizationSupport(o, reached),
                                        s, osr, ck, reached, TRUE)
  <2> DEFINE e == EnsureDeoptimizationSupport(o, reached)
  <2>1. reached \in SUBSET Shared /\ \A t \in reached : o.sfi[t] # "none"
    BY <1>3, <1>8
  <2>2. /\ Good(e) /\ e.heap = o.heap
        /\ \A t \in reached : e.sfi[t] = "deopt"
        /\ \A t \in Shared \ reached : e.sfi[t] = o.sfi[t]
    BY <2>1, Supported
  <2>3. r \in NewCode(e, s, osr, ck, reached)
    BY <1>8 DEF NewCode
  <2> HIDE DEF e
  <2>4. e.sfi[s] = "deopt"
    BY <2>2
  <2>5. /\ Good(r) /\ r.sfi = e.sfi
        /\ r.result = Len(e.heap) + 1 /\ Len(r.heap) = Len(e.heap) + 1
        /\ \A k \in 1..Len(e.heap) : r.heap[k] = e.heap[k]
        /\ r.heap[r.result].shared = s /\ ~r.heap[r.result].marked
    <3>1. Grown(e, r, s, osr, ck, reached)
      BY <1>2, <2>1, <2>2, <2>3, <2>4, Generated
    <3> QED
      BY <3>1 DEF Grown
  <2>6. r.heap[r.result].shared = s /\ ~r.heap[r.result].marked
    BY <2>5
  <2>7. r.result # Full /\ r.result \in 1..Len(r.heap) /\ Len(o.heap) <= Len(r.heap)
    BY <1>0, <2>2, <2>5 DEF Full
  <2>8. \A t \in Shared : o.sfi[t] # "none" => r.sfi[t] # "none"
    BY <2>2, <2>5
  <2> QED
    BY <2>2, <2>5, <2>6, <2>7, <2>8 DEF Compiled
<1>9. CASE /\ NoShared \notin reached
           /\ r = Disable(EnsureDeoptimizationSupport(failed, reached), s, yes)
  <2> DEFINE e == EnsureDeoptimizationSupport(failed, reached)
  <2>1. Compiled(o, e, s) /\ e.result = Full /\ ~e.hasSaved[s]
    BY <1>6, <1>9
  <2>2. r = Disable(e, s, yes)
    BY <1>9
  <2> HIDE DEF e
  <2>3. e.sfi[s] # "none" /\ Good(e) /\ yes \in BOOLEAN
    BY <2>1 DEF Compiled, yes
  <2>4. /\ Good(r) /\ r.result = e.result /\ r.heap = e.heap /\ r.sfi = e.sfi
        /\ r.hasSaved = e.hasSaved
    BY <2>1, <2>2, <2>3, Disabled
  <2> QED
    BY <2>1, <2>4 DEF Compiled
<1> QED
  BY <1>4, <1>7, <1>8, <1>9

(* CreateGraph, OptimizeGraph and GenerateOptimizedCode, and what the code   *)
(* is made from.                                                             *)
LEMMA Made ==
  ASSUME NEW o, Good(o), NEW s \in Shared, NEW osr \in Loop \cup {NoLoop},
         o.result = Full, ~o.hasSaved[s], o.sfi[s] # "none",
         \A t \in Shared : sfi[t] # "none" => o.sfi[t] # "none",
         NEW r \in MakeOptimizedCode(o, s, osr)
  PROVE  /\ Compiled(o, r, s) /\ r.db = o.db
         /\ r.result # Full =>
              LET k == r.heap[r.result] IN
              /\ k.literal = LiteralOf[s] /\ k.loop = osr
              /\ \A t \in k.inlined : LiteralOf[t] \in Callee[LiteralOf[s]]
              /\ [shared |-> s, osr |-> osr, code |-> r.result] \in r.codeMap
<1> DEFINE e == EnsureDeoptimizationSupport(o, {s})
           targets == {t \in Shared : LiteralOf[t] \in Callee[LiteralOf[s]]
                                        /\ sfi[t] # "none"}
           Inlining(I) == EnsureDeoptimizationSupport(e, I)
           ck == [literal |-> LiteralOf[s], loop |-> osr]
<1>0. o \in Outcome /\ Len(o.heap) \in Nat
  BY OutcomeFields DEF Good
<1>1. /\ Good(e) /\ e.result = Full /\ e.heap = o.heap /\ e.hasSaved = o.hasSaved
      /\ e.db = o.db
      /\ e.sfi[s] = "deopt" /\ \A t \in Shared \ {s} : e.sfi[t] = o.sfi[t]
  <2>1. {s} \in SUBSET Shared /\ \A t \in {s} : o.sfi[t] # "none"
    OBVIOUS
  <2>2. /\ Good(e) /\ e.result = o.result /\ e.heap = o.heap
        /\ e.hasSaved = o.hasSaved /\ e.db = o.db
        /\ \A t \in {s} : e.sfi[t] = "deopt"
        /\ \A t \in Shared \ {s} : e.sfi[t] = o.sfi[t]
    BY <2>1, Supported
  <2> QED
    BY <2>2
<1>2. \/ \E I \in SUBSET targets, d \in BOOLEAN : r = Disable(Inlining(I), s, d)
      \/ \E I \in SUBSET targets :
           r = GenerateOptimizedCode(Inlining(I), s, osr, ck, I, FALSE)
  <2> DEFINE A == {Disable(Inlining(I), s, d) : I \in SUBSET targets,
                                                d \in BOOLEAN}
             B == {GenerateOptimizedCode(Inlining(I), s, osr, ck, I, FALSE) :
                     I \in SUBSET targets}
  <2>1. MakeOptimizedCode(o, s, osr) = A \cup B
    BY DEF MakeOptimizedCode, Disable
  <2> HIDE DEF A, B, Inlining, ck
  <2>2. r \in A \/ r \in B
    BY <2>1
  <2>3. r \in A => \E I \in SUBSET targets : \E d \in BOOLEAN :
                     r = Disable(Inlining(I), s, d)
    BY DEF A
  <2>4. r \in B => \E I \in SUBSET targets :
                     r = GenerateOptimizedCode(Inlining(I), s, osr, ck, I, FALSE)
    BY DEF B
  <2> QED
    BY <2>2, <2>3, <2>4
<1>3. ck.literal = LiteralOf[s] /\ ck.loop = osr /\ ck.literal \in Literal
  BY SetAssumption
<1> HIDE DEF e, ck
<1>4. ASSUME NEW I \in SUBSET targets, NEW q, q = Inlining(I)
      PROVE  /\ Good(q) /\ q.result = Full /\ q.heap = o.heap
             /\ q.hasSaved = o.hasSaved /\ q.db = o.db
             /\ q.sfi[s] = "deopt" /\ \A t \in I : q.sfi[t] = "deopt"
             /\ \A t \in Shared : o.sfi[t] # "none" => q.sfi[t] # "none"
             /\ I \in SUBSET Shared
             /\ \A t \in I : LiteralOf[t] \in Callee[LiteralOf[s]]
  <2>1. I \in SUBSET Shared /\ \A t \in I : e.sfi[t] # "none"
    BY <1>1
  <2>2. /\ Good(q) /\ q.result = e.result /\ q.heap = e.heap
        /\ q.hasSaved = e.hasSaved /\ q.db = e.db
        /\ \A t \in I : q.sfi[t] = "deopt"
        /\ \A t \in Shared \ I : q.sfi[t] = e.sfi[t]
    BY <1>1, <1>4, <2>1, Supported
  <2> QED
    BY <1>1, <2>1, <2>2
<1> HIDE DEF Inlining
<1>5. CASE \E I \in SUBSET targets, d \in BOOLEAN :
             r = Disable(Inlining(I), s, d)
  <2> PICK I \in SUBSET targets, d \in BOOLEAN :
             r = Disable(Inlining(I), s, d)
    BY <1>5
  <2> DEFINE q == Inlining(I)
  <2>1. /\ Good(q) /\ q.result = Full /\ q.heap = o.heap
        /\ q.hasSaved = o.hasSaved /\ q.db = o.db
        /\ q.sfi[s] = "deopt"
        /\ \A t \in Shared : o.sfi[t] # "none" => q.sfi[t] # "none"
    BY <1>4
  <2>2. r = Disable(q, s, d)
    OBVIOUS
  <2> HIDE DEF q
  <2>3. /\ Good(r) /\ r.result = q.result /\ r.heap = q.heap /\ r.sfi = q.sfi
        /\ r.hasSaved = q.hasSaved
    BY <2>1, <2>2, Disabled
  <2>4. r.db = q.db
    <3>1. q \in Outcome
      BY <2>1 DEF Good
    <3> QED
      BY <2>2, <3>1 DEF Outcome, Disable
  <2> QED
    BY <1>0, <2>1, <2>3, <2>4 DEF Compiled
<1>6. CASE \E I \in SUBSET targets :
             r = GenerateOptimizedCode(Inlining(I), s, osr, ck, I, FALSE)
  <2>0. PICK I \in SUBSET targets :
               r = GenerateOptimizedCode(Inlining(I), s, osr, ck, I, FALSE)
    BY <1>6
  <2> DEFINE q == Inlining(I)
  <2>1. /\ Good(q) /\ q.result = Full /\ q.heap = o.heap
        /\ q.hasSaved = o.hasSaved /\ q.db = o.db
        /\ q.sfi[s] = "deopt" /\ \A t \in I : q.sfi[t] = "deopt"
        /\ \A t \in Shared : o.sfi[t] # "none" => q.sfi[t] # "none"
        /\ I \in SUBSET Shared
        /\ \A t \in I : LiteralOf[t] \in Callee[LiteralOf[s]]
    BY <1>4
  <2>2. r \in NewCode(q, s, osr, ck, I)
    BY <2>0 DEF NewCode
  <2> HIDE DEF q
  <2>3. /\ Good(r) /\ r.sfi = q.sfi /\ r.db = q.db
        /\ r.result = Len(q.heap) + 1 /\ Len(r.heap) = Len(q.heap) + 1
        /\ \A k \in 1..Len(q.heap) : r.heap[k] = q.heap[k]
        /\ r.heap[r.result].shared = s /\ r.heap[r.result].inlined = I
        /\ r.heap[r.result].literal = ck.literal
        /\ r.heap[r.result].loop = ck.loop /\ ~r.heap[r.result].marked
        /\ [shared |-> s, osr |-> osr, code |-> r.result] \in r.codeMap
    <3>1. Grown(q, r, s, osr, ck, I)
      BY <1>3, <2>1, <2>2, Generated
    <3> QED
      BY <3>1 DEF Grown
  <2>4. /\ r.heap[r.result].shared = s /\ ~r.heap[r.result].marked
        /\ r.heap[r.result].literal = LiteralOf[s] /\ r.heap[r.result].loop = osr
        /\ r.heap[r.result].inlined = I
    BY <1>3, <2>3
  <2>5. r.result # Full /\ r.result \in 1..Len(r.heap) /\ Len(o.heap) <= Len(r.heap)
    <3>1. r.result = Len(o.heap) + 1 /\ Len(r.heap) = Len(o.heap) + 1
      BY <2>1, <2>3
    <3> QED
      BY <1>0, <3>1 DEF Full
  <2> QED
    BY <2>1, <2>3, <2>4, <2>5 DEF Compiled
<1> QED
  BY <1>2, <1>5, <1>6

(* SaveOptimizedCode: the chunk goes where a loading process looks for it,   *)
(* and its code is in the code map.                                          *)
LEMMA Saved ==
  ASSUME NEW o, NEW s \in Shared, NEW osr \in LoopOf[LiteralOf[s]] \cup {NoLoop},
         NEW r, Compiled(o, r, s),
         r.result # Full =>
           LET k == r.heap[r.result] IN
           /\ k.literal = LiteralOf[s] /\ k.loop = osr
           /\ \A t \in k.inlined : LiteralOf[t] \in Callee[LiteralOf[s]]
           /\ [shared |-> s, osr |-> osr, code |-> r.result] \in r.codeMap,
         NEW q \in SaveOptimizedCode(r, s)
  PROVE  Compiled(o, q, s)
<1> DEFINE k == r.heap[r.result]
           ck == [literal |-> k.literal, loop |-> k.loop,
                  inlined |-> {LiteralOf[t] : t \in k.inlined},
                  made |-> r.result]
           p == Start(s)
<1>1. CASE q = r
  BY <1>1
<1>2. CASE /\ r.result # Full /\ Process = "save" /\ LiteralOf[s] \notin Eval
           /\ q = [r EXCEPT !.db[p] = ck]
  <2>1. r \in Outcome /\ r.db \in [Position -> SavedChunk \cup {NoChunk}]
        /\ r.result \in Nat /\ Good(r)
    BY OutcomeFields DEF Compiled, Good
  <2>2. p \in Position
    BY SetAssumption DEF Start, Position
  <2>3. r.result \in 1..Len(r.heap) /\ k.shared = s
    BY <1>2 DEF Compiled
  <2>4. k \in CodeObject
    BY <2>1, <2>3, OutcomeFields
  <2>5. /\ k.literal = LiteralOf[s] /\ k.loop = osr
        /\ \A t \in k.inlined : LiteralOf[t] \in Callee[LiteralOf[s]]
        /\ [shared |-> s, osr |-> osr, code |-> r.result] \in r.codeMap
    BY <1>2
  <2>6. k.inlined \in SUBSET Shared /\ k.literal \in Literal /\ k.loop \in Loop \cup {NoLoop}
    BY <2>4, CodeFields
  <2> HIDE DEF k
  <2>7. /\ ck.literal = LiteralOf[s] /\ ck.loop = osr /\ ck.made = r.result
        /\ ck.inlined = {LiteralOf[t] : t \in k.inlined}
    BY <2>5
  <2>8. {LiteralOf[t] : t \in k.inlined} \in SUBSET Literal
        /\ {LiteralOf[t] : t \in k.inlined} \subseteq Callee[LiteralOf[s]]
    BY <2>5, <2>6, SetAssumption
  <2>9. ck \in SavedChunk
    BY <2>1, <2>6, <2>8 DEF SavedChunk
  <2>10. Storable(p, ck)
    BY <1>2, <2>7, <2>8 DEF Storable, Start
  <2> HIDE DEF ck
  <2>11. /\ q \in Outcome /\ q.db = [r.db EXCEPT ![p] = ck]
         /\ q.result = r.result /\ q.sfi = r.sfi /\ q.hasSaved = r.hasSaved
         /\ q.disabled = r.disabled /\ q.codeMap = r.codeMap /\ q.heap = r.heap
    BY <1>2, <2>1, <2>2, <2>9 DEF Outcome
  <2>12. q.db[p] = ck /\ \A t \in Position : t # p => q.db[t] = r.db[t]
    BY <2>1, <2>2, <2>11
  <2>13. MapOK(q) /\ SupportOK(q)
    BY <2>1, <2>11 DEF Good, MapOK, SupportOK
  <2>14. \E e \in r.codeMap : e.code = r.result
    BY <2>5
  <2>15. SavedOK(q)
    <3>1. \A t \in Shared : ~q.hasSaved[t]
      BY <1>2, <2>1, <2>11 DEF Good, SavedOK
    <3>2. ASSUME NEW t \in Position, q.db[t] # NoChunk
          PROVE  /\ Storable(t, q.db[t])
                 /\ q.db[t].made \in 1..Len(q.heap)
                 /\ Start(q.heap[q.db[t].made].shared) = t
                 /\ \E e \in q.codeMap : e.code = q.db[t].made
      <4>1. CASE t = p
        BY <2>3, <2>7, <2>10, <2>11, <2>12, <2>14, <4>1 DEF k
      <4>2. CASE t # p
        BY <1>2, <2>1, <2>11, <2>12, <3>2, <4>2 DEF Good, SavedOK
      <4> QED
        BY <4>1, <4>2
    <3> QED
      BY <3>1, <3>2 DEF SavedOK
  <2>16. LoadOK(q)
    <3>1. \A t \in Shared : ~q.hasSaved[t]
      BY <1>2, <2>1, <2>11 DEF Good, SavedOK
    <3>2. \A j \in 1..Len(q.heap) : q.heap[j].shared \in Shared
      BY <2>11, OutcomeFields, CodeFields
    <3> QED
      BY <2>1, <2>11, <3>1, <3>2 DEF Good, LoadOK
  <2> QED
    BY <2>11, <2>13, <2>15, <2>16 DEF Compiled, Good
<1> QED
  BY <1>1, <1>2 DEF SaveOptimizedCode

(* Compiler::GetOptimizedCode: from the cache, from the database or anew. *)
LEMMA Got ==
  ASSUME TypeOK, Good(Unchanged), CurrentOK,
         NEW s \in Shared, sfi[s] # "none",
         NEW osr \in LoopOf[LiteralOf[s]] \cup {NoLoop}, NEW fresh \in BOOLEAN,
         NEW r \in GetOptimizedCode(s, osr, fresh)
  PROVE  Compiled(Unchanged, r, s)
<1> DEFINE u == Unchanged
           cached == {e \in codeMap : e.shared = s /\ e.osr = osr}
           compiled == IF fresh \/ sfi[s] = "lazy"
                       THEN EnsureDeoptimizationSupport(Unchanged, {s})
                       ELSE Unchanged
<1>0. /\ u.result = Full /\ u.db = db /\ u.sfi = sfi /\ u.hasSaved = hasSaved
      /\ u.disabled = disabled /\ u.codeMap = codeMap /\ u.heap = heap
  BY DEF Unchanged
<1>1. osr \in Loop \cup {NoLoop} /\ {s} \in SUBSET Shared
  BY SetAssumption DEF Loop
<1>2. u \in Outcome /\ Len(heap) \in Nat
  BY <1>0, OutcomeFields DEF Good
<1>3. CASE \E e \in cached : r = [Unchanged EXCEPT !.result = e.code]
  <2>1. PICK e \in cached : r = [u EXCEPT !.result = e.code]
    BY <1>3
  <2>2. /\ e \in u.codeMap /\ e.shared = s
    BY <1>0
  <2>3. /\ e.code \in 1..Len(u.heap) /\ u.heap[e.code].shared = s
        /\ ~u.heap[e.code].marked
    BY <2>2 DEF Good, MapOK
  <2>4. e.code \in Nat /\ e.code # Full
    BY <1>0, <1>2, <2>3 DEF Full
  <2> HIDE DEF u
  <2>5. /\ r \in Outcome /\ r.result = e.code /\ r.db = u.db /\ r.sfi = u.sfi
        /\ r.hasSaved = u.hasSaved /\ r.disabled = u.disabled
        /\ r.codeMap = u.codeMap /\ r.heap = u.heap
    BY <1>2, <2>1, <2>4 DEF Outcome
  <2>6. Good(u)
    BY DEF u
  <2>7. Good(r)
    BY <2>5, <2>6 DEF Good, MapOK, SupportOK, SavedOK, LoadOK
  <2>8. Compiled(u, r, s)
    BY <1>0, <1>2, <2>3, <2>4, <2>5, <2>7 DEF Compiled
  <2> QED
    BY <2>8 DEF u
<1>4. CASE r \in GetOptimizedCodeNow(compiled, s, osr)
  <2>0. compiled = u \/ compiled = EnsureDeoptimizationSupport(u, {s})
    OBVIOUS
  <2>1. /\ Good(compiled) /\ compiled.result = Full /\ compiled.heap = heap
        /\ compiled.hasSaved = hasSaved /\ compiled.db = db
        /\ \A t \in Shared : sfi[t] # "none" => compiled.sfi[t] # "none"
    <3>1. CASE compiled = u
      BY <1>0, <3>1
    <3>2. CASE compiled = EnsureDeoptimizationSupport(u, {s})
      <4> HIDE DEF u
      <4>1. Good(u) /\ \A t \in {s} : u.sfi[t] # "none"
        BY <1>0 DEF u
      <4> HIDE DEF compiled
      <4>2. /\ Good(compiled) /\ compiled.result = u.result
            /\ compiled.heap = u.heap /\ compiled.hasSaved = u.hasSaved
            /\ compiled.db = u.db
            /\ \A t \in {s} : compiled.sfi[t] = "deopt"
            /\ \A t \in Shared \ {s} : compiled.sfi[t] = u.sfi[t]
        BY <1>1, <3>2, <4>1, Supported
      <4> QED
        BY <1>0, <4>2
    <3> QED
      BY <2>0, <3>1, <3>2
  <2>2. hasSaved[s] => compiled.sfi[s] = "deopt"
    <3>1. CASE compiled = u /\ ~(fresh \/ sfi[s] = "lazy")
      <4>1. hasSaved[s] => u.sfi[s] \in {"lazy", "deopt"}
        BY <1>0 DEF Good, LoadOK
      <4> QED
        BY <1>0, <3>1, <4>1
    <3>2. CASE compiled = EnsureDeoptimizationSupport(u, {s})
      <4> HIDE DEF u
      <4>1. Good(u) /\ \A t \in {s} : u.sfi[t] # "none"
        BY <1>0 DEF u
      <4> HIDE DEF compiled
      <4>2. \A t \in {s} : compiled.sfi[t] = "deopt"
        BY <1>1, <3>2, <4>1, Supported
      <4> QED
        BY <4>2
    <3> QED
      BY <3>1, <3>2
  <2> HIDE DEF compiled
  <2>3. Compiled(compiled, r, s)
    <3>1. CASE hasSaved[s]
      <4>1. r \in LoadOptimizedCode(compiled, s, osr)
        BY <1>4, <3>1 DEF GetOptimizedCodeNow
      <4>2. \A l \in Literal :
              current[l] # NoShared => compiled.sfi[current[l]] # "none"
        BY <2>1 DEF TypeOK, CurrentOK
      <4> QED
        BY <1>1, <2>1, <2>2, <3>1, <4>1, <4>2, Loaded
    <3>2. CASE ~hasSaved[s]
      <4>1. PICK m \in MakeOptimizedCode(compiled, s, osr) :
              r \in SaveOptimizedCode(m, s)
        BY <1>4, <3>2 DEF GetOptimizedCodeNow
      <4>2. compiled.sfi[s] # "none" /\ ~compiled.hasSaved[s]
        BY <2>1, <3>2
      <4>3. /\ Compiled(compiled, m, s)
            /\ m.result # Full =>
                 LET k == m.heap[m.result] IN
                 /\ k.literal = LiteralOf[s] /\ k.loop = osr
                 /\ \A t \in k.inlined : LiteralOf[t] \in Callee[LiteralOf[s]]
                 /\ [shared |-> s, osr |-> osr, code |-> m.result] \in m.codeMap
        BY <1>1, <2>1, <4>2, Made
      <4> QED
        BY <4>1, <4>3, Saved
    <3> QED
      BY <3>1, <3>2
  <2>4. Compiled(u, r, s)
    BY <1>0, <2>1, <2>3 DEF Compiled
  <2> QED
    BY <2>4
<1> QED
  BY <1>3, <1>4 DEF GetOptimizedCode

(* The same for the code CompileLazy gets, which may be the shared code that *)
(* another closure has got in the meantime.                                  *)
Kept(r, s) ==
  /\ Good(r)
  /\ \A t \in Shared : sfi[t] # "none" => r.sfi[t] # "none"
  /\ Len(heap) <= Len(r.heap)
  /\ \A k \in 1..Len(heap) : r.heap[k] = heap[k]
  /\ r.result = Full => r.heap = heap
  /\ r.result # Full => /\ r.result \in 1..Len(r.heap)
                        /\ r.heap[r.result].shared = s
                        /\ ~r.heap[r.result].marked

(* The fields of the state as an outcome. *)
LEMMA StateFields ==
  /\ Unchanged.result = Full /\ Unchanged.db = db /\ Unchanged.sfi = sfi
  /\ Unchanged.hasSaved = hasSaved /\ Unchanged.disabled = disabled
  /\ Unchanged.codeMap = codeMap /\ Unchanged.heap = heap
BY DEF Unchanged

(* Doing nothing. *)
LEMMA KeptUnchanged ==
  ASSUME Good(Unchanged), NEW s \in Shared
  PROVE  Kept(Unchanged, s)
<1>1. Len(heap) \in Nat
  BY StateFields, OutcomeFields DEF Good
<1> QED
  BY <1>1, StateFields DEF Kept

(* An optimizing compilation. *)
LEMMA KeptCompiled ==
  ASSUME NEW r, NEW s \in Shared, Compiled(Unchanged, r, s)
  PROVE  Kept(r, s)
BY StateFields DEF Kept, Compiled

(* Compiler::GetLazyCode. *)
LEMMA GotLazy ==
  ASSUME TypeOK, Good(Unchanged), CurrentOK,
         NEW s \in Shared, sfi[s] # "none", NEW r \in GetLazyCode(s)
  PROVE  Kept(r, s)
<1>1. CASE sfi[s] # "lazy"
  BY <1>1, KeptUnchanged DEF GetLazyCode
<1>2. ASSUME sfi[s] = "lazy", NEW o, Compiled(Unchanged, o, s), o.result = Full,
             NEW q, q = [o EXCEPT !.sfi[s] = "full"]
      PROVE  Kept(q, s)
  <2>1. /\ o \in Outcome /\ Good(o) /\ o.heap = heap /\ ~o.hasSaved[s]
        /\ o.sfi \in [Shared -> {"none", "lazy", "full", "deopt"}]
    BY <1>2, StateFields, OutcomeFields DEF Compiled, Good
  <2>2. /\ q \in Outcome /\ q.sfi = [o.sfi EXCEPT ![s] = "full"]
        /\ q.result = o.result /\ q.db = o.db /\ q.hasSaved = o.hasSaved
        /\ q.disabled = o.disabled /\ q.codeMap = o.codeMap /\ q.heap = o.heap
    BY <1>2, <2>1 DEF Outcome
  <2>3. q.sfi[s] = "full" /\ \A t \in Shared : t # s => q.sfi[t] = o.sfi[t]
    BY <2>1, <2>2
  <2>4. MapOK(q) /\ SavedOK(q)
    BY <2>1, <2>2 DEF Good, MapOK, SavedOK
  <2>5. \A k \in 1..Len(heap) :
          /\ heap[k].shared # s /\ s \notin heap[k].inlined
          /\ heap[k].shared \in Shared /\ heap[k].inlined \in SUBSET Shared
    <3>1. \A k \in 1..Len(heap) : heap[k].shared # s /\ s \notin heap[k].inlined
      BY <1>2, StateFields DEF Good, SupportOK
    <3>2. \A k \in 1..Len(heap) : heap[k] \in CodeObject
      BY StateFields, OutcomeFields DEF Good
    <3> QED
      BY <3>1, <3>2, CodeFields
  <2>6. SupportOK(q)
    BY <2>1, <2>2, <2>3, <2>5 DEF Good, SupportOK
  <2>7. LoadOK(q)
    BY <2>1, <2>2, <2>3 DEF Good, LoadOK
  <2>8. \A t \in Shared : sfi[t] # "none" => q.sfi[t] # "none"
    BY <1>2, <2>3, StateFields DEF Compiled
  <2>9. Len(heap) \in Nat
    BY StateFields, OutcomeFields DEF Good
  <2> QED
    BY <1>2, <2>1, <2>2, <2>4, <2>6, <2>7, <2>8, <2>9 DEF Kept, Good
<1>3. CASE sfi[s] = "lazy" /\ hasSaved[s] /\ ~disabled[s]
  <2> DEFINE yes == TRUE
  <2>1. NoLoop \in LoopOf[LiteralOf[s]] \cup {NoLoop} /\ yes \in BOOLEAN
    OBVIOUS
  <2>2. PICK o \in GetOptimizedCode(s, NoLoop, yes) :
          r = IF o.result # Full THEN o ELSE [o EXCEPT !.sfi[s] = "full"]
    BY <1>3 DEF GetLazyCode
  <2> HIDE DEF yes
  <2>3. Compiled(Unchanged, o, s)
    BY <2>1, Got
  <2>4. CASE o.result # Full
    BY <2>2, <2>3, <2>4, KeptCompiled
  <2>5. CASE o.result = Full
    BY <1>2, <1>3, <2>2, <2>3, <2>5
  <2> QED
    BY <2>4, <2>5
<1>4. CASE sfi[s] = "lazy" /\ ~(hasSaved[s] /\ ~disabled[s])
  <2>1. ~hasSaved[s]
    BY <1>4, StateFields DEF Good, LoadOK
  <2>2. Compiled(Unchanged, Unchanged, s)
    <3>1. Len(heap) \in Nat
      BY StateFields, OutcomeFields DEF Good
    <3> QED
      BY <2>1, <3>1, StateFields DEF Compiled
  <2>3. r = [Unchanged EXCEPT !.sfi[s] = "full"]
    BY <1>4 DEF GetLazyCode
  <2> QED
    BY <1>2, <1>4, <2>2, <2>3, StateFields
<1> QED
  BY <1>1, <1>3, <1>4

(* The state after an outcome was left behind. *)
LEMMA Left ==
  ASSUME NEW x, Good(x), Leave(x)
  PROVE  Good(Unchanged)'
<1>1. /\ Unchanged'.db = x.db /\ Unchanged'.sfi = x.sfi
      /\ Unchanged'.hasSaved = x.hasSaved /\ Unchanged'.disabled = x.disabled
      /\ Unchanged'.codeMap = x.codeMap /\ Unchanged'.heap = x.heap
      /\ Unchanged' \in Outcome
  BY OutcomeFields DEF Unchanged, Leave, Outcome, Good, Full
<1> DEFINE u == Unchanged'
<1>2. Good(u)
  <2> HIDE DEF u
  <2>1. /\ u.db = x.db /\ u.sfi = x.sfi
        /\ u.hasSaved = x.hasSaved /\ u.disabled = x.disabled
        /\ u.codeMap = x.codeMap /\ u.heap = x.heap
        /\ u \in Outcome
    BY <1>1 DEF u
  <2> QED
    BY <2>1 DEF Good, MapOK, SupportOK, SavedOK, LoadOK
<1> QED
  BY <1>2

-----------------------------------------------------------------------------
(* The steps of the program. *)

(* What the state is made of. *)
LEMMA StateShape ==
  ASSUME TierInv
  PROVE  /\ db \in [Position -> SavedChunk \cup {NoChunk}]
         /\ sfi \in [Shared -> {"none", "lazy", "full", "deopt"}]
         /\ hasSaved \in [Shared -> BOOLEAN]
         /\ disabled \in [Shared -> BOOLEAN]
         /\ codeMap \in SUBSET MapEntry /\ heap \in Seq(CodeObject)
         /\ Len(heap) \in Nat /\ Unchanged \in Outcome
         /\ \A k \in 1..Len(heap) :
              /\ heap[k] \in CodeObject /\ heap[k].shared \in Shared
              /\ heap[k].marked \in BOOLEAN
         /\ \A i \in 1..Len(stack) : stack[i] \in Frame /\ stack[i].fn \in Closure
                                     /\ stack[i].code \in Nat
         /\ Len(stack) \in Nat
         /\ \A c \in Closure : SharedOf[c] \in Shared
<1>1. Unchanged \in Outcome
  BY DEF TierInv, Good
<1>2. \A k \in 1..Len(heap) :
        /\ heap[k] \in CodeObject /\ heap[k].shared \in Shared
        /\ heap[k].marked \in BOOLEAN
  BY <1>1, StateFields, OutcomeFields, CodeFields
<1>3. /\ Len(stack) \in Nat
      /\ \A i \in 1..Len(stack) : stack[i] \in Frame
  BY LenProperties, ElementOfSeq DEF TierInv, TypeOK
<1>4. \A i \in 1..Len(stack) : stack[i].fn \in Closure /\ stack[i].code \in Nat
  BY <1>3 DEF Frame
<1> QED
  BY <1>1, <1>2, <1>3, <1>4, StateFields, OutcomeFields, SetAssumption

(* JSFunction::ReplaceCode of a closure no frame of which runs its code. *)
LEMMA Replaced ==
  ASSUME TierInv, NEW c \in Closure, NEW o, Kept(o, SharedOf[c]), NEW k,
         k = Full \/ k = o.result, code[c] # NoFunction, ReplaceCode(o, c, k),
         UNCHANGED current,
         \A i \in 1..Len(stack) :
           stack[i].fn = c /\ stack[i].code \in 1..Len(heap) =>
             heap[stack[i].code].marked
  PROVE  /\ Good(Unchanged)' /\ ClosureOK' /\ CurrentOK'
         /\ code' \in [Closure -> Int] /\ heap' = o.heap
         /\ k \in 0..Len(heap') /\ code'[c] = k
         /\ \A i \in 1..Len(stack) : Fits(stack[i], heap', code')
<1> DEFINE s == SharedOf[c]
           again == Optimized(code[c]) /\ Optimized(k)
           y == [o EXCEPT !.codeMap = Evict(@, s, code[c])]
           x == IF again THEN Discard(y, {s}) ELSE o
<1>0. /\ Good(o) /\ o \in Outcome /\ s \in Shared
      /\ Len(heap) \in Nat /\ Len(o.heap) \in Nat /\ Len(heap) <= Len(o.heap)
      /\ \A j \in 1..Len(heap) : o.heap[j] = heap[j]
      /\ code \in [Closure -> Int]
  BY StateShape, OutcomeFields, SetAssumption DEF Kept, Good, TierInv, TypeOK
<1>1. code' = [code EXCEPT ![c] = k] /\ Leave(x)
  BY DEF ReplaceCode
<1>2. Good(x) /\ x.heap = o.heap /\ x.sfi = o.sfi
  <2>1. CASE ~again
    BY <1>0, <2>1
  <2>2. CASE again
    <3>1. /\ y \in Outcome /\ y.codeMap = Evict(o.codeMap, s, code[c])
          /\ y.result = o.result /\ y.sfi = o.sfi /\ y.hasSaved = o.hasSaved
          /\ y.disabled = o.disabled /\ y.db = o.db /\ y.heap = o.heap
      BY <1>0 DEF Outcome, Evict
    <3>2. /\ y.codeMap \subseteq o.codeMap
          /\ \A e \in o.codeMap : e \in y.codeMap \/ e.shared \in {s}
      BY <3>1 DEF Evict
    <3>3. \A e \in y.codeMap : ~y.heap[e.code].marked
      BY <1>0, <3>1, <3>2 DEF Good, MapOK
    <3>4. x = Discard(y, {s}) /\ {s} \in SUBSET Shared
      BY <1>0, <2>2
    <3> HIDE DEF x, y
    <3> QED
      BY <1>0, <3>1, <3>2, <3>3, <3>4, Discarded
  <2> QED
    BY <2>1, <2>2
<1> HIDE DEF x
<1>3. Good(Unchanged)'
  BY <1>1, <1>2, Left
<1>4. heap' = o.heap /\ sfi' = o.sfi
  BY <1>1, <1>2 DEF Leave
<1>5. /\ k \in 0..Len(heap') /\ k \in Int
      /\ k \in 1..Len(heap') => heap'[k].shared = s /\ ~heap'[k].marked
  BY <1>0, <1>4 DEF Kept, Full
<1>6. /\ code' \in [Closure -> Int] /\ code'[c] = k
      /\ \A d \in Closure : d # c => code'[d] = code[d]
  BY <1>0, <1>1, <1>5
<1>7. \A t \in Shared : sfi[t] # "none" => sfi'[t] # "none"
  BY <1>4 DEF Kept
<1>8. \A j \in 1..Len(heap) : j \in 1..Len(heap') /\ heap'[j] = heap[j]
  BY <1>0, <1>4
<1>9. ClosureOK'
  <2> SUFFICES ASSUME NEW d \in Closure
               PROVE  /\ code'[d] \in {NoFunction, Marked, Lazy, Full} \cup 1..Len(heap')
                      /\ code'[d] # NoFunction => sfi'[SharedOf[d]] # "none"
                      /\ code'[d] \in 1..Len(heap') =>
                           /\ heap'[code'[d]].shared = SharedOf[d]
                           /\ ~heap'[code'[d]].marked
    BY DEF ClosureOK
  <2>1. CASE d = c
    <3>1. code'[d] \in {Full} \cup 1..Len(heap')
      BY <1>0, <1>4, <1>5, <1>6, <2>1 DEF Full
    <3>2. sfi[s] # "none"
      BY DEF TierInv, ClosureOK
    <3> QED
      BY <1>0, <1>5, <1>6, <1>7, <2>1, <3>1, <3>2
  <2>2. CASE d # c
    <3>1. /\ code[d] \in {NoFunction, Marked, Lazy, Full} \cup 1..Len(heap)
          /\ code[d] # NoFunction => sfi[SharedOf[d]] # "none"
          /\ code[d] \in 1..Len(heap) => /\ heap[code[d]].shared = SharedOf[d]
                                         /\ ~heap[code[d]].marked
      BY DEF TierInv, ClosureOK
    <3>2. code[d] \in 1..Len(heap') => code[d] \in 1..Len(heap)
      BY <3>1 DEF NoFunction, Marked, Lazy, Full
    <3>3. SharedOf[d] \in Shared
      BY SetAssumption
    <3> QED
      BY <1>6, <1>7, <1>8, <2>2, <3>1, <3>2, <3>3
  <2> QED
    BY <2>1, <2>2
<1>10. CurrentOK'
  BY <1>7 DEF TierInv, TypeOK, CurrentOK
<1>11. ASSUME NEW i \in 1..Len(stack)
       PROVE  Fits(stack[i], heap', code')
  <2>1. Fits(stack[i], heap, code) /\ stack[i].fn \in Closure
    BY StateShape DEF TierInv, FrameOK
  <2>2. stack[i].code \in 0..Len(heap') /\ (stack[i].code \in 1..Len(heap')
                                            => stack[i].code \in 1..Len(heap))
    BY <1>0, <1>4, <2>1 DEF Fits
  <2>3. code'[stack[i].fn] # NoFunction
    <3>1. k # NoFunction
      BY <1>0, <1>4, <1>5 DEF NoFunction
    <3> QED
      BY <1>6, <2>1, <3>1 DEF Fits
  <2>4. ASSUME stack[i].code \in 1..Len(heap'), ~heap'[stack[i].code].marked
        PROVE  code'[stack[i].fn] = stack[i].code
    <3>1. stack[i].code \in 1..Len(heap) /\ ~heap[stack[i].code].marked
      BY <1>8, <2>2, <2>4
    <3>2. stack[i].fn # c
      BY <3>1
    <3> QED
      BY <1>6, <2>1, <3>1, <3>2 DEF Fits
  <2> QED
    BY <2>2, <2>3, <2>4 DEF Fits
<1> QED
  BY <1>3, <1>4, <1>5, <1>6, <1>9, <1>10, <1>11

(* A new frame on top of the stack. *)
LEMMA Pushed ==
  ASSUME TypeOK, NEW c \in Closure, NEW k \in Nat,
         stack' = Append(stack, [fn |-> c, code |-> k]),
         \A i \in 1..Len(stack) : Fits(stack[i], heap', code'),
         Fits([fn |-> c, code |-> k], heap', code')
  PROVE  stack' \in Seq(Frame) /\ FrameOK'
<1> DEFINE f == [fn |-> c, code |-> k]
<1>1. f \in Frame /\ stack \in Seq(Frame)
  BY DEF Frame, TypeOK
<1> HIDE DEF f
<1>2. /\ stack' \in Seq(Frame) /\ Len(stack) \in Nat /\ Len(stack') = Len(stack) + 1
      /\ \A i \in 1..Len(stack) : stack'[i] = stack[i]
      /\ stack'[Len(stack) + 1] = f
  BY <1>1, PushSeq DEF f
<1>3. \A i \in 1..Len(stack') : i \in 1..Len(stack) \/ i = Len(stack) + 1
  BY <1>2
<1>4. \A i \in 1..Len(stack') : Fits(stack'[i], heap', code')
  BY <1>2, <1>3 DEF f
<1> QED
  BY <1>2, <1>4 DEF FrameOK

(* Another frame in place of the top one. *)
LEMMA Topped ==
  ASSUME TypeOK, stack # <<>>, NEW c \in Closure, NEW k \in Nat,
         stack' = Append(Front(stack), [fn |-> c, code |-> k]),
         \A i \in 1 .. Len(stack) - 1 : Fits(stack[i], heap', code'),
         Fits([fn |-> c, code |-> k], heap', code')
  PROVE  stack' \in Seq(Frame) /\ FrameOK'
<1> DEFINE f == [fn |-> c, code |-> k]
           r == Front(stack)
<1>1. f \in Frame /\ stack \in Seq(Frame)
  BY DEF Frame, TypeOK
<1>2. /\ r \in Seq(Frame) /\ Len(r) = Len(stack) - 1
      /\ \A i \in 1 .. Len(stack) - 1 : r[i] = stack[i]
  BY <1>1, FrontSeq
<1> HIDE DEF f, r
<1>3. /\ stack' \in Seq(Frame) /\ Len(r) \in Nat /\ Len(stack') = Len(r) + 1
      /\ \A i \in 1..Len(r) : stack'[i] = r[i]
      /\ stack'[Len(r) + 1] = f
  BY <1>1, <1>2, PushSeq DEF f, r
<1>4. \A i \in 1..Len(stack') : i \in 1..Len(r) \/ i = Len(r) + 1
  BY <1>3
<1>5. \A i \in 1..Len(stack') : Fits(stack'[i], heap', code')
  BY <1>2, <1>3, <1>4 DEF f
<1> QED
  BY <1>3, <1>5 DEF FrameOK

(* Runtime_CompileLazy and Runtime_CompileOptimized, then the call. *)
LEMMA StepCompile ==
  ASSUME TierInv, NEW c \in Closure, CompileLazy(c) \/ CompileOptimized(c)
  PROVE  TierInv'
<1> DEFINE s == SharedOf[c]
<1>0. /\ TypeOK /\ Good(Unchanged) /\ CurrentOK /\ s \in Shared
      /\ code[c] \in {Lazy, Marked} /\ sfi[s] # "none" /\ code[c] # NoFunction
  <2>1. code[c] \in {Lazy, Marked}
    BY DEF CompileLazy, CompileOptimized
  <2>2. code[c] # NoFunction
    BY <2>1 DEF NoFunction, Lazy, Marked
  <2> QED
    BY <2>1, <2>2, StateShape DEF TierInv, ClosureOK
<1>1. PICK o : /\ Kept(o, s) /\ ReplaceCode(o, c, o.result)
               /\ Enter(c, o.result)
  <2>1. CASE CompileLazy(c)
    <3>1. PICK o \in GetLazyCode(s) : ReplaceCode(o, c, o.result) /\ Enter(c, o.result)
      BY <2>1 DEF CompileLazy
    <3>2. Kept(o, s)
      BY <1>0, GotLazy
    <3> QED
      BY <3>1, <3>2
  <2>2. CASE CompileOptimized(c)
    <3> DEFINE no == FALSE
    <3>1. PICK o \in IF disabled[s] THEN {Unchanged}
                     ELSE GetOptimizedCode(s, NoLoop, no) :
            ReplaceCode(o, c, o.result) /\ Enter(c, o.result)
      BY <2>2 DEF CompileOptimized
    <3>2. NoLoop \in LoopOf[LiteralOf[s]] \cup {NoLoop} /\ no \in BOOLEAN
      OBVIOUS
    <3> HIDE DEF no
    <3>3. CASE o = Unchanged
      BY <1>0, <3>1, <3>3, KeptUnchanged
    <3>4. CASE o \in GetOptimizedCode(s, NoLoop, no)
      <4>1. Compiled(Unchanged, o, s)
        BY <1>0, <3>2, <3>4, Got
      <4> QED
        BY <1>0, <3>1, <4>1, KeptCompiled
    <3> QED
      BY <3>1, <3>3, <3>4
  <2> QED
    BY <2>1, <2>2
<1>2. UNCHANGED <<patched, current>>
  BY DEF CompileLazy, CompileOptimized
<1>3. \A i \in 1..Len(stack) :
        stack[i].fn = c /\ stack[i].code \in 1..Len(heap) =>
          heap[stack[i].code].marked
  <2>1. \A i \in 1..Len(stack) : Fits(stack[i], heap, code)
    BY DEF TierInv, FrameOK
  <2>2. \A j \in 1..Len(heap) : j # code[c]
    BY <1>0, StateShape DEF Lazy, Marked
  <2> QED
    BY <2>1, <2>2 DEF Fits
<1>4. /\ Good(Unchanged)' /\ ClosureOK' /\ CurrentOK'
      /\ code' \in [Closure -> Int] /\ heap' = o.heap
      /\ o.result \in 0..Len(heap') /\ code'[c] = o.result
      /\ \A i \in 1..Len(stack) : Fits(stack[i], heap', code')
  BY <1>0, <1>1, <1>2, <1>3, Replaced
<1>5. o.result \in Nat /\ o.result # NoFunction
  BY <1>1, OutcomeFields DEF Kept, Good, NoFunction
<1>6. Fits([fn |-> c, code |-> o.result], heap', code')
  BY <1>4, <1>5 DEF Fits
<1>7. stack' \in Seq(Frame) /\ FrameOK'
  BY <1>0, <1>1, <1>4, <1>5, <1>6, Pushed DEF Enter
<1> QED
  BY <1>0, <1>2, <1>4, <1>7 DEF TierInv, TypeOK

(* Runtime_CompileForOnStackReplacement. *)
LEMMA StepOsr ==
  ASSUME TierInv, NEW l \in Loop, CompileForOnStackReplacement(l)
  PROVE  TierInv'
<1> DEFINE c == Top.fn
           s == SharedOf[c]
           n == Len(stack)
           no == FALSE
<1>0. /\ TypeOK /\ Good(Unchanged) /\ CurrentOK /\ stack # <<>>
      /\ UNCHANGED current /\ patched' \in SUBSET Shared
  BY DEF TierInv, TypeOK, CompileForOnStackReplacement
<1>1. /\ Top = stack[n] /\ n \in Nat \ {0} /\ n \in 1..n
  <2>1. stack \in Seq(Frame)
    BY <1>0 DEF TypeOK
  <2>2. Last(stack) = stack[n] /\ n \in Nat \ {0}
    BY <1>0, <2>1, FrontSeq
  <2> QED
    BY <2>2 DEF Top
<1>2. /\ c \in Closure /\ s \in Shared /\ Top.code = Full
      /\ code[c] # NoFunction /\ sfi[s] # "none"
  <2>1. c \in Closure /\ s \in Shared /\ Fits(stack[n], heap, code)
    BY <1>1, StateShape DEF TierInv, FrameOK
  <2> QED
    BY <1>1, <2>1 DEF Fits, TierInv, ClosureOK, CompileForOnStackReplacement
<1>3. PICK o \in IF IsSuitableForOnStackReplacement(c)
                 THEN GetOptimizedCode(s, l, no) ELSE {Unchanged} :
        \/ /\ o.result # Full
           /\ o.heap[o.result].loop # NoLoop
           /\ ReplaceCode(o, c, o.result)
           /\ stack' = Append(Front(stack), [fn |-> c, code |-> o.result])
        \/ /\ o.result # Full => o.heap[o.result].loop = NoLoop
           /\ IF Optimized(code[c]) THEN Leave(o) /\ UNCHANGED code
              ELSE ReplaceCode(o, c, Full)
           /\ UNCHANGED stack
  BY DEF CompileForOnStackReplacement
<1>4. l \in LoopOf[LiteralOf[s]] \cup {NoLoop} /\ no \in BOOLEAN
  BY DEF CompileForOnStackReplacement
<1> HIDE DEF no
<1>5. Kept(o, s) /\ (o.result # Full => IsSuitableForOnStackReplacement(c))
  <2>1. CASE o = Unchanged
    BY <1>0, <1>2, <2>1, KeptUnchanged, StateFields
  <2>2. CASE /\ IsSuitableForOnStackReplacement(c)
             /\ o \in GetOptimizedCode(s, l, no)
    <3>1. Compiled(Unchanged, o, s)
      BY <1>0, <1>2, <1>4, <2>2, Got
    <3> QED
      BY <1>2, <2>2, <3>1, KeptCompiled
  <2> QED
    BY <1>3, <2>1, <2>2
<1> HIDE DEF c, n
<1>6. o.result \in Nat /\ o.result # NoFunction /\ Full \in Nat
  BY <1>5, OutcomeFields DEF Kept, Good, NoFunction, Full
<1>7. \A i \in 1..n : Fits(stack[i], heap, code) /\ stack[i].fn \in Closure
  BY StateShape DEF TierInv, FrameOK, n
<1>8. CASE /\ o.result # Full
           /\ ReplaceCode(o, c, o.result)
           /\ stack' = Append(Front(stack), [fn |-> c, code |-> o.result])
  <2>1. \A i \in 1..Len(stack) :
          stack[i].fn = c /\ stack[i].code \in 1..Len(heap) =>
            heap[stack[i].code].marked
    <3>1. \A i \in 1..Len(stack) : stack[i].fn = c => stack[i].code = Full
      BY <1>5, <1>8 DEF IsSuitableForOnStackReplacement
    <3>2. Full \notin 1..Len(heap)
      BY StateShape DEF Full
    <3> QED
      BY <3>1, <3>2
  <2>2. /\ Good(Unchanged)' /\ ClosureOK' /\ CurrentOK'
        /\ code' \in [Closure -> Int] /\ heap' = o.heap
        /\ o.result \in 0..Len(heap') /\ code'[c] = o.result
        /\ \A i \in 1..Len(stack) : Fits(stack[i], heap', code')
    BY <1>0, <1>2, <1>5, <1>8, <2>1, Replaced
  <2>3. \A i \in 1 .. Len(stack) - 1 : Fits(stack[i], heap', code')
    BY <1>1, <2>2 DEF n
  <2>4. Fits([fn |-> c, code |-> o.result], heap', code')
    BY <1>6, <2>2 DEF Fits
  <2>5. stack' \in Seq(Frame) /\ FrameOK'
    BY <1>0, <1>2, <1>6, <1>8, <2>3, <2>4, Topped
  <2> QED
    BY <1>0, <2>2, <2>5 DEF TierInv, TypeOK
<1>9. CASE ~Optimized(code[c]) /\ ReplaceCode(o, c, Full) /\ UNCHANGED stack
  <2>1. \A i \in 1..Len(stack) :
          stack[i].fn = c /\ stack[i].code \in 1..Len(heap) =>
            heap[stack[i].code].marked
    <3>1. \A j \in 1..Len(heap) : code[c] # j
      BY <1>9, StateShape DEF Optimized
    <3> QED
      BY <1>7, <3>1 DEF Fits, n
  <2>2. /\ Good(Unchanged)' /\ ClosureOK' /\ CurrentOK'
        /\ code' \in [Closure -> Int]
        /\ \A i \in 1..Len(stack) : Fits(stack[i], heap', code')
    BY <1>0, <1>2, <1>5, <1>9, <2>1, Replaced
  <2>3. FrameOK' /\ stack' \in Seq(Frame)
    BY <1>9, <2>2 DEF FrameOK, TierInv, TypeOK
  <2> QED
    BY <1>0, <2>2, <2>3 DEF TierInv, TypeOK
<1>10. CASE Leave(o) /\ UNCHANGED <<code, stack>>
  <2>1. Good(Unchanged)'
    BY <1>5, <1>10, Left DEF Kept
  <2>2. /\ heap' = o.heap /\ sfi' = o.sfi /\ Len(heap) \in Nat /\ Len(heap') \in Nat
        /\ Len(heap) <= Len(heap') /\ \A j \in 1..Len(heap) : heap'[j] = heap[j]
        /\ \A t \in Shared : sfi[t] # "none" => sfi'[t] # "none"
    BY <1>5, <1>10, StateShape, OutcomeFields DEF Leave, Kept, Good
  <2>3. ClosureOK'
    <3> SUFFICES ASSUME NEW d \in Closure
                 PROVE  /\ code[d] \in {NoFunction, Marked, Lazy, Full} \cup 1..Len(heap')
                        /\ code[d] # NoFunction => sfi'[SharedOf[d]] # "none"
                        /\ code[d] \in 1..Len(heap') =>
                             /\ heap'[code[d]].shared = SharedOf[d]
                             /\ ~heap'[code[d]].marked
      BY <1>10 DEF ClosureOK
    <3>1. /\ code[d] \in {NoFunction, Marked, Lazy, Full} \cup 1..Len(heap)
          /\ code[d] # NoFunction => sfi[SharedOf[d]] # "none"
          /\ code[d] \in 1..Len(heap) => /\ heap[code[d]].shared = SharedOf[d]
                                         /\ ~heap[code[d]].marked
      BY DEF TierInv, ClosureOK
    <3>2. code[d] \in 1..Len(heap') => code[d] \in 1..Len(heap)
      BY <3>1 DEF NoFunction, Marked, Lazy, Full
    <3>3. SharedOf[d] \in Shared
      BY SetAssumption
    <3>4. \A j \in 1..Len(heap) : j \in 1..Len(heap')
      BY <2>2
    <3> QED
      BY <2>2, <3>1, <3>2, <3>3, <3>4
  <2>4. CurrentOK'
    BY <1>0, <2>2 DEF CurrentOK, TypeOK
  <2>5. FrameOK'
    <3> SUFFICES ASSUME NEW i \in 1..Len(stack)
                 PROVE  Fits(stack[i], heap', code)
      BY <1>10 DEF FrameOK
    <3>1. Fits(stack[i], heap, code)
      BY <1>7 DEF n
    <3>2. stack[i].code \in 0..Len(heap') /\ (stack[i].code \in 1..Len(heap')
                                              => stack[i].code \in 1..Len(heap))
      BY <2>2, <3>1 DEF Fits
    <3> QED
      BY <2>2, <3>1, <3>2 DEF Fits
  <2> QED
    BY <1>0, <1>10, <2>1, <2>3, <2>4, <2>5 DEF TierInv, TypeOK
<1> QED
  BY <1>3, <1>8, <1>9, <1>10

(* An outcome that differs from the state in the bailouts of some code. *)
BailedOut(o, K) ==
  /\ o \in Outcome /\ o.db = db /\ o.sfi = sfi /\ o.hasSaved = hasSaved
  /\ o.disabled = disabled /\ o.codeMap = codeMap /\ Len(o.heap) = Len(heap)
  /\ \A j \in 1..Len(heap) :
       /\ o.heap[j].shared = heap[j].shared /\ o.heap[j].inlined = heap[j].inlined
       /\ o.heap[j].loaded = heap[j].loaded /\ o.heap[j].marked = heap[j].marked
       /\ o.heap[j].bailedOut = heap[j].bailedOut \/ j \in K

(* The state itself. *)
LEMMA BailedNone ==
  ASSUME TierInv, NEW K
  PROVE  BailedOut(Unchanged, K)
BY StateShape, StateFields DEF BailedOut

(* An eager bailout of code object k. *)
LEMMA BailedOne ==
  ASSUME TierInv, NEW k \in 1..Len(heap), NEW o,
         o = [Unchanged EXCEPT !.heap[k].bailedOut = TRUE]
  PROVE  BailedOut(o, {k})
<1> DEFINE x == [heap[k] EXCEPT !.bailedOut = TRUE]
           h == [heap EXCEPT ![k] = x]
<1>1. /\ heap \in Seq(CodeObject) /\ heap[k] \in CodeObject /\ Len(heap) \in Nat
      /\ Unchanged \in Outcome
  BY StateShape
<1>2. /\ x \in CodeObject /\ x.shared = heap[k].shared
      /\ x.inlined = heap[k].inlined /\ x.loaded = heap[k].loaded
      /\ x.marked = heap[k].marked
  BY <1>1 DEF CodeObject
<1>3. o = [Unchanged EXCEPT !.heap = h]
  BY StateFields
<1> HIDE DEF x
<1>4. /\ h \in Seq(CodeObject) /\ Len(h) = Len(heap)
      /\ h[k] = x /\ \A j \in 1..Len(heap) : j # k => h[j] = heap[j]
  BY <1>1, <1>2, ExceptSeq
<1> HIDE DEF h
<1> DEFINE u == Unchanged
<1>5. u \in Outcome /\ o = [u EXCEPT !.heap = h]
  BY <1>1, <1>3
<1> HIDE DEF u
<1>6. /\ o \in Outcome /\ o.db = u.db /\ o.sfi = u.sfi /\ o.hasSaved = u.hasSaved
      /\ o.disabled = u.disabled /\ o.codeMap = u.codeMap /\ o.heap = h
  BY <1>4, <1>5 DEF Outcome
<1>7. /\ u.db = db /\ u.sfi = sfi /\ u.hasSaved = hasSaved
      /\ u.disabled = disabled /\ u.codeMap = codeMap
  BY StateFields DEF u
<1> QED
  BY <1>2, <1>4, <1>6, <1>7 DEF BailedOut

(* DeoptimizeMarkedCode: what refers to marked code is unlinked, evicted and *)
(* discarded.                                                                *)
LEMMA Unlinked ==
  ASSUME TierInv, NEW K \in SUBSET (1..Len(heap)), NEW o, BailedOut(o, K),
         DeoptimizeMarkedCode(o, K), UNCHANGED current
  PROVE  /\ Good(Unchanged)' /\ ClosureOK' /\ CurrentOK'
         /\ code' \in [Closure -> Int]
         /\ \A c \in Closure : code[c] # NoFunction => code'[c] # NoFunction
         /\ \A i \in 1..Len(stack) : Fits(stack[i], heap', code')
         /\ Len(heap') = Len(heap)
<1> DEFINE h == [k \in DOMAIN o.heap |->
                   [o.heap[k] EXCEPT !.marked = @ \/ k \in K]]
           m == {e \in o.codeMap : e.code \notin K}
           y == [o EXCEPT !.heap = h, !.codeMap = m]
           S == {heap[k].shared : k \in K}
           x == Discard(y, S)
<1>0. /\ o \in Outcome /\ o.heap \in Seq(CodeObject) /\ Len(o.heap) = Len(heap)
      /\ Len(heap) \in Nat /\ o.codeMap \in SUBSET MapEntry
      /\ \A j \in 1..Len(heap) : o.heap[j] \in CodeObject
      /\ code \in [Closure -> Int]
  BY StateShape, OutcomeFields DEF BailedOut, TierInv, TypeOK
<1>1. /\ code' = [c \in Closure |-> IF code[c] \in K
                                    THEN SharedCode(sfi, SharedOf[c])
                                    ELSE code[c]]
      /\ Leave(x)
  <2>1. code' = [c \in Closure |-> IF code[c] \in K
                                   THEN SharedCode(sfi, SharedOf[c])
                                   ELSE code[c]]
    BY DEF DeoptimizeMarkedCode
  <2>2. Leave(x)
    BY DEF DeoptimizeMarkedCode
  <2> QED
    BY <2>1, <2>2
<1>2. DOMAIN o.heap = 1..Len(heap)
  BY <1>0, LenProperties
<1>3. /\ h \in Seq(CodeObject) /\ Len(h) = Len(heap)
      /\ \A j \in 1..Len(heap) :
           /\ h[j].shared = heap[j].shared /\ h[j].inlined = heap[j].inlined
           /\ h[j].loaded = heap[j].loaded
           /\ h[j].marked <=> heap[j].marked \/ j \in K
           /\ j \notin K => /\ h[j].marked = heap[j].marked
                            /\ h[j].bailedOut = heap[j].bailedOut
  <2>1. ASSUME NEW j \in 1..Len(heap)
        PROVE  /\ h[j] \in CodeObject /\ h[j].shared = heap[j].shared
               /\ h[j].inlined = heap[j].inlined
               /\ h[j].loaded = heap[j].loaded
               /\ h[j].marked <=> heap[j].marked \/ j \in K
               /\ j \notin K => /\ h[j].marked = heap[j].marked
                                /\ h[j].bailedOut = heap[j].bailedOut
    <3>1. /\ h[j] = [o.heap[j] EXCEPT !.marked = o.heap[j].marked \/ j \in K]
          /\ o.heap[j] \in CodeObject
      BY <1>0, <1>2
    <3>2. /\ o.heap[j].shared = heap[j].shared /\ o.heap[j].inlined = heap[j].inlined
          /\ o.heap[j].loaded = heap[j].loaded /\ o.heap[j].marked = heap[j].marked
          /\ o.heap[j].bailedOut = heap[j].bailedOut \/ j \in K
      BY DEF BailedOut
    <3> DEFINE b == o.heap[j].marked \/ j \in K
    <3>3. /\ b \in BOOLEAN /\ heap[j].marked \in BOOLEAN
          /\ o.heap[j].marked \in BOOLEAN
          /\ h[j] = [o.heap[j] EXCEPT !.marked = b]
      BY <3>1, StateShape, CodeFields
    <3>4. (b <=> heap[j].marked \/ j \in K) /\ (j \notin K => b = o.heap[j].marked)
      BY <3>2, <3>3
    <3> HIDE DEF b, h
    <3>5. /\ h[j] \in CodeObject /\ h[j].shared = o.heap[j].shared
          /\ h[j].inlined = o.heap[j].inlined /\ h[j].loaded = o.heap[j].loaded
          /\ h[j].bailedOut = o.heap[j].bailedOut /\ h[j].marked = b
      BY <3>1, <3>3 DEF CodeObject
    <3> QED
      BY <3>2, <3>3, <3>4, <3>5
  <2>2. h = [j \in 1..Len(heap) |-> h[j]]
    BY <1>2
  <2>3. h \in [1..Len(heap) -> CodeObject]
    BY <1>2, <2>1
  <2> HIDE DEF h
  <2>4. h \in Seq(CodeObject) /\ Len(h) = Len(heap)
    BY <1>0, <2>3
  <2> QED
    BY <2>1, <2>4
<1>4. m \in SUBSET MapEntry /\ m \subseteq codeMap
      /\ \A e \in codeMap : e \in m \/ e.code \in K
  BY <1>0 DEF BailedOut
<1> HIDE DEF h, m
<1>5. /\ y \in Outcome /\ y.heap = h /\ y.codeMap = m /\ y.db = o.db
      /\ y.sfi = o.sfi /\ y.hasSaved = o.hasSaved /\ y.disabled = o.disabled
  BY <1>0, <1>3, <1>4 DEF Outcome
<1>6. /\ y.db = db /\ y.sfi = sfi /\ y.hasSaved = hasSaved /\ y.disabled = disabled
  BY <1>5 DEF BailedOut
<1> HIDE DEF y
<1>7. S \in SUBSET Shared /\ \A j \in K : heap[j].shared \in S
  BY StateShape
<1> HIDE DEF S
<1>8. \A e \in codeMap : /\ e.code \in 1..Len(heap)
                         /\ heap[e.code].shared = e.shared
                         /\ ~heap[e.code].marked
  BY StateFields DEF TierInv, Good, MapOK
<1>9. Good(x) /\ x.heap = h /\ x.sfi = sfi
  <2> DEFINE u == Unchanged
  <2>1. /\ Good(u) /\ u.db = db /\ u.sfi = sfi /\ u.hasSaved = hasSaved
        /\ u.disabled = disabled /\ u.codeMap = codeMap /\ u.heap = heap
    BY StateFields DEF TierInv
  <2> HIDE DEF u
  <2>2. \A e \in y.codeMap : ~y.heap[e.code].marked
    <3>1. \A e \in m : e \in codeMap /\ e.code \notin K
      BY <1>4 DEF m
    <3> QED
      BY <1>3, <1>5, <1>8, <3>1
  <2>3. \A e \in u.codeMap : e \in y.codeMap \/ e.shared \in S
    BY <1>4, <1>5, <1>7, <1>8, <2>1
  <2>4. \A k \in 1..Len(u.heap) :
           /\ y.heap[k].shared = u.heap[k].shared
           /\ y.heap[k].inlined = u.heap[k].inlined
           /\ y.heap[k].loaded = u.heap[k].loaded
           /\ \/ /\ y.heap[k].marked = u.heap[k].marked
                 /\ y.heap[k].bailedOut = u.heap[k].bailedOut
              \/ u.heap[k].shared \in S
    BY <1>3, <1>5, <1>7, <2>1
  <2>5. /\ y.db = u.db /\ y.sfi = u.sfi /\ y.hasSaved = u.hasSaved
        /\ y.disabled = u.disabled /\ y.codeMap \subseteq u.codeMap
        /\ Len(y.heap) = Len(u.heap)
    BY <1>3, <1>4, <1>5, <1>6, <2>1
  <2>6. Good(x) /\ x.heap = y.heap /\ x.sfi = u.sfi
    BY <1>5, <1>7, <2>1, <2>2, <2>3, <2>4, <2>5, Discarded
  <2> QED
    BY <1>5, <2>1, <2>6
<1> HIDE DEF x
<1>10. Good(Unchanged)' /\ heap' = h /\ sfi' = sfi
  BY <1>1, <1>9, Left DEF Leave
<1>11. \A c \in Closure :
         /\ code[c] \notin K => code'[c] = code[c]
         /\ code[c] \in K => code'[c] \in {Lazy, Full}
  BY <1>1 DEF SharedCode
<1>12. Lazy \in Int /\ Full \in Int /\ Lazy # NoFunction /\ Full # NoFunction
       /\ Lazy \notin 1..Len(heap) /\ Full \notin 1..Len(heap)
  BY <1>0 DEF Lazy, Full, NoFunction
<1>13. code' \in [Closure -> Int]
  <2>1. \A c \in Closure : SharedCode(sfi, SharedOf[c]) \in Int
    BY <1>12 DEF SharedCode
  <2> QED
    BY <1>0, <1>1, <2>1
<1>14. \A c \in Closure : code[c] # NoFunction => code'[c] # NoFunction
  BY <1>11, <1>12
<1>15. ClosureOK'
  <2> SUFFICES ASSUME NEW d \in Closure
               PROVE  /\ code'[d] \in {NoFunction, Marked, Lazy, Full} \cup 1..Len(heap')
                      /\ code'[d] # NoFunction => sfi'[SharedOf[d]] # "none"
                      /\ code'[d] \in 1..Len(heap') =>
                           /\ heap'[code'[d]].shared = SharedOf[d]
                           /\ ~heap'[code'[d]].marked
    BY DEF ClosureOK
  <2>1. /\ code[d] \in {NoFunction, Marked, Lazy, Full} \cup 1..Len(heap)
        /\ code[d] # NoFunction => sfi[SharedOf[d]] # "none"
        /\ code[d] \in 1..Len(heap) => /\ heap[code[d]].shared = SharedOf[d]
                                       /\ ~heap[code[d]].marked
    BY DEF TierInv, ClosureOK
  <2>2. CASE code[d] \in K
    <3>1. code[d] # NoFunction
      <4>1. code[d] \in 1..Len(heap)
        BY <2>2
      <4> QED
        BY <1>0, <4>1 DEF NoFunction
    <3> QED
      BY <1>3, <1>10, <1>11, <1>12, <2>1, <2>2, <3>1
  <2>3. CASE code[d] \notin K
    <3>1. code'[d] = code[d]
      BY <1>11, <2>3
    <3>2. code[d] \in 1..Len(heap) => /\ h[code[d]].shared = heap[code[d]].shared
                                      /\ ~h[code[d]].marked
      BY <1>3, <2>1, <2>3
    <3> QED
      BY <1>3, <1>10, <2>1, <3>1, <3>2
  <2> QED
    BY <2>2, <2>3
<1>16. CurrentOK'
  BY <1>10 DEF TierInv, CurrentOK
<1>17. ASSUME NEW i \in 1..Len(stack)
       PROVE  Fits(stack[i], heap', code')
  <2>1. Fits(stack[i], heap, code) /\ stack[i].fn \in Closure
    BY StateShape DEF TierInv, FrameOK
  <2>2. ASSUME stack[i].code \in 1..Len(heap), ~h[stack[i].code].marked
        PROVE  code'[stack[i].fn] = stack[i].code
    <3>1. ~heap[stack[i].code].marked /\ stack[i].code \notin K
      BY <1>3, <2>2
    <3>2. code[stack[i].fn] = stack[i].code
      BY <2>1, <2>2, <3>1 DEF Fits
    <3> QED
      BY <1>11, <2>1, <3>1, <3>2
  <2> QED
    BY <1>3, <1>10, <1>14, <2>1, <2>2 DEF Fits
<1> QED
  BY <1>3, <1>10, <1>13, <1>14, <1>15, <1>16, <1>17

(* DeoptimizeDependentCodeGroup. *)
LEMMA StepDependent ==
  ASSUME TierInv, NEW K \in SUBSET (1..Len(heap)), DeoptimizeDependentCodeGroup(K)
  PROVE  TierInv'
<1>1. /\ DeoptimizeMarkedCode(Unchanged, K) /\ UNCHANGED <<patched, current, stack>>
  BY DEF DeoptimizeDependentCodeGroup
<1>2. BailedOut(Unchanged, K)
  BY BailedNone
<1>3. /\ Good(Unchanged)' /\ ClosureOK' /\ CurrentOK' /\ code' \in [Closure -> Int]
      /\ \A i \in 1..Len(stack) : Fits(stack[i], heap', code')
  BY <1>1, <1>2, Unlinked
<1> QED
  BY <1>1, <1>3 DEF TierInv, TypeOK, FrameOK

(* The frame on top of the stack, and its code if that is not marked. *)
LEMMA TopFrame ==
  ASSUME TierInv, stack # <<>>
  PROVE  /\ Top.fn \in Closure /\ Top.code \in Nat
         /\ Len(stack) \in Nat \ {0} /\ Top = stack[Len(stack)]
         /\ code[Top.fn] # NoFunction
         /\ Optimized(Top.code) => Top.code \in 1..Len(heap)
         /\ Optimized(Top.code) /\ ~heap[Top.code].marked =>
              /\ code[Top.fn] = Top.code
              /\ heap[Top.code].shared = SharedOf[Top.fn]
<1>1. stack \in Seq(Frame)
  BY DEF TierInv, TypeOK
<1>2. /\ Last(stack) = stack[Len(stack)] /\ Len(stack) \in Nat \ {0}
  BY <1>1, FrontSeq
<1>3. Len(stack) \in 1..Len(stack)
  BY <1>2
<1>4. /\ Top = stack[Len(stack)] /\ Fits(Top, heap, code)
      /\ Top.fn \in Closure /\ Top.code \in Nat
  BY <1>2, <1>3, StateShape DEF Top, TierInv, FrameOK
<1>5. Optimized(Top.code) => Top.code \in 1..Len(heap)
  BY <1>4, StateShape DEF Fits, Optimized
<1> QED
  BY <1>2, <1>4, <1>5 DEF Fits, TierInv, ClosureOK

(* Runtime_NotifyDeoptimized: the code of the frame is the code of its       *)
(* function, so that what is evicted and discarded is what bailed out.       *)
LEMMA StepNotify ==
  ASSUME TierInv, NotifyDeoptimized
  PROVE  TierInv'
<1> DEFINE c == Top.fn
           k == Top.code
           s == SharedOf[c]
           o == [Unchanged EXCEPT !.heap[k].bailedOut = TRUE]
           n == Len(stack)
           activations == \E i \in 1 .. Len(stack) - 1 : stack[i].code = k
<1>0. /\ TypeOK /\ stack # <<>> /\ Optimized(k) /\ ~heap[k].marked
      /\ UNCHANGED <<patched, current>>
      /\ stack' = Append(Front(stack), [fn |-> c, code |-> Full])
  BY DEF NotifyDeoptimized, TierInv
<1>1. /\ c \in Closure /\ n \in Nat \ {0} /\ code[c] # NoFunction
      /\ k \in 1..Len(heap) /\ code[c] = k /\ heap[k].shared = s
      /\ s \in Shared /\ Len(heap) \in Nat
  BY <1>0, TopFrame, StateShape
<1>2. /\ activations => DeoptimizeMarkedCode(o, {code[c]} \cap DOMAIN heap)
      /\ ~activations =>
           /\ code' = [code EXCEPT ![c] = SharedCode(sfi, s)]
           /\ Leave(Discard([o EXCEPT !.codeMap = Evict(@, s, k)], {s}))
  BY <1>1 DEF NotifyDeoptimized
<1>3. BailedOut(o, {k})
  BY <1>1, BailedOne
<1> HIDE DEF c, k, o, n, activations
<1>4. CASE activations
  <2>1. {code[c]} \cap DOMAIN heap = {k}
    <3>1. DOMAIN heap = 1..Len(heap)
      BY StateShape, LenProperties
    <3> QED
      BY <1>1, <3>1
  <2>2. DeoptimizeMarkedCode(o, {k}) /\ {k} \in SUBSET (1..Len(heap))
    BY <1>1, <1>2, <1>4, <2>1
  <2>3. /\ Good(Unchanged)' /\ ClosureOK' /\ CurrentOK' /\ code' \in [Closure -> Int]
        /\ \A d \in Closure : code[d] # NoFunction => code'[d] # NoFunction
        /\ \A i \in 1..Len(stack) : Fits(stack[i], heap', code')
        /\ Len(heap') = Len(heap)
    BY <1>0, <1>3, <2>2, Unlinked
  <2>4. /\ \A i \in 1 .. Len(stack) - 1 : Fits(stack[i], heap', code')
        /\ Full \in Nat
    BY <1>1, <2>3 DEF n, Full
  <2>5. Fits([fn |-> c, code |-> Full], heap', code')
    BY <1>1, <2>3 DEF Fits, Full
  <2>6. stack' \in Seq(Frame) /\ FrameOK'
    BY <1>0, <1>1, <2>4, <2>5, Topped
  <2> QED
    BY <1>0, <2>3, <2>6 DEF TierInv, TypeOK
<1>5. CASE ~activations
  <2> DEFINE y == [o EXCEPT !.codeMap = Evict(@, s, k)]
             x == Discard(y, {s})
  <2>1. /\ o \in Outcome /\ o.db = db /\ o.sfi = sfi /\ o.hasSaved = hasSaved
        /\ o.disabled = disabled /\ o.codeMap = codeMap /\ Len(o.heap) = Len(heap)
    BY <1>3 DEF BailedOut
  <2>2. /\ y \in Outcome /\ y.codeMap = Evict(codeMap, s, k) /\ y.heap = o.heap
        /\ y.db = db /\ y.sfi = sfi /\ y.hasSaved = hasSaved /\ y.disabled = disabled
    BY <2>1 DEF Outcome, Evict
  <2>3. Leave(x) /\ code' = [code EXCEPT ![c] = SharedCode(sfi, s)]
    BY <1>2, <1>5
  <2> HIDE DEF y
  <2>4. \A j \in 1..Len(heap) :
          /\ o.heap[j].shared = heap[j].shared /\ o.heap[j].inlined = heap[j].inlined
          /\ o.heap[j].loaded = heap[j].loaded /\ o.heap[j].marked = heap[j].marked
          /\ o.heap[j].bailedOut = heap[j].bailedOut \/ heap[j].shared \in {s}
    BY <1>1, <1>3 DEF BailedOut
  <2>5. \A e \in codeMap : e.code \in 1..Len(heap) /\ ~heap[e.code].marked
    BY StateFields DEF TierInv, Good, MapOK
  <2>6. Good(x) /\ x.heap = o.heap /\ x.sfi = sfi
    <3> DEFINE u == Unchanged
    <3>1. /\ Good(u) /\ u.db = db /\ u.sfi = sfi /\ u.hasSaved = hasSaved
          /\ u.disabled = disabled /\ u.codeMap = codeMap /\ u.heap = heap
      BY StateFields DEF TierInv
    <3> HIDE DEF u
    <3>2. /\ y.codeMap \subseteq u.codeMap
          /\ \A e \in u.codeMap : e \in y.codeMap \/ e.shared \in {s}
      BY <2>2, <3>1 DEF Evict
    <3>3. \A e \in y.codeMap : ~y.heap[e.code].marked
      BY <2>2, <2>4, <2>5, <3>1, <3>2
    <3>4. \A j \in 1..Len(u.heap) :
            /\ y.heap[j].shared = u.heap[j].shared
            /\ y.heap[j].inlined = u.heap[j].inlined
            /\ y.heap[j].loaded = u.heap[j].loaded
            /\ \/ /\ y.heap[j].marked = u.heap[j].marked
                  /\ y.heap[j].bailedOut = u.heap[j].bailedOut
               \/ u.heap[j].shared \in {s}
      BY <2>2, <2>4, <3>1
    <3>5. /\ y.db = u.db /\ y.sfi = u.sfi /\ y.hasSaved = u.hasSaved
          /\ y.disabled = u.disabled /\ Len(y.heap) = Len(u.heap)
          /\ {s} \in SUBSET Shared
      BY <1>1, <2>1, <2>2, <3>1
    <3>6. Good(x) /\ x.heap = y.heap /\ x.sfi = u.sfi
      BY <2>2, <3>1, <3>2, <3>3, <3>4, <3>5, Discarded
    <3> QED
      BY <2>2, <3>1, <3>6
  <2> HIDE DEF x
  <2>7. Good(Unchanged)' /\ heap' = o.heap /\ sfi' = sfi
    BY <2>3, <2>6, Left DEF Leave
  <2>8. /\ SharedCode(sfi, s) \in {Lazy, Full} /\ Lazy \in Int /\ Full \in Nat
        /\ Lazy # NoFunction /\ Full # NoFunction
        /\ Lazy \notin 1..Len(heap) /\ Full \notin 1..Len(heap)
    BY <1>1 DEF SharedCode, Lazy, Full, NoFunction
  <2>9. /\ code' \in [Closure -> Int] /\ code'[c] = SharedCode(sfi, s)
        /\ \A d \in Closure : d # c => code'[d] = code[d]
    BY <1>0, <1>1, <2>3, <2>8 DEF TypeOK
  <2>10. ClosureOK'
    <3> SUFFICES ASSUME NEW d \in Closure
                 PROVE  /\ code'[d] \in {NoFunction, Marked, Lazy, Full} \cup 1..Len(heap')
                        /\ code'[d] # NoFunction => sfi'[SharedOf[d]] # "none"
                        /\ code'[d] \in 1..Len(heap') =>
                             /\ heap'[code'[d]].shared = SharedOf[d]
                             /\ ~heap'[code'[d]].marked
      BY DEF ClosureOK
    <3>1. /\ code[d] \in {NoFunction, Marked, Lazy, Full} \cup 1..Len(heap)
          /\ code[d] # NoFunction => sfi[SharedOf[d]] # "none"
          /\ code[d] \in 1..Len(heap) => /\ heap[code[d]].shared = SharedOf[d]
                                         /\ ~heap[code[d]].marked
      BY DEF TierInv, ClosureOK
    <3>2. CASE d = c
      BY <1>1, <2>1, <2>7, <2>8, <2>9, <3>1, <3>2
    <3>3. CASE d # c
      BY <2>1, <2>4, <2>7, <2>9, <3>1, <3>3
    <3> QED
      BY <3>2, <3>3
  <2>11. CurrentOK'
    BY <1>0, <2>7 DEF TierInv, CurrentOK
  <2>12. \A i \in 1 .. Len(stack) - 1 : Fits(stack[i], heap', code')
    <3> SUFFICES ASSUME NEW i \in 1 .. Len(stack) - 1
                 PROVE  Fits(stack[i], heap', code')
      OBVIOUS
    <3>1. i \in 1..Len(stack)
      BY <1>1 DEF n
    <3>2. Fits(stack[i], heap, code) /\ stack[i].fn \in Closure
      BY <3>1, StateShape DEF TierInv, FrameOK
    <3>3. stack[i].code # k
      BY <1>5 DEF activations
    <3>4. code'[stack[i].fn] # NoFunction
      BY <2>8, <2>9, <3>2 DEF Fits
    <3>5. ASSUME stack[i].code \in 1..Len(heap), ~o.heap[stack[i].code].marked
          PROVE  code'[stack[i].fn] = stack[i].code
      <4>1. code[stack[i].fn] = stack[i].code
        BY <2>4, <3>2, <3>5 DEF Fits
      <4>2. stack[i].fn # c
        BY <1>1, <3>3, <4>1
      <4> QED
        BY <2>9, <3>2, <4>1, <4>2
    <3> QED
      BY <2>1, <2>7, <3>2, <3>4, <3>5 DEF Fits
  <2>13. Fits([fn |-> c, code |-> Full], heap', code')
    BY <1>1, <2>1, <2>7, <2>8, <2>9 DEF Fits, Full
  <2>14. stack' \in Seq(Frame) /\ FrameOK'
    BY <1>0, <1>1, <2>8, <2>12, <2>13, Topped
  <2> QED
    BY <1>0, <2>7, <2>9, <2>10, <2>11, <2>14 DEF TierInv, TypeOK
<1> QED
  BY <1>4, <1>5

(* An unchanged outcome. *)
LEMMA SameOutcome ==
  ASSUME TierInv, UNCHANGED <<db, sfi, hasSaved, disabled, codeMap, heap>>
  PROVE  Good(Unchanged)'
<1>1. Unchanged' = Unchanged
  BY DEF Unchanged
<1>2. Good(Unchanged)
  BY DEF TierInv
<1> DEFINE u == Unchanged
<1>3. Good(u) /\ Unchanged' = u
  BY <1>1, <1>2
<1>4. Leave(u)
  BY StateFields DEF Leave
<1> HIDE DEF u
<1> QED
  BY <1>3, <1>4, Left

(* A closure gets code, where it had no optimized code: NewClosure and       *)
(* Optimize.                                                                 *)
LEMMA Relinked ==
  ASSUME TierInv, NEW c \in Closure, NEW k \in {Marked, Lazy, Full} \cup 1..Len(heap),
         code' = [code EXCEPT ![c] = k], code[c] \notin 1..Len(heap),
         sfi[SharedOf[c]] # "none",
         k \in 1..Len(heap) => heap[k].shared = SharedOf[c] /\ ~heap[k].marked,
         UNCHANGED <<db, sfi, hasSaved, disabled, patched, current, codeMap,
                     heap, stack>>
  PROVE  TierInv'
<1>1. Good(Unchanged)'
  BY SameOutcome
<1>2. k \in Int /\ k # NoFunction
  BY StateShape DEF Marked, Lazy, Full, NoFunction
<1>3. /\ code' \in [Closure -> Int] /\ code'[c] = k
      /\ \A d \in Closure : d # c => code'[d] = code[d]
  BY <1>2 DEF TierInv, TypeOK
<1>4. ClosureOK'
  <2> SUFFICES ASSUME NEW d \in Closure
               PROVE  /\ code'[d] \in {NoFunction, Marked, Lazy, Full} \cup 1..Len(heap)
                      /\ code'[d] # NoFunction => sfi[SharedOf[d]] # "none"
                      /\ code'[d] \in 1..Len(heap) =>
                           /\ heap[code'[d]].shared = SharedOf[d]
                           /\ ~heap[code'[d]].marked
    BY DEF ClosureOK
  <2>1. CASE d = c
    BY <1>3, <2>1
  <2>2. CASE d # c
    BY <1>3, <2>2 DEF TierInv, ClosureOK
  <2> QED
    BY <2>1, <2>2
<1>5. FrameOK'
  <2> SUFFICES ASSUME NEW i \in 1..Len(stack)
               PROVE  Fits(stack[i], heap, code')
    BY DEF FrameOK
  <2>1. Fits(stack[i], heap, code) /\ stack[i].fn \in Closure
    BY StateShape DEF TierInv, FrameOK
  <2>2. CASE stack[i].fn = c
    BY <1>2, <1>3, <2>1, <2>2 DEF Fits
  <2>3. CASE stack[i].fn # c
    BY <1>3, <2>1, <2>3 DEF Fits
  <2> QED
    BY <2>2, <2>3
<1>6. CurrentOK'
  BY DEF TierInv, CurrentOK
<1> QED
  BY <1>1, <1>3, <1>4, <1>5, <1>6 DEF TierInv, TypeOK

(* Factory::NewFunctionFromSharedFunctionInfo: what it finds in the code map *)
(* is unmarked code of the function.                                         *)
LEMMA StepNewClosure ==
  ASSUME TierInv, NEW c \in Closure, NewClosure(c)
  PROVE  TierInv'
<1> DEFINE s == SharedOf[c]
           cached == {e \in codeMap : e.shared = s /\ e.osr = NoLoop}
<1>1. PICK k \in IF cached = {} THEN {SharedCode(sfi, s)}
                 ELSE {e.code : e \in cached} : code' = [code EXCEPT ![c] = k]
  BY DEF NewClosure
<1>2. /\ code[c] = NoFunction /\ sfi[s] # "none"
      /\ UNCHANGED <<db, sfi, hasSaved, disabled, patched, current, codeMap,
                     heap, stack>>
  BY DEF NewClosure
<1>3. \A e \in codeMap : /\ e.code \in 1..Len(heap)
                         /\ heap[e.code].shared = e.shared
                         /\ ~heap[e.code].marked
  BY StateFields DEF TierInv, Good, MapOK
<1>4. /\ Lazy \notin 1..Len(heap) /\ Full \notin 1..Len(heap)
      /\ NoFunction \notin 1..Len(heap)
  BY StateShape DEF Lazy, Full, NoFunction
<1>5. /\ k \in {Marked, Lazy, Full} \cup 1..Len(heap)
      /\ k \in 1..Len(heap) => heap[k].shared = s /\ ~heap[k].marked
  <2>1. CASE cached = {}
    BY <1>1, <1>4, <2>1 DEF SharedCode
  <2>2. CASE cached # {}
    BY <1>1, <1>3, <2>2
  <2> QED
    BY <2>1, <2>2
<1> QED
  BY <1>1, <1>2, <1>4, <1>5, Relinked

(* RuntimeProfiler::Optimize. *)
LEMMA StepOptimize ==
  ASSUME TierInv, NEW c \in Closure, Optimize(c)
  PROVE  TierInv'
<1>1. /\ code[c] = Full /\ code' = [code EXCEPT ![c] = Marked]
      /\ UNCHANGED <<db, sfi, hasSaved, disabled, patched, current, codeMap,
                     heap, stack>>
  BY DEF Optimize
<1>2. /\ Marked \notin 1..Len(heap) /\ Full \notin 1..Len(heap)
      /\ Full # NoFunction
  BY StateShape DEF Marked, Full, NoFunction
<1>3. sfi[SharedOf[c]] # "none"
  BY <1>1, <1>2 DEF TierInv, ClosureOK
<1> QED
  BY <1>1, <1>2, <1>3, Relinked

(* Nothing but the stack or the patched back edges changes. *)
LEMMA OnlyStack ==
  ASSUME TierInv, patched' \in SUBSET Shared, stack' \in Seq(Frame), FrameOK',
         UNCHANGED <<db, sfi, hasSaved, disabled, current, codeMap, heap, code>>
  PROVE  TierInv'
<1>1. Good(Unchanged)'
  BY SameOutcome
<1>2. ClosureOK' /\ CurrentOK'
  BY DEF TierInv, ClosureOK, CurrentOK
<1> QED
  BY <1>1, <1>2 DEF TierInv, TypeOK

(* A call: the frame runs the code of the closure. *)
LEMMA StepCall ==
  ASSUME TierInv, NEW c \in Closure, Call(c)
  PROVE  TierInv'
<1>1. /\ code[c] = Full \/ Optimized(code[c])
      /\ stack' = Append(stack, [fn |-> c, code |-> code[c]])
      /\ UNCHANGED <<db, sfi, hasSaved, disabled, patched, current, codeMap, heap,
                     code>>
  BY DEF Call, Enter
<1> DEFINE k == code[c]
<1>2. k \in 0..Len(heap) /\ k \in Nat /\ k # NoFunction
  <2>1. k \in {NoFunction, Marked, Lazy, Full} \cup 1..Len(heap)
    BY DEF TierInv, ClosureOK
  <2> QED
    BY <1>1, <2>1, StateShape DEF NoFunction, Marked, Lazy, Full, Optimized
<1>3. \A i \in 1..Len(stack) : Fits(stack[i], heap', code')
  BY <1>1 DEF TierInv, FrameOK
<1>4. Fits([fn |-> c, code |-> k], heap', code')
  BY <1>1, <1>2 DEF Fits
<1>5. stack' \in Seq(Frame) /\ FrameOK'
  <2>1. TypeOK /\ stack' = Append(stack, [fn |-> c, code |-> k])
    BY <1>1 DEF TierInv
  <2> HIDE DEF k
  <2> QED
    BY <1>2, <1>3, <1>4, <2>1, Pushed
<1> QED
  BY <1>1, <1>5, OnlyStack DEF TierInv, TypeOK

(* A return. *)
LEMMA StepReturn ==
  ASSUME TierInv, Return
  PROVE  TierInv'
<1>1. /\ stack # <<>> /\ stack' = Front(stack) /\ stack \in Seq(Frame)
      /\ UNCHANGED <<db, sfi, hasSaved, disabled, patched, current, codeMap, heap,
                     code>>
  BY DEF Return, TierInv, TypeOK
<1>2. /\ stack' \in Seq(Frame) /\ Len(stack') = Len(stack) - 1
      /\ Len(stack) \in Nat \ {0}
      /\ \A i \in 1 .. Len(stack) - 1 : stack'[i] = stack[i]
  BY <1>1, FrontSeq
<1>3. FrameOK'
  BY <1>1, <1>2 DEF TierInv, FrameOK
<1> QED
  BY <1>1, <1>2, <1>3, OnlyStack DEF TierInv, TypeOK

(* RuntimeProfiler::AttemptOnStackReplacement. *)
LEMMA StepAttempt ==
  ASSUME TierInv, NEW c \in Closure, AttemptOnStackReplacement(c)
  PROVE  TierInv'
<1>1. /\ patched' = patched \cup {SharedOf[c]} /\ SharedOf[c] \in Shared
      /\ UNCHANGED <<db, sfi, hasSaved, disabled, current, codeMap, heap,
                     code, stack>>
  BY StateShape DEF AttemptOnStackReplacement
<1>2. FrameOK'
  BY <1>1 DEF TierInv, FrameOK
<1> QED
  BY <1>1, <1>2, OnlyStack DEF TierInv, TypeOK

(* A lazy bailout. *)
LEMMA StepLazyBailout ==
  ASSUME TierInv, LazyBailout
  PROVE  TierInv'
<1>1. /\ stack # <<>> /\ TypeOK
      /\ stack' = Append(Front(stack), [fn |-> Top.fn, code |-> Full])
      /\ UNCHANGED <<db, sfi, hasSaved, disabled, patched, current, codeMap, heap,
                     code>>
  BY DEF LazyBailout, Running, TierInv
<1> DEFINE c == Top.fn
<1>2. c \in Closure /\ code[c] # NoFunction /\ Len(stack) \in Nat \ {0}
  BY <1>1, TopFrame
<1> HIDE DEF c
<1>3. \A i \in 1 .. Len(stack) - 1 : Fits(stack[i], heap', code')
  BY <1>1, <1>2 DEF TierInv, FrameOK
<1>4. Fits([fn |-> c, code |-> Full], heap', code') /\ Full \in Nat
  BY <1>1, <1>2, StateShape DEF Fits, Full
<1>5. stack' \in Seq(Frame) /\ FrameOK'
  <2>1. stack' = Append(Front(stack), [fn |-> c, code |-> Full])
    BY <1>1 DEF c
  <2> QED
    BY <1>1, <1>2, <1>3, <1>4, <2>1, Topped
<1> QED
  BY <1>1, <1>5, OnlyStack DEF TierInv, TypeOK

(* Only the fields of an outcome change, and closures and frames do not see  *)
(* it.                                                                       *)
LEMMA OnlyShared ==
  ASSUME TierInv, Good(Unchanged)', current' \in [Literal -> Shared \cup {NoShared}],
         CurrentOK', \A s \in Shared : sfi[s] # "none" => sfi'[s] # "none",
         UNCHANGED <<patched, heap, code, stack>>
  PROVE  TierInv'
<1>1. ClosureOK'
  BY SetAssumption DEF TierInv, ClosureOK
<1>2. FrameOK'
  BY DEF TierInv, FrameOK
<1> QED
  BY <1>1, <1>2 DEF TierInv, TypeOK

(* SharedFunctionInfo::TryReenableOptimization. *)
LEMMA StepReenable ==
  ASSUME TierInv, NEW s \in Shared, TryReenableOptimization(s)
  PROVE  TierInv'
<1>1. /\ disabled[s] /\ disabled' = [disabled EXCEPT ![s] = FALSE]
      /\ UNCHANGED <<db, sfi, hasSaved, patched, current, codeMap, heap, code,
                     stack>>
  BY DEF TryReenableOptimization
<1>2. ~hasSaved[s] /\ sfi[s] # "none" /\ Good(Unchanged)
  BY <1>1, StateFields DEF TierInv, Good, LoadOK
<1> DEFINE u == Unchanged
           no == FALSE
           r == Disable(u, s, no)
<1>3. Leave(r)
  BY <1>1, StateFields DEF Leave, Disable, Unchanged
<1>4. /\ Good(u) /\ ~u.hasSaved[s] /\ u.sfi[s] # "none" /\ no \in BOOLEAN
  BY <1>2, StateFields
<1> HIDE DEF u, no, r
<1>5. Good(r)
  <2>1. r = Disable(u, s, no)
    BY DEF r
  <2> QED
    BY <1>4, <2>1, Disabled
<1>6. Good(Unchanged)'
  BY <1>3, <1>5, Left
<1>7. CurrentOK'
  BY <1>1 DEF TierInv, CurrentOK
<1> QED
  BY <1>1, <1>6, <1>7, OnlyShared DEF TierInv, TypeOK

(* Compiler::BuildFunctionInfo: a function is left to CompileLazy if there   *)
(* is saved code of it.                                                      *)
LEMMA StepBuild ==
  ASSUME TierInv, NEW s \in Shared, BuildFunctionInfo(s)
  PROVE  TierInv'
<1> DEFINE l == LiteralOf[s]
           saved == Process = "load" /\ db[Start(s)] # NoChunk
<1>1. PICK k \in {"lazy", "full"} : (saved => k = "lazy") /\ sfi' = [sfi EXCEPT ![s] = k]
  BY DEF BuildFunctionInfo
<1>2. /\ sfi[s] = "none" /\ hasSaved' = [hasSaved EXCEPT ![s] = saved]
      /\ current' = [current EXCEPT ![l] = s]
      /\ UNCHANGED <<db, disabled, patched, codeMap, heap, code, stack>>
  BY DEF BuildFunctionInfo
<1>3. l \in Literal /\ saved \in BOOLEAN
  BY SetAssumption
<1>4. saved => Process # "save" /\ db[Start(s)] # NoChunk
  OBVIOUS
<1> HIDE DEF saved, l
<1>5. /\ sfi' \in [Shared -> {"none", "lazy", "full", "deopt"}]
      /\ sfi'[s] = k /\ \A t \in Shared : t # s => sfi'[t] = sfi[t]
      /\ hasSaved' \in [Shared -> BOOLEAN]
      /\ hasSaved'[s] = saved /\ \A t \in Shared : t # s => hasSaved'[t] = hasSaved[t]
  BY <1>1, <1>2, <1>3, StateShape
<1> DEFINE x == [Unchanged EXCEPT !.sfi = sfi', !.hasSaved = hasSaved']
<1>6. /\ x \in Outcome /\ x.sfi = sfi' /\ x.hasSaved = hasSaved' /\ x.db = db
      /\ x.disabled = disabled /\ x.codeMap = codeMap /\ x.heap = heap
  BY <1>5, StateShape, StateFields DEF Outcome
<1>7. Leave(x)
  BY <1>2, <1>6 DEF Leave
<1> HIDE DEF x
<1>8. /\ \A j \in 1..Len(heap) :
           /\ sfi[heap[j].shared] = "deopt"
           /\ \A t \in heap[j].inlined : sfi[t] = "deopt"
      /\ \A j \in 1..Len(heap) :
           /\ heap[j].shared \in Shared /\ heap[j].inlined \in SUBSET Shared
  <2>1. SupportOK(Unchanged)
    BY DEF TierInv, Good
  <2>2. \A j \in 1..Len(heap) :
           /\ heap[j].shared \in Shared /\ heap[j].inlined \in SUBSET Shared
    BY StateShape, CodeFields
  <2> QED
    BY <2>1, <2>2, StateFields DEF SupportOK
<1>9. \A j \in 1..Len(heap) : heap[j].shared # s /\ s \notin heap[j].inlined
  BY <1>2, <1>8
<1>10. MapOK(x)
  BY <1>6, StateFields DEF TierInv, Good, MapOK
<1>11. SupportOK(x)
  BY <1>5, <1>6, <1>8, <1>9 DEF SupportOK
<1>12. SavedOK(x)
  <2>1. SavedOK(Unchanged)
    BY DEF TierInv, Good
  <2>2. Process = "save" => \A t \in Shared : ~hasSaved'[t]
    <3>1. Process = "save" => \A t \in Shared : ~hasSaved[t]
      BY <2>1, StateFields DEF SavedOK
    <3>2. Process = "save" => ~hasSaved'[s]
      BY <1>4, <1>5
    <3> QED
      BY <1>5, <3>1, <3>2
  <2> QED
    BY <1>6, <2>1, <2>2, StateFields DEF SavedOK
<1>13. LoadOK(x)
  <2>1. LoadOK(Unchanged)
    BY DEF TierInv, Good
  <2>2. /\ \A t \in Shared : hasSaved[t] =>
             /\ db[Start(t)] # NoChunk /\ ~disabled[t]
             /\ sfi[t] \in {"lazy", "deopt"}
        /\ \A j \in 1..Len(heap) :
             heap[j].loaded /\ (heap[j].marked \/ heap[j].bailedOut)
               => ~hasSaved[heap[j].shared]
        /\ \A t \in Shared : sfi[t] = "none" => ~disabled[t] /\ ~hasSaved[t]
    BY <2>1, StateFields DEF LoadOK
  <2>3. \A t \in Shared : hasSaved'[t] =>
             /\ db[Start(t)] # NoChunk /\ ~disabled[t]
             /\ sfi'[t] \in {"lazy", "deopt"}
    <3>1. hasSaved'[s] => /\ db[Start(s)] # NoChunk /\ ~disabled[s]
                          /\ sfi'[s] \in {"lazy", "deopt"}
      BY <1>1, <1>2, <1>4, <1>5, <2>2
    <3> QED
      BY <1>5, <2>2, <3>1
  <2>4. \A j \in 1..Len(heap) :
             heap[j].loaded /\ (heap[j].marked \/ heap[j].bailedOut)
               => ~hasSaved'[heap[j].shared]
    BY <1>5, <1>8, <1>9, <2>2
  <2>5. \A t \in Shared : sfi'[t] = "none" => ~disabled[t] /\ ~hasSaved'[t]
    BY <1>1, <1>5, <2>2
  <2> QED
    BY <1>6, <2>3, <2>4, <2>5 DEF LoadOK
<1>14. Good(Unchanged)'
  <2>1. Good(x)
    BY <1>6, <1>10, <1>11, <1>12, <1>13 DEF Good
  <2> QED
    BY <1>7, <2>1, Left
<1>15. current' \in [Literal -> Shared \cup {NoShared}]
  BY <1>2, <1>3 DEF TierInv, TypeOK
<1>16. \A t \in Shared : sfi[t] # "none" => sfi'[t] # "none"
  BY <1>2, <1>5
<1>17. CurrentOK'
  <2> SUFFICES ASSUME NEW m \in Literal, current'[m] # NoShared
               PROVE  sfi'[current'[m]] # "none"
    BY DEF CurrentOK
  <2>1. CASE m = l
    <3>1. current'[m] = s
      BY <1>2, <1>3, <2>1 DEF TierInv, TypeOK
    <3> QED
      BY <1>1, <1>5, <3>1
  <2>2. CASE m # l
    <3>1. current'[m] = current[m] /\ current[m] \in Shared
      BY <1>2, <1>3, <2>2 DEF TierInv, TypeOK
    <3>2. sfi[current[m]] # "none"
      BY <3>1 DEF TierInv, CurrentOK
    <3> QED
      BY <1>16, <3>1, <3>2
  <2> QED
    BY <2>1, <2>2
<1> QED
  BY <1>2, <1>14, <1>15, <1>16, <1>17, OnlyShared

-----------------------------------------------------------------------------
(* The invariant holds initially: a saving process starts without saved      *)
(* code, a loading one with a file that a saving process wrote.              *)
LEMMA TierInit == Init => TierInv
<1> SUFFICES ASSUME Init
             PROVE  TierInv
  OBVIOUS
<1>1. /\ IF Process = "save" THEN db = [p \in Position |-> NoChunk]
                             ELSE db \in SavedFile
      /\ sfi = [s \in Shared |-> "none"]
      /\ hasSaved = [s \in Shared |-> FALSE]
      /\ disabled = [s \in Shared |-> FALSE]
      /\ patched = {} /\ codeMap = {} /\ heap = <<>> /\ stack = <<>>
      /\ current = [l \in Literal |-> NoShared]
      /\ code = [c \in Closure |-> NoFunction]
  BY DEF Init
<1>2. db \in [Position -> SavedChunk \cup {NoChunk}]
  <2>1. Chunk \subseteq SavedChunk
    BY BoundAssumption DEF Chunk, SavedChunk
  <2> QED
    BY <1>1, <2>1 DEF SavedFile
<1>3. Process = "save" => \A p \in Position : db[p] = NoChunk
  BY <1>1
<1>4. \A t \in Shared : sfi[t] = "none" /\ ~hasSaved[t] /\ ~disabled[t]
  BY <1>1
<1>5. Len(heap) = 0 /\ Len(stack) = 0
  BY <1>1
<1>6. TypeOK
  BY <1>1 DEF TypeOK, NoFunction
<1>7. Good(Unchanged)
  <2> DEFINE u == Unchanged
  <2>1. /\ u.result = Full /\ u.db = db /\ u.sfi = sfi /\ u.hasSaved = hasSaved
        /\ u.disabled = disabled /\ u.codeMap = {} /\ u.heap = heap
    BY <1>1, StateFields
  <2>2. u \in Outcome
    BY <1>1, <1>2 DEF Outcome, Unchanged, Full
  <2> HIDE DEF u
  <2>3. MapOK(u) /\ SupportOK(u)
    BY <1>5, <2>1 DEF MapOK, SupportOK
  <2>4. SavedOK(u)
    BY <1>3, <1>4, <2>1 DEF SavedOK
  <2>5. LoadOK(u)
    BY <1>4, <1>5, <2>1 DEF LoadOK
  <2> QED
    BY <2>2, <2>3, <2>4, <2>5 DEF Good, u
<1>8. ClosureOK /\ FrameOK /\ CurrentOK
  BY <1>1, <1>5 DEF ClosureOK, FrameOK, CurrentOK, NoFunction
<1> QED
  BY <1>6, <1>7, <1>8 DEF TierInv

(* Every step keeps the invariant. *)
LEMMA TierStep == TierInv /\ [Next]_vars => TierInv'
<1> SUFFICES ASSUME TierInv, [Next]_vars
             PROVE  TierInv'
  OBVIOUS
<1>1. ASSUME NEW s \in Shared, BuildFunctionInfo(s)
      PROVE  TierInv'
  BY <1>1, StepBuild
<1>2. ASSUME NEW s \in Shared, TryReenableOptimization(s)
      PROVE  TierInv'
  BY <1>2, StepReenable
<1>3. ASSUME NEW c \in Closure, NewClosure(c)
      PROVE  TierInv'
  BY <1>3, StepNewClosure
<1>4. ASSUME NEW c \in Closure, Call(c)
      PROVE  TierInv'
  BY <1>4, StepCall
<1>5. ASSUME NEW c \in Closure, CompileLazy(c) \/ CompileOptimized(c)
      PROVE  TierInv'
  BY <1>5, StepCompile
<1>6. ASSUME NEW c \in Closure, Optimize(c)
      PROVE  TierInv'
  BY <1>6, StepOptimize
<1>7. ASSUME NEW c \in Closure, AttemptOnStackReplacement(c)
      PROVE  TierInv'
  BY <1>7, StepAttempt
<1>8. ASSUME NEW l \in Loop, CompileForOnStackReplacement(l)
      PROVE  TierInv'
  BY <1>8, StepOsr
<1>9. ASSUME NEW K \in SUBSET (1..Len(heap)), DeoptimizeDependentCodeGroup(K)
      PROVE  TierInv'
  BY <1>9, StepDependent
<1>10. CASE NotifyDeoptimized
  BY <1>10, StepNotify
<1>11. CASE LazyBailout
  BY <1>11, StepLazyBailout
<1>12. CASE Return
  BY <1>12, StepReturn
<1>13. CASE UNCHANGED vars
  <2>1. /\ UNCHANGED <<db, sfi, hasSaved, disabled, current, codeMap, heap, code>>
        /\ patched' \in SUBSET Shared /\ stack' \in Seq(Frame) /\ FrameOK'
    BY <1>13 DEF vars, TierInv, TypeOK, FrameOK
  <2> QED
    BY <2>1, OnlyStack
<1> QED
  BY <1>1, <1>2, <1>3, <1>4, <1>5, <1>6, <1>7, <1>8, <1>9, <1>10, <1>11, <1>12,
     <1>13 DEF Next

(* The inductive invariant of the tiers. *)
LEMMA TierInductive == Spec => []TierInv
BY TierInit, TierStep, PTL DEF Spec

(* The safety properties, read off the invariant. *)
LEMMA TierSafe ==
  TierInv => /\ FrameRunsFunctionCode /\ MarkedIsUnlinked /\ SavedIsCached
             /\ SavedIsStorable /\ DeoptStopsLoading /\ DeoptSupport
             /\ LoadFindsCode
<1> SUFFICES ASSUME TierInv
             PROVE  /\ FrameRunsFunctionCode /\ MarkedIsUnlinked /\ SavedIsCached
                    /\ SavedIsStorable /\ DeoptStopsLoading /\ DeoptSupport
                    /\ LoadFindsCode
  OBVIOUS
<1>1. FrameRunsFunctionCode
  <2> SUFFICES ASSUME NEW i \in 1..Len(stack), Optimized(stack[i].code),
                      ~heap[stack[i].code].marked
               PROVE  code[stack[i].fn] = stack[i].code
    BY DEF FrameRunsFunctionCode
  <2>1. Fits(stack[i], heap, code)
    BY DEF TierInv, FrameOK
  <2>2. stack[i].code \in 1..Len(heap)
    BY <2>1, StateShape DEF Fits, Optimized
  <2> QED
    BY <2>1, <2>2 DEF Fits
<1>2. MarkedIsUnlinked
  <2>1. ASSUME NEW c \in Closure, Optimized(code[c])
        PROVE  ~heap[code[c]].marked
    <3>1. code[c] \in {NoFunction, Marked, Lazy, Full} \cup 1..Len(heap)
      BY DEF TierInv, ClosureOK
    <3>2. code[c] \in 1..Len(heap)
      BY <2>1, <3>1 DEF NoFunction, Marked, Lazy, Full, Optimized
    <3> QED
      BY <3>2 DEF TierInv, ClosureOK
  <2>2. \A e \in codeMap : ~heap[e.code].marked
    BY StateFields DEF TierInv, Good, MapOK
  <2> QED
    BY <2>1, <2>2 DEF MarkedIsUnlinked
<1>3. SavedIsCached /\ SavedIsStorable
  <2>1. SavedOK(Unchanged)
    BY DEF TierInv, Good
  <2> QED
    BY <2>1, StateFields DEF SavedOK, SavedIsCached, SavedIsStorable
<1>4. DeoptStopsLoading /\ LoadFindsCode
  <2>1. LoadOK(Unchanged)
    BY DEF TierInv, Good
  <2> QED
    BY <2>1, StateFields DEF LoadOK, DeoptStopsLoading, Deoptimized, LoadFindsCode
<1>5. DeoptSupport
  <2>1. SupportOK(Unchanged)
    BY DEF TierInv, Good
  <2> QED
    BY <2>1, StateFields DEF SupportOK, DeoptSupport
<1> QED
  BY <1>1, <1>2, <1>3, <1>4, <1>5

(* NotifyDeoptimized acts on function->code() where it means the code of the *)
(* frame: an optimized frame runs the code its function has, or marked code. *)
THEOREM FramesRunTheirCode == Spec => []FrameRunsFunctionCode
BY TierInductive, TierSafe, PTL

(* Code marked for deoptimization is reached by no closure and by no         *)
(* optimized code map, so no new activation of it can start.                 *)
THEOREM MarkedUnlinked == Spec => []MarkedIsUnlinked
BY TierInductive, TierSafe, PTL

(* In a saving process whatever evicts code from an optimized code map       *)
(* discards the chunk that was saved from it.                                *)
THEOREM SavedCached == Spec => []SavedIsCached
BY TierInductive, TierSafe, PTL

(* What a saving process has in the database is what a loading process       *)
(* assumes of the file it is given.                                          *)
THEOREM SavedStorable == Spec => []SavedIsStorable
BY TierInductive, TierSafe, PTL

(* Saved code that was loaded and deoptimized is not loaded again.           *)
THEOREM DeoptStops == Spec => []DeoptStopsLoading
BY TierInductive, TierSafe, PTL

(* Every function of a code object can be deoptimized to.                    *)
THEOREM CanDeoptimize == Spec => []DeoptSupport
BY TierInductive, TierSafe, PTL

(* CodeBlockDatabase::GetCode is never asked for code that is not there.     *)
THEOREM LoadsFindCode == Spec => []LoadFindsCode
BY TierInductive, TierSafe, PTL
=============================================================================
