--------------------------- MODULE CodeCacheProofs ---------------------------
(***************************************************************************)
(* Proofs about the code cache, for any script, any chunks and any order   *)
(* of events in the two processes.  First the codec: what a Load operator  *)
(* makes of the cells that the Save operator of the same name wrote.  Each *)
(* loop of the saver and of the loader is a recursive function; that there *)
(* is one, and what it has after each turn, is shown by induction.  Then   *)
(* the cache: the loader is at the place the saver was at the same turn.   *)
(***************************************************************************)
EXTENDS CodeCache, CodeBlockDatabaseProofs

-----------------------------------------------------------------------------
(* Cells. *)

(* y is x with more cells behind it. *)
Ext(x, y) ==
  /\ x \in Seq(Int) /\ y \in Seq(Int)
  /\ Len(x) <= Len(y)
  /\ \A i \in 1..Len(x) : y[i] = x[i]

LEMMA ExtSelf ==
  ASSUME NEW x \in Seq(Int)
  PROVE  Ext(x, x)
BY LenProperties DEF Ext

LEMMA ExtTrans ==
  ASSUME NEW x, NEW y, NEW z, Ext(x, y), Ext(y, z)
  PROVE  Ext(x, z)
<1>1. Len(x) \in Nat /\ Len(y) \in Nat /\ Len(z) \in Nat
  BY LenProperties DEF Ext
<1>2. ASSUME NEW i \in 1..Len(x)
      PROVE  z[i] = x[i]
  <2>1. i \in 1..Len(y)
    BY <1>1 DEF Ext
  <2> QED
    BY <2>1 DEF Ext
<1> QED
  BY <1>1, <1>2 DEF Ext

(* What has been written is what is read. *)
LEMMA ReadBack ==
  ASSUME NEW y, NEW b, Ext(y, b), NEW k \in 1..Len(y)
  PROVE  At(b, k) = y[k]
<1>1. Len(y) \in Nat /\ Len(b) \in Nat /\ DOMAIN b = 1..Len(b)
  BY LenProperties DEF Ext
<1> QED
  BY <1>1 DEF Ext, At

(* Cells added at the end. *)
LEMMA Added ==
  ASSUME NEW x \in Seq(Int), NEW s \in Seq(Int), NEW y, y = x \o s
  PROVE  Ext(x, y) /\ Len(y) = Len(x) + Len(s) /\ Len(x) \in Nat /\ Len(s) \in Nat
<1>1. /\ y \in Seq(Int) /\ Len(y) = Len(x) + Len(s)
      /\ Len(x) \in Nat /\ Len(s) \in Nat
      /\ \A j \in 1..Len(x) : y[j] = x[j]
  BY Joined
<1> QED
  BY <1>1 DEF Ext

(* The cells s lie behind the first o cells of b. *)
Holds(b, o, s) == \A j \in 1..Len(s) : At(b, o + j) = s[j]

LEMMA AddedRead ==
  ASSUME NEW x \in Seq(Int), NEW s \in Seq(Int), NEW y, y = x \o s,
         NEW b, Ext(y, b)
  PROVE  Ext(x, b) /\ Holds(b, Len(x), s)
<1>1. /\ Len(y) = Len(x) + Len(s) /\ Len(x) \in Nat /\ Len(s) \in Nat
      /\ \A j \in 1..Len(s) : y[Len(x) + j] = s[j]
  BY Joined
<1>2. Ext(x, b)
  BY Added, ExtTrans
<1>3. ASSUME NEW j \in 1..Len(s)
      PROVE  At(b, Len(x) + j) = s[j]
  <2>1. Len(x) + j \in 1..Len(y)
    BY <1>1
  <2>2. At(b, Len(x) + j) = y[Len(x) + j]
    BY <2>1, ReadBack
  <2> QED
    BY <1>1, <2>2
<1> QED
  BY <1>2, <1>3 DEF Holds

LEMMA AddedOne ==
  ASSUME NEW x \in Seq(Int), NEW e \in Int
  PROVE  /\ Append(x, e) \in Seq(Int) /\ Ext(x, Append(x, e))
         /\ Len(Append(x, e)) = Len(x) + 1 /\ Len(x) \in Nat
<1> DEFINE y == Append(x, e)
<1>1. /\ y \in Seq(Int) /\ Len(y) = Len(x) + 1 /\ Len(x) \in Nat
      /\ \A j \in 1..Len(x) : y[j] = x[j]
  BY AppendProperties, LenProperties
<1> HIDE DEF y
<1>2. Ext(x, y)
  BY <1>1 DEF Ext
<1> QED
  BY <1>1, <1>2 DEF y

LEMMA AddedOneRead ==
  ASSUME NEW x \in Seq(Int), NEW e \in Int, NEW b, Ext(Append(x, e), b)
  PROVE  Ext(x, b) /\ At(b, Len(x) + 1) = e
<1> DEFINE y == Append(x, e)
<1>1. Len(y) = Len(x) + 1 /\ Len(x) \in Nat /\ y[Len(x) + 1] = e /\ Ext(y, b)
  BY AppendProperties, LenProperties
<1>2. Ext(x, y)
  BY AddedOne
<1> HIDE DEF y
<1>3. Ext(x, b)
  BY <1>1, <1>2, ExtTrans
<1>4. Len(x) + 1 \in 1..Len(y)
  BY <1>1
<1>5. At(b, Len(x) + 1) = y[Len(x) + 1]
  BY <1>1, <1>4, ReadBack
<1> QED
  BY <1>1, <1>3, <1>5

(* A loop that only adds cells: each turn is a part of what there is at the  *)
(* end.                                                                      *)
LEMMA Chain ==
  ASSUME NEW n \in Nat, NEW h, h[0] \in Seq(Int),
         \A i \in 1..n : h[i - 1] \in Seq(Int) => Ext(h[i - 1], h[i])
  PROVE  \A i \in 0..n : h[i] \in Seq(Int) /\ Ext(h[0], h[i]) /\ Ext(h[i], h[n])
<1> DEFINE S == {i \in 0..n : h[i] \in Seq(Int) /\ Ext(h[0], h[i])}
           T == {i \in 0..n : Ext(h[n - i], h[n])}
<1>1. 0..n \subseteq S
  <2>1. 0 \in S
    BY ExtSelf
  <2>2. ASSUME NEW i \in 0 .. n - 1, i \in S
        PROVE  i + 1 \in S
    <3>1. i + 1 \in 1..n /\ (i + 1) - 1 = i /\ i + 1 \in 0..n
      OBVIOUS
    <3>2. Ext(h[i], h[i + 1])
      BY <2>2, <3>1
    <3>3. Ext(h[0], h[i + 1])
      BY <2>2, <3>2, ExtTrans
    <3> QED
      BY <3>1, <3>2, <3>3 DEF Ext
  <2> HIDE DEF S
  <2> QED
    BY <2>1, <2>2, SetInduction
<1>2. 0..n \subseteq T
  <2>1. 0 \in T
    <3>1. h[n] \in Seq(Int) /\ n - 0 = n /\ 0 \in 0..n
      BY <1>1
    <3> QED
      BY <3>1, ExtSelf
  <2>2. ASSUME NEW i \in 0 .. n - 1, i \in T
        PROVE  i + 1 \in T
    <3>1. /\ n - i \in 1..n /\ (n - i) - 1 = n - (i + 1) /\ n - (i + 1) \in 0..n
          /\ i + 1 \in 0..n
      OBVIOUS
    <3>2. h[n - (i + 1)] \in Seq(Int)
      BY <1>1, <3>1
    <3>3. Ext(h[n - (i + 1)], h[n - i])
      BY <3>1, <3>2
    <3>4. Ext(h[n - (i + 1)], h[n])
      BY <2>2, <3>3, ExtTrans
    <3> QED
      BY <3>1, <3>4
  <2> HIDE DEF T
  <2> QED
    BY <2>1, <2>2, SetInduction
<1>3. ASSUME NEW i \in 0..n
      PROVE  h[i] \in Seq(Int) /\ Ext(h[0], h[i]) /\ Ext(h[i], h[n])
  <2>1. n - i \in T /\ n - (n - i) = i
    <3> HIDE DEF T
    <3>1. n - i \in 0..n /\ n - (n - i) = i
      OBVIOUS
    <3> QED
      BY <1>2, <3>1
  <2> QED
    BY <1>1, <2>1
<1> QED
  BY <1>3

-----------------------------------------------------------------------------
(* Functions and lists. *)

(* What a process has: the names are bound to functions of that name. *)
IsProcess(w) == w.owner \in Literal /\ w.binding \in Bindings

LEMMA BindingFacts ==
  ASSUME NEW b \in Bindings, NEW n \in DOMAIN b
  PROVE  n \in Name /\ b[n] \in Literal /\ NameOf[b[n]] = n
BY DEF Bindings

LEMMA LiteralFacts ==
  ASSUME NEW l \in Literal
  PROVE  l \in Nat /\ l \in Int /\ NameOf[l] \in Nat /\ NameOf[l] \in Int
BY ScriptAssumption

(* The cells of a function. *)
FnCells(fn, w) ==
  IF HasName(fn, w)
  THEN <<IF NameOf[fn] \in ContextName[w.owner]
         THEN kByNameInContextChain ELSE kByNameInGlobalObject,
         NameOf[fn]>>
  ELSE <<kByStartPosition, fn>>

LEMMA FnCellsAre ==
  ASSUME NEW fn \in Literal, NEW w
  PROVE  /\ FnCells(fn, w) \in Seq(Int) /\ Len(FnCells(fn, w)) = 2
         /\ IF HasName(fn, w)
            THEN /\ FnCells(fn, w)[1] \in {kByNameInContextChain, kByNameInGlobalObject}
                 /\ FnCells(fn, w)[2] = NameOf[fn]
            ELSE FnCells(fn, w)[1] = kByStartPosition /\ FnCells(fn, w)[2] = fn
BY LiteralFacts DEF FnCells, kByNameInContextChain, kByNameInGlobalObject,
                    kByStartPosition

LEMMA FnSaved ==
  ASSUME NEW x \in Seq(Int), NEW fn \in Literal, NEW w
  PROVE  /\ SaveJSFunction(x, fn, w) = x \o FnCells(fn, w)
         /\ Ext(x, SaveJSFunction(x, fn, w))
         /\ Len(SaveJSFunction(x, fn, w)) = Len(x) + 2
         /\ SaveJSFunction(x, fn, w) \in Seq(Int)
<1> DEFINE y == SaveJSFunction(x, fn, w)
<1>1. y = x \o FnCells(fn, w)
  BY DEF SaveJSFunction, FnCells
<1>2. FnCells(fn, w) \in Seq(Int) /\ Len(FnCells(fn, w)) = 2
  BY FnCellsAre
<1>3. Ext(x, y) /\ Len(y) = Len(x) + Len(FnCells(fn, w))
  <2> HIDE DEF y
  <2> QED
    BY <1>1, <1>2, Added
<1> QED
  BY <1>1, <1>2, <1>3 DEF Ext

(* The loading process has not made the function yet. *)
Missing(fn, v) == Outer(fn) = Root /\ fn \notin v.made

(* What LoadJSFunction makes of a saved function. *)
FnLoads(r, fn, v, pos) ==
  /\ r.pos = pos
  /\ r.ok \in BOOLEAN /\ r.fatal \in BOOLEAN
  /\ r.ok => ~r.fatal /\ r.value \in Literal /\ Namesake(fn, r.value)
  /\ r.ok \/ r.fatal \/ Missing(fn, v)

(* LoadJSFunction, field by field. *)
ByName(b, pos, v) ==
  /\ At(b, pos) \in {kByNameInContextChain, kByNameInGlobalObject}
  /\ At(b, pos + 1) \in DOMAIN v.binding

LEMMA FnFields ==
  ASSUME NEW b, NEW pos, NEW v
  PROVE  LET r == LoadJSFunction(b, pos, v)
         IN  /\ r.pos = pos + 2
             /\ r.ok \in BOOLEAN /\ r.fatal \in BOOLEAN
             /\ r.ok <=> (\/ ByName(b, pos, v)
                         \/ (At(b, pos) = kByStartPosition /\ At(b, pos + 1) \in v.made))
             /\ r.fatal <=> (~ByName(b, pos, v) /\ At(b, pos) # kByStartPosition)
             /\ ByName(b, pos, v) => r.value = v.binding[At(b, pos + 1)]
             /\ ~ByName(b, pos, v) => r.value = At(b, pos + 1)
BY Zenon DEF LoadJSFunction, ByName

LEMMA FnLoad ==
  ASSUME NEW x \in Seq(Int), NEW fn \in Literal, NEW w, NEW v, NEW b,
         IsProcess(w), IsProcess(v), IsSaveable(fn, w),
         Ext(SaveJSFunction(x, fn, w), b)
  PROVE  FnLoads(LoadJSFunction(b, Len(x) + 1, v), fn, v, Len(x) + 3)
<1> DEFINE r == LoadJSFunction(b, Len(x) + 1, v)
           cells == FnCells(fn, w)
           y == SaveJSFunction(x, fn, w)
<1>1. y = x \o cells /\ cells \in Seq(Int) /\ Len(cells) = 2
  BY FnSaved, FnCellsAre
<1>2. At(b, Len(x) + 1) = cells[1] /\ At(b, Len(x) + 2) = cells[2] /\ Len(x) \in Nat
  <2> HIDE DEF y, cells
  <2>1. Ext(y, b)
    BY DEF y
  <2>2. Holds(b, Len(x), cells)
    BY <1>1, <2>1, AddedRead
  <2>3. 1 \in 1..Len(cells) /\ 2 \in 1..Len(cells) /\ Len(x) \in Nat
    BY <1>1, LenProperties
  <2> QED
    BY <2>2, <2>3 DEF Holds
<1>3. Len(x) + 1 + 1 = Len(x) + 2 /\ Len(x) + 1 + 2 = Len(x) + 3
  BY <1>2
<1> DEFINE pos == Len(x) + 1
           named == ByName(b, pos, v)
<1>6. At(b, pos) = cells[1] /\ At(b, pos + 1) = cells[2] /\ pos + 2 = Len(x) + 3
  BY <1>2, <1>3
<1>7. /\ r.pos = Len(x) + 3
      /\ r.ok \in BOOLEAN /\ r.fatal \in BOOLEAN
      /\ r.ok <=> (named \/ (cells[1] = kByStartPosition /\ cells[2] \in v.made))
      /\ r.fatal <=> (~named /\ cells[1] # kByStartPosition)
      /\ named => r.value = v.binding[cells[2]]
      /\ ~named => r.value = cells[2]
  <2> HIDE DEF pos, cells
  <2> QED
    BY <1>6, FnFields DEF pos
<1>8. named <=> /\ cells[1] \in {kByNameInContextChain, kByNameInGlobalObject}
                /\ cells[2] \in DOMAIN v.binding
  BY <1>6 DEF ByName
<1> HIDE DEF r, named, pos
<1>4. CASE HasName(fn, w)
  <2>1. /\ cells[1] \in {kByNameInContextChain, kByNameInGlobalObject}
        /\ cells[2] = NameOf[fn]
    BY <1>4, FnCellsAre
  <2>2. NameOf[fn] \in Name
    BY <1>4, BindingFacts DEF HasName, IsProcess
  <2>3. CASE NameOf[fn] \in DOMAIN v.binding
    <3>1. v.binding[NameOf[fn]] \in Literal /\ NameOf[v.binding[NameOf[fn]]] = NameOf[fn]
      BY <2>3, BindingFacts DEF IsProcess
    <3>2. r.ok /\ ~r.fatal /\ r.value = v.binding[NameOf[fn]]
      BY <1>7, <1>8, <2>1, <2>3
    <3>3. Namesake(fn, r.value)
      BY <2>2, <3>1, <3>2 DEF Namesake, Name
    <3> QED
      BY <1>7, <3>1, <3>2, <3>3 DEF FnLoads, r
  <2>4. CASE NameOf[fn] \notin DOMAIN v.binding
    <3>1. cells[1] # kByStartPosition
      BY <2>1 DEF kByNameInContextChain, kByNameInGlobalObject, kByStartPosition
    <3>2. ~r.ok /\ r.fatal
      BY <1>7, <1>8, <2>1, <2>4, <3>1
    <3> QED
      BY <1>7, <3>2 DEF FnLoads, r
  <2> QED
    BY <2>3, <2>4
<1>5. CASE ~HasName(fn, w)
  <2>1. cells[1] = kByStartPosition /\ cells[2] = fn
    BY <1>5, FnCellsAre
  <2>2. Outer(fn) = Root
    BY <1>5 DEF IsSaveable
  <2>3. ~named
    BY <1>8, <2>1 DEF kByNameInContextChain, kByNameInGlobalObject, kByStartPosition
  <2>4. (r.ok <=> fn \in v.made) /\ ~r.fatal /\ r.value = fn
    BY <1>7, <2>1, <2>3
  <2>5. Namesake(fn, r.value)
    BY <2>4 DEF Namesake
  <2> QED
    BY <1>7, <2>2, <2>4, <2>5 DEF FnLoads, r, Missing
<1> QED
  BY <1>4, <1>5

(* The length of a list and its members. *)
LEMMA ListSaved ==
  ASSUME NEW x \in Seq(Int), NEW s \in Seq(Int)
  PROVE  /\ SaveList(x, s) \in Seq(Int) /\ Ext(x, SaveList(x, s))
         /\ Len(SaveList(x, s)) = Len(x) + 1 + Len(s)
         /\ x \o <<Len(s)>> \in Seq(Int)
         /\ Len(x \o <<Len(s)>>) = Len(x) + 1
<1> DEFINE one == <<Len(s)>>
           a == x \o one
           y == SaveList(x, s)
<1>1. Len(x) \in Nat /\ Len(s) \in Nat /\ one \in Seq(Int) /\ Len(one) = 1
  BY LenProperties
<1>2. Ext(x, a) /\ Len(a) = Len(x) + 1
  <2> HIDE DEF one
  <2>1. Ext(x, a) /\ Len(a) = Len(x) + Len(one)
    BY <1>1, Added
  <2> QED
    BY <1>1, <2>1
<1>3. Ext(a, y) /\ Len(y) = Len(a) + Len(s)
  <2>1. y = a \o s
    BY DEF SaveList
  <2>2. a \in Seq(Int)
    BY <1>2 DEF Ext
  <2> HIDE DEF a, y
  <2> QED
    BY <2>1, <2>2, Added
<1>4. a = x \o <<Len(s)>> /\ y = SaveList(x, s)
  OBVIOUS
<1> HIDE DEF a, y
<1>5. Ext(x, y)
  BY <1>2, <1>3, ExtTrans
<1>6. a \in Seq(Int) /\ y \in Seq(Int)
  BY <1>3 DEF Ext
<1>7. Len(y) = Len(x) + 1 + Len(s)
  BY <1>1, <1>2, <1>3
<1> QED
  BY <1>2, <1>4, <1>5, <1>6, <1>7

LEMMA ListLoad ==
  ASSUME NEW x \in Seq(Int), NEW s \in Seq(Int), NEW b, Ext(SaveList(x, s), b)
  PROVE  /\ LoadList(b, Len(x) + 1).pos = Len(SaveList(x, s)) + 1
         /\ LoadList(b, Len(x) + 1).value = s
<1> DEFINE one == <<Len(s)>>
           a == x \o one
           y == SaveList(x, s)
           n == Len(s)
           o == Len(x) + 1
<1>1. Len(x) \in Nat /\ Len(s) \in Nat /\ one \in Seq(Int) /\ Len(one) = 1 /\ one[1] = Len(s)
  BY LenProperties
<1>2. a \in Seq(Int) /\ Len(a) = Len(x) + 1 /\ Len(y) = Len(x) + 1 + Len(s)
  BY ListSaved
<1>3. Ext(a, b) /\ Holds(b, Len(a), s)
  <2>1. y = a \o s /\ Ext(y, b)
    BY DEF SaveList
  <2> HIDE DEF a, y
  <2> QED
    BY <1>2, <2>1, AddedRead
<1>4. At(b, Len(x) + 1) = Len(s)
  <2> HIDE DEF one
  <2>1. Holds(b, Len(x), one)
    BY <1>1, <1>3, AddedRead
  <2>2. 1 \in 1..Len(one)
    BY <1>1
  <2> HIDE DEF a
  <2> QED
    BY <1>1, <2>1, <2>2 DEF Holds
<1>5. s = [i \in 1..n |-> s[i]]
  OBVIOUS
<1> HIDE DEF a, y
<1>6. At(b, o) = n /\ \A j \in 1..n : At(b, o + j) = s[j]
  BY <1>2, <1>3, <1>4 DEF Holds
<1>7. n \in Nat /\ o \in Nat /\ Len(y) = o + n
  BY <1>1, <1>2
<1> HIDE DEF n, o
<1>8. (IF At(b, o) > 0 THEN At(b, o) ELSE 0) = n
  BY <1>6, <1>7
<1>9. LoadList(b, o).pos = o + 1 + n /\ LoadList(b, o).value = [i \in 1..n |-> At(b, o + i)]
  BY <1>8 DEF LoadList
<1>10. [i \in 1..n |-> At(b, o + i)] = s
  BY <1>5, <1>6
<1>11. LoadList(b, o).pos = Len(y) + 1
  BY <1>7, <1>9
<1> QED
  BY <1>9, <1>10, <1>11 DEF o, y

-----------------------------------------------------------------------------
(* Frames and environments. *)

(* What precedes the values of a frame. *)
FrameHead(x, frame, w) ==
  IF frame.closure = w.owner THEN Append(Append(x, frame.ast_id), 1)
  ELSE SaveJSFunction(Append(Append(x, frame.ast_id), 0), frame.closure, w)

LEMMA FrameSaved ==
  ASSUME NEW x \in Seq(Int), NEW frame \in Frames, NEW w
  PROVE  /\ SaveFrame(x, frame, w) = SaveList(FrameHead(x, frame, w), frame.values)
         /\ FrameHead(x, frame, w) \in Seq(Int)
         /\ Ext(x, SaveFrame(x, frame, w))
         /\ SaveFrame(x, frame, w) \in Seq(Int)
<1> DEFINE a == Append(x, frame.ast_id)
           h == FrameHead(x, frame, w)
           y == SaveFrame(x, frame, w)
<1>1. frame.ast_id \in Int /\ frame.closure \in Literal /\ frame.values \in Seq(Int)
  BY DEF Frames
<1>2. Ext(x, a) /\ a \in Seq(Int)
  BY <1>1, AddedOne
<1>3. Ext(a, h) /\ h \in Seq(Int)
  <2> HIDE DEF a
  <2>1. /\ Append(a, 0) \in Seq(Int) /\ Ext(a, Append(a, 0))
        /\ Append(a, 1) \in Seq(Int) /\ Ext(a, Append(a, 1))
    BY <1>2, AddedOne
  <2>2. CASE frame.closure = w.owner
    <3>1. h = Append(a, 1)
      BY <2>2 DEF FrameHead, a
    <3> QED
      BY <2>1, <3>1
  <2>3. CASE frame.closure # w.owner
    <3> DEFINE f == SaveJSFunction(Append(a, 0), frame.closure, w)
    <3>1. h = f
      BY <2>3 DEF FrameHead, a
    <3>2. Ext(Append(a, 0), f) /\ f \in Seq(Int)
      BY <1>1, <2>1, FnSaved
    <3>3. Ext(a, f)
      BY <2>1, <3>2, ExtTrans
    <3> QED
      BY <3>1, <3>2, <3>3
  <2> QED
    BY <2>2, <2>3
<1>4. y = SaveList(h, frame.values)
  BY DEF SaveFrame, FrameHead
<1> HIDE DEF a, h
<1>5. y \in Seq(Int) /\ Ext(h, y)
  BY <1>1, <1>3, <1>4, ListSaved
<1> HIDE DEF y
<1>6. Ext(x, y)
  BY <1>2, <1>3, <1>5, ExtTrans
<1> QED
  BY <1>3, <1>4, <1>5, <1>6 DEF h, y

(* The closure of a frame, as LoadFrame finds it. *)
FrameClosure(b, pos, v) ==
  IF At(b, pos + 1) # 0
  THEN [pos |-> pos + 2, ok |-> TRUE, fatal |-> FALSE, value |-> v.owner]
  ELSE LoadJSFunction(b, pos + 2, v)

LEMMA ClosureTyped ==
  ASSUME NEW b, NEW pos, NEW v
  PROVE  /\ FrameClosure(b, pos, v).ok \in BOOLEAN
         /\ FrameClosure(b, pos, v).fatal \in BOOLEAN
<1>1. CASE At(b, pos + 1) # 0
  BY <1>1, Zenon DEF FrameClosure
<1>2. CASE At(b, pos + 1) = 0
  BY <1>2, FnFields, Zenon DEF FrameClosure
<1> QED
  BY <1>1, <1>2

(* LoadFrame, field by field: c is the closure, l the values. *)
IsFrame(r, b, at, c, l) ==
  /\ r.ok \in BOOLEAN /\ r.fatal \in BOOLEAN
  /\ r.ok <=> (at.ok /\ c.ok)
  /\ r.ok => /\ ~r.fatal /\ r.pos = l.pos
             /\ r.value = Append(at.value, [ast_id |-> At(b, at.pos),
                                            closure |-> c.value,
                                            values |-> l.value])
  /\ ~r.ok => (r.fatal <=> (at.fatal \/ c.fatal)) /\ r.pos = c.pos /\ r.value = <<>>

IsStatus(at) == at.ok \in BOOLEAN /\ at.fatal \in BOOLEAN

LEMMA FrameFields ==
  ASSUME NEW b, NEW at, NEW v, IsStatus(at)
  PROVE  IsFrame(LoadFrame(b, at, v), b, at, FrameClosure(b, at.pos, v),
                 LoadList(b, FrameClosure(b, at.pos, v).pos))
<1> DEFINE r == LoadFrame(b, at, v)
           c == FrameClosure(b, at.pos, v)
           l == LoadList(b, c.pos)
           fr == [ast_id |-> At(b, at.pos), closure |-> c.value, values |-> l.value]
<1>1. c.ok \in BOOLEAN /\ c.fatal \in BOOLEAN
  BY ClosureTyped
<1>2. r = IF at.ok /\ c.ok
          THEN [pos |-> l.pos, ok |-> TRUE, fatal |-> FALSE, value |-> Append(at.value, fr)]
          ELSE [pos |-> c.pos, ok |-> FALSE, fatal |-> at.fatal \/ c.fatal, value |-> <<>>]
  BY DEF LoadFrame, FrameClosure
<1> HIDE DEF r, c, l, fr
<1>3. CASE at.ok /\ c.ok
  <2>1. r = [pos |-> l.pos, ok |-> TRUE, fatal |-> FALSE, value |-> Append(at.value, fr)]
    BY <1>2, <1>3
  <2>2. r.ok = TRUE /\ r.fatal = FALSE /\ r.pos = l.pos /\ r.value = Append(at.value, fr)
    BY <2>1
  <2> QED
    BY <1>3, <2>2, Zenon DEF r, c, l, fr, IsFrame, IsStatus
<1>4. CASE ~(at.ok /\ c.ok)
  <2>1. r = [pos |-> c.pos, ok |-> FALSE, fatal |-> at.fatal \/ c.fatal, value |-> <<>>]
    BY <1>2, <1>4
  <2>2. r.ok = FALSE /\ r.fatal = (at.fatal \/ c.fatal) /\ r.pos = c.pos /\ r.value = <<>>
    BY <2>1, Zenon
  <2> QED
    BY <1>1, <1>4, <2>2, Zenon DEF r, c, l, fr, IsFrame, IsStatus
<1> QED
  BY <1>3, <1>4

(* The saver w and the loader v of the same function. *)
Pair(w, v) == IsProcess(w) /\ IsProcess(v) /\ v.owner = w.owner

Saveable(fn, w) == fn = w.owner \/ IsSaveable(fn, w)

LEMMA ClosureLoad ==
  ASSUME NEW x \in Seq(Int), NEW frame \in Frames, NEW w, NEW v, NEW b,
         Pair(w, v), Saveable(frame.closure, w),
         Ext(FrameHead(x, frame, w), b)
  PROVE  /\ FnLoads(FrameClosure(b, Len(x) + 1, v), frame.closure, v,
                    Len(FrameHead(x, frame, w)) + 1)
         /\ At(b, Len(x) + 1) = frame.ast_id
<1> DEFINE a == Append(x, frame.ast_id)
           fn == frame.closure
           c == FrameClosure(b, Len(x) + 1, v)
           h == FrameHead(x, frame, w)
<1>1. frame.ast_id \in Int /\ fn \in Literal /\ frame.values \in Seq(Int)
  BY DEF Frames
<1>2. a \in Seq(Int) /\ Len(a) = Len(x) + 1 /\ Len(x) \in Nat
  BY <1>1, AddedOne
<1> HIDE DEF a, fn
<1>3. /\ Append(a, 0) \in Seq(Int) /\ Len(Append(a, 0)) = Len(x) + 2
      /\ Append(a, 1) \in Seq(Int) /\ Len(Append(a, 1)) = Len(x) + 2
  <2>1. /\ Append(a, 0) \in Seq(Int) /\ Len(Append(a, 0)) = Len(a) + 1
        /\ Append(a, 1) \in Seq(Int) /\ Len(Append(a, 1)) = Len(a) + 1
    BY <1>2, AddedOne
  <2> QED
    BY <1>2, <2>1
<1>4. CASE fn = w.owner
  <2>1. h = Append(a, 1)
    BY <1>4 DEF FrameHead, a, fn
  <2>2. Ext(a, b) /\ At(b, Len(a) + 1) = 1
    BY <1>2, <2>1, AddedOneRead
  <2>3. At(b, Len(x) + 1) = frame.ast_id
    BY <1>1, <2>2, AddedOneRead DEF a
  <2>4. At(b, (Len(x) + 1) + 1) = 1 /\ (Len(x) + 1) + 2 = Len(x) + 3
    BY <1>2, <2>2
  <2>5. c = [pos |-> (Len(x) + 1) + 2, ok |-> TRUE, fatal |-> FALSE, value |-> v.owner]
    BY <2>4 DEF FrameClosure
  <2> HIDE DEF c
  <2>6. c.pos = Len(x) + 3 /\ c.ok /\ ~c.fatal /\ c.value = v.owner
        /\ c.ok \in BOOLEAN /\ c.fatal \in BOOLEAN
    BY <2>4, <2>5
  <2>7. Len(h) + 1 = Len(x) + 3
    BY <1>2, <1>3, <2>1
  <2>8. Namesake(fn, c.value) /\ c.value \in Literal
    BY <1>1, <1>4, <2>6 DEF Pair, Namesake
  <2>9. FnLoads(c, fn, v, Len(h) + 1)
    BY <2>6, <2>7, <2>8 DEF FnLoads
  <2> QED
    BY <2>3, <2>9 DEF c, fn
<1>5. CASE fn # w.owner
  <2> DEFINE a0 == Append(a, 0)
  <2>1. h = SaveJSFunction(a0, fn, w)
    BY <1>5 DEF FrameHead, a, fn
  <2>2. a0 \in Seq(Int) /\ Len(a0) = Len(x) + 2
    BY <1>3
  <2>3. IsSaveable(fn, w)
    BY <1>5 DEF Saveable, fn
  <2>4. Ext(a0, b) /\ Len(h) = Len(a0) + 2
    <3>1. Ext(a0, h) /\ Len(h) = Len(a0) + 2
      <4> HIDE DEF a0
      <4> QED
        BY <1>1, <2>1, <2>2, FnSaved
    <3> HIDE DEF h, a0
    <3> QED
      BY <3>1, ExtTrans DEF h
  <2>5. Ext(a, b) /\ At(b, Len(a) + 1) = 0
    BY <1>2, <2>4, AddedOneRead
  <2>6. At(b, Len(x) + 1) = frame.ast_id
    BY <1>1, <2>5, AddedOneRead DEF a
  <2>7. FnLoads(LoadJSFunction(b, Len(a0) + 1, v), fn, v, Len(a0) + 3)
    <3> HIDE DEF a0
    <3>1. Ext(SaveJSFunction(a0, fn, w), b)
      BY <2>1
    <3> QED
      BY <1>1, <2>2, <2>3, <3>1, FnLoad DEF Pair
  <2> HIDE DEF a0
  <2>8. /\ At(b, (Len(x) + 1) + 1) = 0 /\ (Len(x) + 1) + 2 = Len(a0) + 1
        /\ Len(a0) + 3 = Len(h) + 1
    <3> HIDE DEF h
    <3> QED
      BY <1>2, <2>2, <2>4, <2>5
  <2>9. c = LoadJSFunction(b, Len(a0) + 1, v)
    BY <2>8 DEF FrameClosure
  <2> HIDE DEF c, h
  <2>10. FnLoads(c, fn, v, Len(h) + 1)
    BY <2>7, <2>8, <2>9
  <2> QED
    BY <2>6, <2>10 DEF c, h, fn
<1> QED
  BY <1>4, <1>5

(* A frame and what is loaded for it. *)
SameFrame(frame, loaded) ==
  /\ frame.ast_id = loaded.ast_id
  /\ frame.values = loaded.values
  /\ Namesake(frame.closure, loaded.closure)

(* What LoadFrame, called in a good state at, makes of a saved frame. *)
FrameLoads(r, at, frame, v, pos) ==
  /\ r.ok \in BOOLEAN /\ r.fatal \in BOOLEAN
  /\ r.ok => /\ ~r.fatal /\ r.pos = pos
             /\ \E fr \in Frames : r.value = Append(at.value, fr) /\ SameFrame(frame, fr)
  /\ r.ok \/ r.fatal \/ Missing(frame.closure, v)

LEMMA FrameLoad ==
  ASSUME NEW x \in Seq(Int), NEW frame \in Frames, NEW w, NEW v, NEW b, NEW at,
         Pair(w, v), Saveable(frame.closure, w),
         Ext(SaveFrame(x, frame, w), b),
         at.pos = Len(x) + 1, IsStatus(at), at.ok, ~at.fatal
  PROVE  FrameLoads(LoadFrame(b, at, v), at, frame, v, Len(SaveFrame(x, frame, w)) + 1)
<1> DEFINE h == FrameHead(x, frame, w)
           c == FrameClosure(b, at.pos, v)
           l == LoadList(b, c.pos)
           r == LoadFrame(b, at, v)
           y == SaveFrame(x, frame, w)
           fr == [ast_id |-> At(b, at.pos), closure |-> c.value, values |-> l.value]
<1>1. frame.ast_id \in Int /\ frame.closure \in Literal /\ frame.values \in Seq(Int)
  BY DEF Frames
<1>2. y = SaveList(h, frame.values) /\ h \in Seq(Int)
  BY FrameSaved
<1>3. Ext(h, y) /\ Ext(h, b)
  <2> HIDE DEF h
  <2>1. Ext(h, y)
    BY <1>1, <1>2, ListSaved
  <2> QED
    BY <2>1, ExtTrans
<1>4. FnLoads(c, frame.closure, v, Len(h) + 1) /\ At(b, at.pos) = frame.ast_id
  BY <1>3, ClosureLoad
<1>5. c.ok => l.pos = Len(y) + 1 /\ l.value = frame.values
  <2>1. LoadList(b, Len(h) + 1).pos = Len(y) + 1 /\ LoadList(b, Len(h) + 1).value = frame.values
    <3> HIDE DEF h
    <3>1. Ext(SaveList(h, frame.values), b)
      BY <1>2
    <3> QED
      BY <1>1, <1>2, <3>1, ListLoad
  <2>2. c.pos = Len(h) + 1
    BY <1>4 DEF FnLoads
  <2> HIDE DEF h, c, y
  <2> QED
    BY <2>1, <2>2
<1>6. /\ r.ok \in BOOLEAN /\ r.fatal \in BOOLEAN
      /\ r.ok <=> (at.ok /\ c.ok)
      /\ r.ok => ~r.fatal /\ r.pos = l.pos /\ r.value = Append(at.value, fr)
      /\ ~r.ok => (r.fatal <=> (at.fatal \/ c.fatal))
  <2>1. IsFrame(r, b, at, c, l)
    BY FrameFields
  <2> HIDE DEF r, c, l
  <2> QED
    BY <2>1 DEF IsFrame
<1>7. c.ok => fr \in Frames /\ SameFrame(frame, fr)
  <2> HIDE DEF c, l
  <2>1. c.ok => /\ c.value \in Literal /\ Namesake(frame.closure, c.value)
    BY <1>4 DEF FnLoads
  <2> QED
    BY <1>1, <1>4, <1>5, <2>1 DEF Frames, SameFrame
<1> HIDE DEF c, l, r, fr, y
<1>8. c.ok \in BOOLEAN /\ (c.ok \/ c.fatal \/ Missing(frame.closure, v))
  BY <1>4 DEF FnLoads
<1>9. FrameLoads(r, at, frame, v, Len(y) + 1)
  BY <1>5, <1>6, <1>7, <1>8 DEF FrameLoads
<1> QED
  BY <1>9 DEF r, y

(* A true for every outer environment, a false. *)
Flags(env) == [i \in 1..Len(env) |-> IF i < Len(env) THEN 1 ELSE 0]

LEMMA FlagsAre ==
  ASSUME NEW env \in Seq(Frames)
  PROVE  /\ Flags(env) \in Seq(Int) /\ Len(Flags(env)) = Len(env) /\ Len(env) \in Nat
         /\ \A i \in 1..Len(env) : Flags(env)[i] = IF i < Len(env) THEN 1 ELSE 0
<1>1. Len(env) \in Nat
  BY LenProperties
<1> QED
  BY <1>1 DEF Flags

LEMMA FlagsSaved ==
  ASSUME NEW x \in Seq(Int), NEW env \in Seq(Frames)
  PROVE  /\ Ext(x, x \o Flags(env)) /\ x \o Flags(env) \in Seq(Int)
         /\ Len(x \o Flags(env)) = Len(x) + Len(env)
<1>1. Flags(env) \in Seq(Int) /\ Len(Flags(env)) = Len(env)
  BY FlagsAre
<1> DEFINE y == x \o Flags(env)
<1>2. y = x \o Flags(env)
  OBVIOUS
<1> HIDE DEF y
<1>3. Ext(x, y) /\ Len(y) = Len(x) + Len(Flags(env))
  BY <1>1, <1>2, Added
<1> QED
  BY <1>1, <1>2, <1>3 DEF Ext

(* The turns of SaveEnvironment. *)
LEMMA SaveFramesLoop ==
  ASSUME NEW x, NEW env \in Seq(Frames), NEW w
  PROVE  /\ SaveFrames(x, env, w)[0] = x \o Flags(env)
         /\ \A i \in 1..Len(env) :
              SaveFrames(x, env, w)[i] = SaveFrame(SaveFrames(x, env, w)[i - 1], env[i], w)
<1> DEFINE n == Len(env)
           start == x \o Flags(env)
           Is(g, m) == g = [i \in 0..m |-> IF i = 0 THEN start
                                           ELSE SaveFrame(g[i - 1], env[i], w)]
           S == {m \in 0..n : \E g : Is(g, m)}
<1>0. n \in Nat
  BY LenProperties
<1> HIDE DEF n, start
<1>1. 0 \in S
  <2> DEFINE g == [i \in 0..0 |-> start]
  <2>1. Is(g, 0)
    OBVIOUS
  <2> HIDE DEF Is, g
  <2> QED
    BY <1>0, <2>1
<1>2. ASSUME NEW m \in 0 .. n - 1, m \in S
      PROVE  m + 1 \in S
  <2>1. PICK g : Is(g, m)
    BY <1>2
  <2> DEFINE y == SaveFrame(g[m], env[(m + 1)], w)
             h == [i \in 0 .. m + 1 |-> IF i = m + 1 THEN y ELSE g[i]]
  <2>2. ASSUME NEW i \in 0 .. m + 1
        PROVE  h[i] = IF i = 0 THEN start ELSE SaveFrame(h[i - 1], env[i], w)
    <3>1. CASE i = m + 1
      <4>1. h[i] = y /\ i # 0 /\ h[i - 1] = g[m]
        BY <1>0, <3>1
      <4> QED
        BY <3>1, <4>1
    <3>2. CASE i # m + 1
      <4>1. i \in 0..m /\ h[i] = g[i] /\ (i # 0 => h[i - 1] = g[i - 1])
        BY <1>0, <3>2
      <4>2. g[i] = IF i = 0 THEN start ELSE SaveFrame(g[i - 1], env[i], w)
        BY <2>1, <4>1
      <4> QED
        BY <4>1, <4>2
    <3> QED
      BY <3>1, <3>2
  <2>3. h = [i \in 0 .. m + 1 |-> h[i]] /\ m + 1 \in 0..n
    BY <1>0
  <2> HIDE DEF h
  <2>4. Is(h, m + 1)
    BY <2>2, <2>3
  <2> HIDE DEF Is
  <2> QED
    BY <2>3, <2>4
<1>3. \E g : Is(g, n)
  <2> HIDE DEF S
  <2>1. 0..n \subseteq S /\ n \in 0..n
    BY <1>0, <1>1, <1>2, SetInduction
  <2> HIDE DEF Is
  <2> QED
    BY <2>1 DEF S
<1>4. SaveFrames(x, env, w) = CHOOSE g : Is(g, n)
  BY DEF SaveFrames, Loop, n, start, Flags
<1> DEFINE h == SaveFrames(x, env, w)
<1>5. Is(h, n)
  <2> HIDE DEF Is
  <2> QED
    BY <1>3, <1>4, Zenon
<1> HIDE DEF h
<1>6. 0 \in 0..n /\ \A i \in 1..n : i \in 0..n /\ i # 0
  BY <1>0
<1>7. h[0] = start /\ \A i \in 1..n : h[i] = SaveFrame(h[i - 1], env[i], w)
  BY <1>5, <1>6
<1> QED
  BY <1>7 DEF h, n, start

(* The turns of LoadEnvironment. *)
LEMMA LoadFramesLoop ==
  ASSUME NEW b, NEW pos, NEW d \in Nat, NEW v
  PROVE  /\ LoadFrames(b, pos, d, v)[0] = Nothing(pos + d)
         /\ \A i \in 1..d :
              LoadFrames(b, pos, d, v)[i] = LoadFrame(b, LoadFrames(b, pos, d, v)[i - 1], v)
<1> DEFINE n == d
           start == Nothing(pos + d)
           Is(g, m) == g = [i \in 0..m |-> IF i = 0 THEN start
                                           ELSE LoadFrame(b, g[i - 1], v)]
           S == {m \in 0..n : \E g : Is(g, m)}
<1>0. n \in Nat
  OBVIOUS
<1> HIDE DEF n, start
<1>1. 0 \in S
  <2> DEFINE g == [i \in 0..0 |-> start]
  <2>1. Is(g, 0)
    OBVIOUS
  <2> HIDE DEF Is, g
  <2> QED
    BY <1>0, <2>1
<1>2. ASSUME NEW m \in 0 .. n - 1, m \in S
      PROVE  m + 1 \in S
  <2>1. PICK g : Is(g, m)
    BY <1>2
  <2> DEFINE y == LoadFrame(b, g[m], v)
             h == [i \in 0 .. m + 1 |-> IF i = m + 1 THEN y ELSE g[i]]
  <2>2. ASSUME NEW i \in 0 .. m + 1
        PROVE  h[i] = IF i = 0 THEN start ELSE LoadFrame(b, h[i - 1], v)
    <3>1. CASE i = m + 1
      <4>1. h[i] = y /\ i # 0 /\ h[i - 1] = g[m]
        BY <1>0, <3>1
      <4> QED
        BY <3>1, <4>1
    <3>2. CASE i # m + 1
      <4>1. i \in 0..m /\ h[i] = g[i] /\ (i # 0 => h[i - 1] = g[i - 1])
        BY <1>0, <3>2
      <4>2. g[i] = IF i = 0 THEN start ELSE LoadFrame(b, g[i - 1], v)
        BY <2>1, <4>1
      <4> QED
        BY <4>1, <4>2
    <3> QED
      BY <3>1, <3>2
  <2>3. h = [i \in 0 .. m + 1 |-> h[i]] /\ m + 1 \in 0..n
    BY <1>0
  <2> HIDE DEF h
  <2>4. Is(h, m + 1)
    BY <2>2, <2>3
  <2> HIDE DEF Is
  <2> QED
    BY <2>3, <2>4
<1>3. \E g : Is(g, n)
  <2> HIDE DEF S
  <2>1. 0..n \subseteq S /\ n \in 0..n
    BY <1>0, <1>1, <1>2, SetInduction
  <2> HIDE DEF Is
  <2> QED
    BY <2>1 DEF S
<1>4. LoadFrames(b, pos, d, v) = CHOOSE g : Is(g, n)
  BY DEF LoadFrames, Loop, n, start
<1> DEFINE h == LoadFrames(b, pos, d, v)
<1>5. Is(h, n)
  <2> HIDE DEF Is
  <2> QED
    BY <1>3, <1>4, Zenon
<1> HIDE DEF h
<1>6. 0 \in 0..n /\ \A i \in 1..n : i \in 0..n /\ i # 0
  BY <1>0
<1>7. h[0] = start /\ \A i \in 1..n : h[i] = LoadFrame(b, h[i - 1], v)
  BY <1>5, <1>6
<1> QED
  BY <1>7 DEF h, n, start

(* What has been saved after each frame is a part of the whole. *)
LEMMA FramesChain ==
  ASSUME NEW x \in Seq(Int), NEW env \in Seq(Frames), NEW w
  PROVE  \A i \in 0..Len(env) :
           /\ SaveFrames(x, env, w)[i] \in Seq(Int)
           /\ Ext(x, SaveFrames(x, env, w)[i])
           /\ Ext(SaveFrames(x, env, w)[i], SaveEnvironment(x, env, w))
<1> DEFINE h == SaveFrames(x, env, w)
           n == Len(env)
<1>1. n \in Nat /\ \A i \in 1..n : env[i] \in Frames
  BY LenProperties, ElementOfSeq
<1>2. h[0] = x \o Flags(env) /\ \A i \in 1..n : h[i] = SaveFrame(h[i - 1], env[i], w)
  BY SaveFramesLoop
<1>3. SaveEnvironment(x, env, w) = h[n]
  BY DEF SaveEnvironment
<1> HIDE DEF h, n
<1>4. h[0] \in Seq(Int) /\ Ext(x, h[0])
  BY <1>2, FlagsSaved
<1>5. ASSUME NEW i \in 1..n, h[i - 1] \in Seq(Int)
      PROVE  Ext(h[i - 1], h[i])
  BY <1>1, <1>2, <1>5, FrameSaved
<1>6. \A i \in 0..n : h[i] \in Seq(Int) /\ Ext(h[0], h[i]) /\ Ext(h[i], h[n])
  BY <1>1, <1>4, <1>5, Chain
<1>7. ASSUME NEW i \in 0..n
      PROVE  Ext(x, h[i])
  BY <1>4, <1>6, ExtTrans
<1> QED
  BY <1>3, <1>6, <1>7 DEF h, n

LEMMA EnvironmentSaved ==
  ASSUME NEW x \in Seq(Int), NEW env \in Seq(Frames), NEW w
  PROVE  Ext(x, SaveEnvironment(x, env, w)) /\ SaveEnvironment(x, env, w) \in Seq(Int)
<1>1. Len(env) \in Nat /\ Len(env) \in 0..Len(env)
  BY LenProperties
<1>2. SaveFrames(x, env, w)[Len(env)] = SaveEnvironment(x, env, w)
  BY DEF SaveEnvironment
<1> QED
  BY <1>1, <1>2, FramesChain

(* LoadEnvironment counts the flags. *)
Depth(b, pos) ==
  CHOOSE d \in 1 .. Len(b) :
    At(b, pos + d - 1) = 0 /\ \A k \in 1 .. d - 1 : At(b, pos + k - 1) # 0

LEMMA DepthIs ==
  ASSUME NEW x \in Seq(Int), NEW env \in Seq(Frames), NEW b, env # <<>>,
         Ext(x \o Flags(env), b)
  PROVE  Depth(b, Len(x) + 1) = Len(env) /\ Len(env) \in Nat
<1> DEFINE n == Len(env)
           o == Len(x)
           y == x \o Flags(env)
<1>1. /\ Flags(env) \in Seq(Int) /\ Len(Flags(env)) = n /\ n \in Nat /\ o \in Nat
      /\ \A i \in 1..n : Flags(env)[i] = IF i < n THEN 1 ELSE 0
  BY FlagsAre, LenProperties
<1>2. n # 0
  BY EmptySeq
<1>3. Holds(b, o, Flags(env)) /\ Ext(y, b)
  <2>1. y = x \o Flags(env) /\ Ext(y, b)
    OBVIOUS
  <2> HIDE DEF y
  <2> QED
    BY <1>1, <2>1, AddedRead
<1>4. Len(y) = o + n
  BY FlagsSaved
<1> HIDE DEF n, o, y
<1>5. \A i \in 1..n : At(b, o + i) = IF i < n THEN 1 ELSE 0
  BY <1>1, <1>3 DEF Holds
<1>6. Len(b) \in Nat /\ n <= Len(b)
  <2>1. Len(b) \in Nat /\ Len(y) <= Len(b)
    BY <1>3, LenProperties DEF Ext
  <2> QED
    BY <1>1, <1>4, <2>1
<1>8. /\ n \in 1..Len(b) /\ At(b, (o + 1) + n - 1) = 0
      /\ \A k \in 1 .. n - 1 : At(b, (o + 1) + k - 1) # 0
  <2>1. n \in 1..Len(b) /\ n \in 1..n
    BY <1>1, <1>2, <1>6
  <2>2. At(b, (o + 1) + n - 1) = 0
    <3>1. At(b, o + n) = IF n < n THEN 1 ELSE 0
      BY <1>5, <2>1
    <3>2. ~(n < n) /\ (o + 1) + n - 1 = o + n
      BY <1>1
    <3> QED
      BY <3>1, <3>2
  <2>3. ASSUME NEW k \in 1 .. n - 1
        PROVE  At(b, (o + 1) + k - 1) # 0
    <3>1. k \in 1..n /\ k < n /\ (o + 1) + k - 1 = o + k
      BY <1>1
    <3>2. At(b, o + k) = 1
      BY <1>5, <3>1
    <3> QED
      BY <3>1, <3>2
  <2> QED
    BY <2>1, <2>2, <2>3
<1>9. ASSUME NEW d \in 1..Len(b), At(b, (o + 1) + d - 1) = 0,
             \A k \in 1 .. d - 1 : At(b, (o + 1) + k - 1) # 0
      PROVE  d = n
  <2>1. ~(n < d)
    <3> SUFFICES ASSUME n < d PROVE FALSE
      OBVIOUS
    <3>1. n \in 1 .. d - 1
      BY <1>1, <1>2, <1>6
    <3> QED
      BY <1>8, <1>9, <3>1
  <2>2. ~(d < n)
    <3> SUFFICES ASSUME d < n PROVE FALSE
      OBVIOUS
    <3>1. d \in 1 .. n - 1
      BY <1>1, <1>6
    <3> QED
      BY <1>8, <1>9, <3>1
  <2> QED
    BY <1>1, <1>6, <2>1, <2>2
<1>10. Depth(b, o + 1) = n
  BY <1>8, <1>9 DEF Depth
<1> QED
  BY <1>1, <1>10 DEF n, o

(* What LoadEnvironment makes of a saved environment. *)
EnvironmentLoads(r, env, v, pos) ==
  /\ IsStatus(r)
  /\ r.ok => /\ ~r.fatal /\ r.pos = pos
             /\ r.value \in Seq(Frames) /\ SameEnvironment(env, r.value)
  /\ r.ok \/ r.fatal \/ \E i \in DOMAIN env : Missing(env[i].closure, v)

(* After i frames. *)
FramesLoad(r, env, v, pos, i) ==
  /\ IsStatus(r)
  /\ r.ok => /\ ~r.fatal /\ r.pos = pos
             /\ r.value \in Seq(Frames) /\ Len(r.value) = i
             /\ \A j \in 1..i : SameFrame(env[j], r.value[j])
  /\ r.ok \/ r.fatal \/ \E j \in DOMAIN env : Missing(env[j].closure, v)

LEMMA FramesLoadStep ==
  ASSUME NEW x \in Seq(Int), NEW env \in Seq(Frames), NEW w, NEW v, NEW b, NEW at,
         NEW i \in 1..Len(env), Pair(w, v), Saveable(env[i].closure, w),
         Ext(SaveFrame(x, env[i], w), b),
         FramesLoad(at, env, v, Len(x) + 1, i - 1)
  PROVE  FramesLoad(LoadFrame(b, at, v), env, v, Len(SaveFrame(x, env[i], w)) + 1, i)
<1> DEFINE r == LoadFrame(b, at, v)
           pos == Len(SaveFrame(x, env[i], w)) + 1
<1>1. env[i] \in Frames /\ i \in DOMAIN env /\ Len(env) \in Nat
  BY LenProperties, ElementOfSeq
<1>2. IsStatus(at)
  BY DEF FramesLoad
<1>3. CASE at.ok
  <2>1. ~at.fatal /\ at.pos = Len(x) + 1 /\ at.value \in Seq(Frames) /\ Len(at.value) = i - 1
        /\ \A j \in 1 .. i - 1 : SameFrame(env[j], at.value[j])
    BY <1>3 DEF FramesLoad
  <2>2. FrameLoads(r, at, env[i], v, pos)
    BY <1>1, <1>2, <1>3, <2>1, FrameLoad
  <2> HIDE DEF r, pos
  <2>3. IsStatus(r) /\ (r.ok \/ r.fatal \/ \E j \in DOMAIN env : Missing(env[j].closure, v))
    BY <1>1, <2>2 DEF FrameLoads, IsStatus
  <2>4. ASSUME r.ok
        PROVE  /\ ~r.fatal /\ r.pos = pos
               /\ r.value \in Seq(Frames) /\ Len(r.value) = i
               /\ \A j \in 1..i : SameFrame(env[j], r.value[j])
    <3>1. PICK fr \in Frames : r.value = Append(at.value, fr) /\ SameFrame(env[i], fr)
      BY <2>2, <2>4 DEF FrameLoads
    <3>2. ~r.fatal /\ r.pos = pos
      BY <2>2, <2>4 DEF FrameLoads
    <3> DEFINE s == at.value
               q == r.value
    <3>3. s \in Seq(Frames) /\ Len(s) = i - 1 /\ q = Append(s, fr)
      BY <2>1, <3>1
    <3> HIDE DEF s, q
    <3>4. /\ q \in Seq(Frames) /\ Len(q) = i /\ q[i] = fr
          /\ \A j \in 1 .. i - 1 : q[j] = s[j]
      <4>1. /\ q \in Seq(Frames) /\ Len(q) = Len(s) + 1 /\ q[Len(s) + 1] = fr
            /\ \A j \in 1 .. Len(s) : q[j] = s[j]
        BY <3>3, AppendProperties
      <4> QED
        BY <1>1, <3>3, <4>1
    <3>5. ASSUME NEW j \in 1..i
          PROVE  SameFrame(env[j], q[j])
      <4>1. CASE j = i
        BY <3>1, <3>4, <4>1
      <4>2. CASE j # i
        <5>1. j \in 1 .. i - 1
          BY <1>1, <4>2
        <5> QED
          BY <2>1, <3>4, <5>1 DEF s
      <4> QED
        BY <4>1, <4>2
    <3> QED
      BY <3>2, <3>4, <3>5 DEF q
  <2>5. FramesLoad(r, env, v, pos, i)
    BY <2>3, <2>4 DEF FramesLoad
  <2> QED
    BY <2>5 DEF r, pos
<1>4. CASE ~at.ok
  <2> DEFINE c == FrameClosure(b, at.pos, v)
             l == LoadList(b, c.pos)
  <2>1. IsFrame(r, b, at, c, l)
    BY <1>2, FrameFields
  <2>2. at.fatal \/ \E j \in DOMAIN env : Missing(env[j].closure, v)
    BY <1>4 DEF FramesLoad
  <2> HIDE DEF r, c, l, pos
  <2>3. r.ok \in BOOLEAN /\ r.fatal \in BOOLEAN /\ ~r.ok /\ (at.fatal => r.fatal)
    BY <1>4, <2>1 DEF IsFrame
  <2>4. FramesLoad(r, env, v, pos, i)
    BY <2>2, <2>3 DEF FramesLoad, IsStatus
  <2> QED
    BY <2>4 DEF r, pos
<1> QED
  BY <1>2, <1>3, <1>4 DEF IsStatus

LEMMA EnvironmentLoad ==
  ASSUME NEW x \in Seq(Int), NEW env \in Seq(Frames), NEW w, NEW v, NEW b,
         env # <<>>, Pair(w, v),
         \A i \in DOMAIN env : Saveable(env[i].closure, w),
         Ext(SaveEnvironment(x, env, w), b)
  PROVE  EnvironmentLoads(LoadEnvironment(b, Len(x) + 1, v), env, v,
                          Len(SaveEnvironment(x, env, w)) + 1)
<1> DEFINE n == Len(env)
           h == SaveFrames(x, env, w)
           pos == Len(x) + 1
           g == LoadFrames(b, pos, n, v)
           S == {i \in 0..n : FramesLoad(g[i], env, v, Len(h[i]) + 1, i)}
<1>1. n \in Nat /\ DOMAIN env = 1..n
  BY LenProperties
<1>2. h[0] = x \o Flags(env) /\ \A i \in 1..n : h[i] = SaveFrame(h[i - 1], env[i], w)
  BY SaveFramesLoop
<1>3. \A i \in 0..n : h[i] \in Seq(Int) /\ Ext(h[i], b)
  <2>1. \A i \in 0..n : h[i] \in Seq(Int) /\ Ext(h[i], SaveEnvironment(x, env, w))
    BY FramesChain
  <2> HIDE DEF h
  <2> QED
    BY <2>1, ExtTrans
<1>4. 0 \in 0..n /\ n \in 0..n
  BY <1>1
<1>5. Depth(b, pos) = n
  BY <1>2, <1>3, <1>4, DepthIs
<1>6. LoadEnvironment(b, pos, v) = g[n]
  BY <1>5 DEF LoadEnvironment, Depth
<1>7. g[0] = Nothing(pos + n) /\ \A i \in 1..n : g[i] = LoadFrame(b, g[i - 1], v)
  <2> HIDE DEF pos, n
  <2>1. n \in Nat
    BY <1>1
  <2>2. g[0] = Nothing(pos + n)
    BY <2>1, LoadFramesLoop
  <2>3. \A i \in 1..n : g[i] = LoadFrame(b, g[i - 1], v)
    BY <2>1, LoadFramesLoop
  <2> QED
    BY <2>2, <2>3
<1>8. Len(h[0]) + 1 = pos + n
  <2>1. Len(h[0]) = Len(x) + n /\ Len(x) \in Nat
    BY <1>2, FlagsSaved, LenProperties
  <2> HIDE DEF h, n
  <2> QED
    BY <1>1, <2>1
<1> HIDE DEF h, g, pos, n
<1>9. 0 \in S
  <2> DEFINE r == g[0]
  <2>1. r = [pos |-> pos + n, ok |-> TRUE, fatal |-> FALSE, value |-> <<>>]
    BY <1>7 DEF Nothing
  <2> HIDE DEF r
  <2>2. r.ok /\ ~r.fatal /\ IsStatus(r) /\ r.pos = pos + n
    BY <2>1 DEF IsStatus
  <2>3. r.value \in Seq(Frames) /\ Len(r.value) = 0
    BY <2>1
  <2>4. FramesLoad(r, env, v, Len(h[0]) + 1, 0)
    BY <1>8, <2>2, <2>3 DEF FramesLoad
  <2> QED
    BY <1>4, <2>4 DEF r
<1>10. ASSUME NEW i \in 0 .. n - 1, i \in S
       PROVE  i + 1 \in S
  <2> DEFINE k == i + 1
  <2>1. k \in 1..n /\ k - 1 = i /\ k \in 0..n /\ k \in 1..Len(env) /\ i \in 0..n
    BY <1>1 DEF n
  <2> HIDE DEF k
  <2>2. /\ h[i] \in Seq(Int) /\ h[k] = SaveFrame(h[i], env[k], w) /\ Ext(h[k], b)
        /\ g[k] = LoadFrame(b, g[i], v) /\ Saveable(env[k].closure, w)
    BY <1>1, <1>2, <1>3, <1>7, <2>1
  <2>3. FramesLoad(g[i], env, v, Len(h[i]) + 1, k - 1)
    BY <1>10, <2>1
  <2>4. FramesLoad(LoadFrame(b, g[i], v), env, v, Len(SaveFrame(h[i], env[k], w)) + 1, k)
    BY <2>1, <2>2, <2>3, FramesLoadStep
  <2>5. FramesLoad(g[k], env, v, Len(h[k]) + 1, k)
    BY <2>2, <2>4
  <2> QED
    BY <2>1, <2>5 DEF k
<1>11. n \in S
  <2> HIDE DEF S
  <2>1. 0..n \subseteq S
    BY <1>1, <1>9, <1>10, SetInduction
  <2> QED
    BY <1>4, <2>1
<1>12. FramesLoad(g[n], env, v, Len(h[n]) + 1, n)
  BY <1>11
<1>13. EnvironmentLoads(g[n], env, v, Len(h[n]) + 1)
  <2> DEFINE r == g[n]
  <2> HIDE DEF r
  <2>1. r.ok => SameEnvironment(env, r.value)
    <3> SUFFICES ASSUME r.ok PROVE SameEnvironment(env, r.value)
      BY <1>12 DEF FramesLoad, IsStatus, r
    <3>1. r.value \in Seq(Frames) /\ Len(r.value) = n /\ \A j \in 1..n : SameFrame(env[j], r.value[j])
      BY <1>12 DEF FramesLoad, r
    <3>2. DOMAIN r.value = 1..n
      BY <3>1, LenProperties
    <3> QED
      BY <1>1, <3>1, <3>2 DEF SameEnvironment, SameFrame
  <2> QED
    BY <1>12, <2>1 DEF FramesLoad, EnvironmentLoads, r
<1> QED
  BY <1>6, <1>13 DEF h, n, pos, SaveEnvironment

-----------------------------------------------------------------------------
(* Instructions. *)

(* The parts of an instruction, as they are saved and as they are loaded. *)
OwnPart(x, instr, w) ==
  IF instr.opcode = InstanceOfKnownGlobal
  THEN SaveEnvironment(x, instr.deferred, w) ELSE x
EnvPart(x, env, w) ==
  IF env # <<>> THEN SaveEnvironment(Append(x, 1), env, w) ELSE Append(x, 0)
PointerPart(x, pointers) ==
  IF pointers # <<>> THEN SaveList(Append(x, 1), pointers) ELSE Append(x, 0)

LoadOwnPart(b, opcode, pos, v) ==
  IF opcode = InstanceOfKnownGlobal THEN LoadEnvironment(b, pos, v) ELSE Nothing(pos)
LoadEnvPart(b, pos, v) ==
  IF At(b, pos) # 0 THEN LoadEnvironment(b, pos + 1, v) ELSE Nothing(pos + 1)
LoadPointerPart(b, pos) ==
  IF At(b, pos) # 0 THEN LoadList(b, pos + 1) ELSE Nothing(pos + 1)

(* Nothing, where there is no environment. *)
LEMMA NothingLoads ==
  ASSUME NEW pos, NEW v
  PROVE  EnvironmentLoads(Nothing(pos), <<>>, v, pos)
<1> DEFINE r == Nothing(pos)
<1>1. r.ok /\ ~r.fatal /\ IsStatus(r) /\ r.pos = pos /\ r.value = <<>>
  BY DEF Nothing, IsStatus
<1> HIDE DEF r
<1>3. r.value \in Seq(Frames)
  BY <1>1
<1>2. SameEnvironment(<<>>, r.value)
  BY <1>1 DEF SameEnvironment
<1> QED
  BY <1>1, <1>2, <1>3 DEF EnvironmentLoads, r

LEMMA OwnPartLoad ==
  ASSUME NEW x \in Seq(Int), NEW instr \in Instructions, NEW w, NEW v, NEW b, Pair(w, v),
         instr.opcode = InstanceOfKnownGlobal <=> instr.deferred # <<>>,
         \A i \in DOMAIN instr.deferred : Saveable(instr.deferred[i].closure, w),
         Ext(OwnPart(x, instr, w), b)
  PROVE  EnvironmentLoads(LoadOwnPart(b, instr.opcode, Len(x) + 1, v), instr.deferred, v,
                          Len(OwnPart(x, instr, w)) + 1)
<1>1. instr.deferred \in Seq(Frames)
  BY DEF Instructions
<1>2. CASE instr.opcode = InstanceOfKnownGlobal
  <2>1. /\ OwnPart(x, instr, w) = SaveEnvironment(x, instr.deferred, w)
        /\ LoadOwnPart(b, instr.opcode, Len(x) + 1, v) = LoadEnvironment(b, Len(x) + 1, v)
    BY <1>2 DEF OwnPart, LoadOwnPart
  <2>2. instr.deferred # <<>>
    BY <1>2
  <2>3. Ext(SaveEnvironment(x, instr.deferred, w), b)
    BY <2>1
  <2>4. EnvironmentLoads(LoadEnvironment(b, Len(x) + 1, v), instr.deferred, v,
                         Len(SaveEnvironment(x, instr.deferred, w)) + 1)
    BY <1>1, <2>2, <2>3, EnvironmentLoad
  <2> QED
    BY <2>1, <2>4
<1>3. CASE instr.opcode # InstanceOfKnownGlobal
  <2>1. /\ OwnPart(x, instr, w) = x
        /\ LoadOwnPart(b, instr.opcode, Len(x) + 1, v) = Nothing(Len(x) + 1)
        /\ instr.deferred = <<>>
    BY <1>3 DEF OwnPart, LoadOwnPart
  <2> QED
    BY <2>1, NothingLoads
<1> QED
  BY <1>2, <1>3

LEMMA EnvPartLoad ==
  ASSUME NEW x \in Seq(Int), NEW env \in Seq(Frames), NEW w, NEW v, NEW b, Pair(w, v),
         \A i \in DOMAIN env : Saveable(env[i].closure, w),
         Ext(EnvPart(x, env, w), b)
  PROVE  EnvironmentLoads(LoadEnvPart(b, Len(x) + 1, v), env, v,
                          Len(EnvPart(x, env, w)) + 1)
<1>1. /\ Append(x, 0) \in Seq(Int) /\ Len(Append(x, 0)) = Len(x) + 1
      /\ Append(x, 1) \in Seq(Int) /\ Len(Append(x, 1)) = Len(x) + 1
      /\ Len(x) \in Nat
  BY AddedOne
<1>2. CASE env # <<>>
  <2> DEFINE a == Append(x, 1)
             y == SaveEnvironment(a, env, w)
  <2>1. EnvPart(x, env, w) = y
    BY <1>2 DEF EnvPart
  <2>2. a \in Seq(Int) /\ Len(a) = Len(x) + 1
    BY <1>1
  <2>3. Ext(a, b)
    <3> HIDE DEF a
    <3>1. Ext(a, y)
      BY <2>2, EnvironmentSaved
    <3> HIDE DEF y
    <3> QED
      BY <2>1, <3>1, ExtTrans
  <2>4. At(b, Len(x) + 1) = 1
    BY <2>3, AddedOneRead
  <2>5. EnvironmentLoads(LoadEnvironment(b, Len(a) + 1, v), env, v, Len(y) + 1)
    <3> HIDE DEF a
    <3> QED
      BY <1>2, <2>1, <2>2, EnvironmentLoad
  <2>6. LoadEnvPart(b, Len(x) + 1, v) = LoadEnvironment(b, Len(a) + 1, v)
    <3> HIDE DEF a
    <3> QED
      BY <2>2, <2>4 DEF LoadEnvPart
  <2> HIDE DEF a, y
  <2> QED
    BY <2>1, <2>5, <2>6
<1>3. CASE env = <<>>
  <2>1. EnvPart(x, env, w) = Append(x, 0)
    BY <1>3 DEF EnvPart
  <2>2. At(b, Len(x) + 1) = 0
    BY <2>1, AddedOneRead
  <2>3. LoadEnvPart(b, Len(x) + 1, v) = Nothing(Len(Append(x, 0)) + 1)
    BY <1>1, <2>2 DEF LoadEnvPart
  <2> QED
    BY <1>3, <2>1, <2>3, NothingLoads
<1> QED
  BY <1>2, <1>3

LEMMA PointerPartLoad ==
  ASSUME NEW x \in Seq(Int), NEW pointers \in Seq(Int), NEW b,
         Ext(PointerPart(x, pointers), b)
  PROVE  /\ LoadPointerPart(b, Len(x) + 1).pos = Len(PointerPart(x, pointers)) + 1
         /\ LoadPointerPart(b, Len(x) + 1).value = pointers
<1>1. /\ Append(x, 0) \in Seq(Int) /\ Len(Append(x, 0)) = Len(x) + 1
      /\ Append(x, 1) \in Seq(Int) /\ Len(Append(x, 1)) = Len(x) + 1
      /\ Len(x) \in Nat
  BY AddedOne
<1>2. CASE pointers # <<>>
  <2> DEFINE a == Append(x, 1)
             y == SaveList(a, pointers)
  <2>1. PointerPart(x, pointers) = y
    BY <1>2 DEF PointerPart
  <2>2. a \in Seq(Int) /\ Len(a) = Len(x) + 1
    BY <1>1
  <2>3. Ext(a, b)
    <3> HIDE DEF a
    <3>1. Ext(a, y)
      BY <2>2, ListSaved
    <3> HIDE DEF y
    <3> QED
      BY <2>1, <3>1, ExtTrans
  <2>4. At(b, Len(x) + 1) = 1
    BY <2>3, AddedOneRead
  <2>5. LoadList(b, Len(a) + 1).pos = Len(y) + 1 /\ LoadList(b, Len(a) + 1).value = pointers
    <3> HIDE DEF a
    <3> QED
      BY <2>1, <2>2, ListLoad
  <2>6. LoadPointerPart(b, Len(x) + 1) = LoadList(b, Len(a) + 1)
    <3> HIDE DEF a
    <3> QED
      BY <2>2, <2>4 DEF LoadPointerPart
  <2> HIDE DEF a, y
  <2> QED
    BY <2>1, <2>5, <2>6
<1>3. CASE pointers = <<>>
  <2>1. PointerPart(x, pointers) = Append(x, 0)
    BY <1>3 DEF PointerPart
  <2>2. At(b, Len(x) + 1) = 0
    BY <2>1, AddedOneRead
  <2>3. LoadPointerPart(b, Len(x) + 1) = Nothing(Len(Append(x, 0)) + 1)
    BY <1>1, <2>2 DEF LoadPointerPart
  <2> QED
    BY <1>3, <2>1, <2>3 DEF Nothing
<1> QED
  BY <1>2, <1>3


LEMMA OwnPartSaved ==
  ASSUME NEW x \in Seq(Int), NEW instr \in Instructions, NEW w
  PROVE  Ext(x, OwnPart(x, instr, w)) /\ OwnPart(x, instr, w) \in Seq(Int)
<1>1. instr.deferred \in Seq(Frames)
  BY DEF Instructions
<1>2. Ext(x, x)
  BY ExtSelf
<1> QED
  BY <1>1, <1>2, EnvironmentSaved DEF OwnPart

LEMMA EnvPartSaved ==
  ASSUME NEW x \in Seq(Int), NEW env \in Seq(Frames), NEW w
  PROVE  Ext(x, EnvPart(x, env, w)) /\ EnvPart(x, env, w) \in Seq(Int)
<1>1. /\ Append(x, 0) \in Seq(Int) /\ Ext(x, Append(x, 0))
      /\ Append(x, 1) \in Seq(Int) /\ Ext(x, Append(x, 1))
  BY AddedOne
<1>2. CASE env # <<>>
  <2> DEFINE a == Append(x, 1)
             y == SaveEnvironment(a, env, w)
  <2>1. EnvPart(x, env, w) = y
    BY <1>2 DEF EnvPart
  <2>2. a \in Seq(Int) /\ Ext(x, a)
    BY <1>1
  <2> HIDE DEF a
  <2>3. Ext(a, y) /\ y \in Seq(Int)
    BY <2>2, EnvironmentSaved
  <2> HIDE DEF y
  <2> QED
    BY <2>1, <2>2, <2>3, ExtTrans
<1>3. CASE env = <<>>
  BY <1>1, <1>3 DEF EnvPart
<1> QED
  BY <1>2, <1>3

LEMMA PointerPartSaved ==
  ASSUME NEW x \in Seq(Int), NEW pointers \in Seq(Int)
  PROVE  Ext(x, PointerPart(x, pointers)) /\ PointerPart(x, pointers) \in Seq(Int)
<1>1. /\ Append(x, 0) \in Seq(Int) /\ Ext(x, Append(x, 0))
      /\ Append(x, 1) \in Seq(Int) /\ Ext(x, Append(x, 1))
  BY AddedOne
<1>2. CASE pointers # <<>>
  <2> DEFINE a == Append(x, 1)
             y == SaveList(a, pointers)
  <2>1. PointerPart(x, pointers) = y
    BY <1>2 DEF PointerPart
  <2>2. a \in Seq(Int) /\ Ext(x, a)
    BY <1>1
  <2> HIDE DEF a
  <2>3. Ext(a, y) /\ y \in Seq(Int)
    BY <2>2, ListSaved
  <2> HIDE DEF y
  <2> QED
    BY <2>1, <2>2, <2>3, ExtTrans
<1>3. CASE pointers = <<>>
  BY <1>1, <1>3 DEF PointerPart
<1> QED
  BY <1>2, <1>3

(* What has been saved after the inputs, the instruction's own part, the     *)
(* environment and the pointer map.                                          *)
AfterInputs(x, instr) == SaveList(Append(x, instr.opcode), instr.inputs)
AfterOwn(x, instr, w) == OwnPart(AfterInputs(x, instr), instr, w)
AfterEnv(x, instr, w) == EnvPart(AfterOwn(x, instr, w), instr.env, w)
AfterPointers(x, instr, w) == PointerPart(AfterEnv(x, instr, w), instr.pointer_map)

LEMMA InstructionSaved ==
  ASSUME NEW x \in Seq(Int), NEW instr \in Instructions, NEW w
  PROVE  /\ Append(x, instr.opcode) \in Seq(Int)
         /\ Ext(Append(x, instr.opcode), AfterInputs(x, instr))
         /\ Ext(AfterInputs(x, instr), AfterOwn(x, instr, w))
         /\ Ext(AfterOwn(x, instr, w), AfterEnv(x, instr, w))
         /\ Ext(AfterEnv(x, instr, w), AfterPointers(x, instr, w))
         /\ Ext(AfterPointers(x, instr, w), SaveInstruction(x, instr, w))
         /\ Ext(x, SaveInstruction(x, instr, w))
         /\ SaveInstruction(x, instr, w) =
              Append(AfterPointers(x, instr, w), Len(AfterPointers(x, instr, w)))
<1> DEFINE a == Append(x, instr.opcode)
           i == AfterInputs(x, instr)
           o == AfterOwn(x, instr, w)
           e == AfterEnv(x, instr, w)
           p == AfterPointers(x, instr, w)
           y == SaveInstruction(x, instr, w)
<1>1. /\ instr.opcode \in Int /\ instr.inputs \in Seq(Int) /\ instr.env \in Seq(Frames)
      /\ instr.pointer_map \in Seq(Int)
  BY DEF Instructions
<1>2. Ext(x, a) /\ a \in Seq(Int)
  BY <1>1, AddedOne
<1>3. i = SaveList(a, instr.inputs) /\ o = OwnPart(i, instr, w) /\ e = EnvPart(o, instr.env, w)
      /\ p = PointerPart(e, instr.pointer_map)
  BY DEF AfterInputs, AfterOwn, AfterEnv, AfterPointers
<1>4. y = Append(p, Len(p))
  BY DEF SaveInstruction, Synchronize, AfterInputs, AfterOwn, AfterEnv, AfterPointers,
         OwnPart, EnvPart, PointerPart
<1> HIDE DEF a, i, o, e, p, y
<1>5. Ext(a, i) /\ i \in Seq(Int)
  BY <1>1, <1>2, <1>3, ListSaved
<1>6. Ext(i, o) /\ o \in Seq(Int)
  BY <1>3, <1>5, OwnPartSaved
<1>7. Ext(o, e) /\ e \in Seq(Int)
  BY <1>1, <1>3, <1>6, EnvPartSaved
<1>8. Ext(e, p) /\ p \in Seq(Int)
  BY <1>1, <1>3, <1>7, PointerPartSaved
<1>9. Ext(p, y)
  <2>1. Len(p) \in Int
    BY <1>8, LenProperties
  <2> QED
    BY <1>4, <1>8, <2>1, AddedOne
<1>10. Ext(x, y)
  <2>1. Ext(x, i)
    BY <1>2, <1>5, ExtTrans
  <2>2. Ext(x, o)
    BY <2>1, <1>6, ExtTrans
  <2>3. Ext(x, e)
    BY <2>2, <1>7, ExtTrans
  <2>4. Ext(x, p)
    BY <2>3, <1>8, ExtTrans
  <2> QED
    BY <2>4, <1>9, ExtTrans
<1> QED
  BY <1>2, <1>4, <1>5, <1>6, <1>7, <1>8, <1>9, <1>10 DEF a, i, o, e, p, y

(* LoadInstruction, field by field. *)
IsInstruction(r, b, pos, inputs, own, env, pointers) ==
  /\ r.ok \in BOOLEAN /\ r.fatal \in BOOLEAN /\ r.checked \in BOOLEAN
  /\ r.pos = pointers.pos + 1
  /\ r.ok <=> (own.ok /\ env.ok)
  /\ r.fatal <=> (own.fatal \/ (own.ok /\ env.fatal))
  /\ r.checked <=> (own.ok => IsSynchronized(b, pointers.pos))
  /\ r.value = [opcode |-> At(b, pos), inputs |-> inputs.value,
                deferred |-> own.value, env |-> env.value,
                pointer_map |-> pointers.value]

LEMMA InstructionFields ==
  ASSUME NEW b, NEW pos, NEW v, NEW inputs, NEW own, NEW env, NEW pointers,
         inputs = LoadList(b, pos + 1),
         own = LoadOwnPart(b, At(b, pos), inputs.pos, v),
         env = LoadEnvPart(b, own.pos, v),
         pointers = LoadPointerPart(b, env.pos)
  PROVE  IsInstruction(LoadInstruction(b, pos, v), b, pos, inputs, own, env, pointers)
<1> DEFINE r == LoadInstruction(b, pos, v)
           val == [opcode |-> At(b, pos), inputs |-> inputs.value,
                   deferred |-> own.value, env |-> env.value,
                   pointer_map |-> pointers.value]
           S == IsSynchronized(b, pointers.pos)
<1>1. r = [pos |-> pointers.pos + 1, ok |-> own.ok /\ env.ok,
           fatal |-> own.fatal \/ (own.ok /\ env.fatal),
           checked |-> own.ok => S, value |-> val]
  BY DEF LoadInstruction, LoadOwnPart, LoadEnvPart, LoadPointerPart
<1> HIDE DEF r, val, S
<1>2. r.pos = pointers.pos + 1 /\ r.value = val
  BY <1>1
<1>3. /\ r.ok = (own.ok /\ env.ok) /\ r.fatal = (own.fatal \/ (own.ok /\ env.fatal))
      /\ r.checked = (own.ok => S)
  BY <1>1, Zenon
<1> QED
  BY <1>2, <1>3, Zenon DEF IsInstruction, r, val, S

(* What an instruction refers to. *)
Refers(instr, fn) ==
  \/ \E i \in DOMAIN instr.env : fn = instr.env[i].closure
  \/ \E i \in DOMAIN instr.deferred : fn = instr.deferred[i].closure

(* What LoadInstruction makes of a saved instruction. *)
InstructionLoads(r, instr, v, pos) ==
  /\ r.ok \in BOOLEAN /\ r.fatal \in BOOLEAN /\ r.checked \in BOOLEAN
  /\ r.ok => /\ ~r.fatal /\ r.checked /\ r.pos = pos
             /\ r.value \in Instructions /\ SameInstruction(instr, r.value)
  /\ r.ok \/ r.fatal \/ \E fn \in Literal : Refers(instr, fn) /\ Missing(fn, v)

LEMMA MissingRefers ==
  ASSUME NEW env \in Seq(Frames), NEW v, \E i \in DOMAIN env : Missing(env[i].closure, v)
  PROVE  \E fn \in Literal : Missing(fn, v) /\ \E i \in DOMAIN env : fn = env[i].closure
<1>1. PICK i \in DOMAIN env : Missing(env[i].closure, v)
  OBVIOUS
<1>2. env[i] \in Frames
  BY ElementOfSeq, LenProperties
<1>3. env[i].closure \in Literal
  BY <1>2 DEF Frames
<1> QED
  BY <1>1, <1>3

LEMMA InstructionLoad ==
  ASSUME NEW x \in Seq(Int), NEW instr \in Instructions, NEW w, NEW v, NEW b, Pair(w, v),
         instr.opcode = InstanceOfKnownGlobal <=> instr.deferred # <<>>,
         \A fn \in Literal : Refers(instr, fn) => Saveable(fn, w),
         Ext(SaveInstruction(x, instr, w), b)
  PROVE  InstructionLoads(LoadInstruction(b, Len(x) + 1, v), instr, v,
                          Len(SaveInstruction(x, instr, w)) + 1)
<1> DEFINE a == Append(x, instr.opcode)
           i == AfterInputs(x, instr)
           o == AfterOwn(x, instr, w)
           e == AfterEnv(x, instr, w)
           p == AfterPointers(x, instr, w)
           y == SaveInstruction(x, instr, w)
           pos == Len(x) + 1
           inputs == LoadList(b, pos + 1)
           own == LoadOwnPart(b, At(b, pos), inputs.pos, v)
           env == LoadEnvPart(b, own.pos, v)
           pointers == LoadPointerPart(b, env.pos)
           r == LoadInstruction(b, pos, v)
<1>1. /\ instr.opcode \in Int /\ instr.inputs \in Seq(Int)
      /\ instr.env \in Seq(Frames) /\ instr.deferred \in Seq(Frames)
      /\ instr.pointer_map \in Seq(Int)
  BY DEF Instructions
<1>2. /\ i = SaveList(a, instr.inputs) /\ o = OwnPart(i, instr, w) /\ e = EnvPart(o, instr.env, w)
      /\ p = PointerPart(e, instr.pointer_map)
  BY DEF AfterInputs, AfterOwn, AfterEnv, AfterPointers
<1>3. /\ a \in Seq(Int) /\ Ext(a, i) /\ Ext(i, o) /\ Ext(o, e) /\ Ext(e, p) /\ Ext(p, y)
      /\ y = Append(p, Len(p))
  BY InstructionSaved
<1>4. a \in Seq(Int) /\ Len(a) = pos /\ pos \in Nat
  BY <1>1, AddedOne
<1>5. IsInstruction(r, b, pos, inputs, own, env, pointers)
  BY InstructionFields
<1>6. Ext(y, b) /\ a = Append(x, instr.opcode) /\ y = SaveInstruction(x, instr, w)
  OBVIOUS
<1> HIDE DEF a, i, o, e, p, y
<1>7. i \in Seq(Int) /\ o \in Seq(Int) /\ e \in Seq(Int) /\ p \in Seq(Int) /\ y \in Seq(Int)
  BY <1>3 DEF Ext
<1>8. Ext(p, b) /\ Ext(e, b) /\ Ext(o, b) /\ Ext(i, b) /\ Ext(a, b)
  <2>1. Ext(p, b)
    BY <1>3, <1>6, ExtTrans
  <2>2. Ext(e, b)
    BY <1>3, <2>1, ExtTrans
  <2>3. Ext(o, b)
    BY <1>3, <2>2, ExtTrans
  <2>4. Ext(i, b)
    BY <1>3, <2>3, ExtTrans
  <2>5. Ext(a, b)
    BY <1>3, <2>4, ExtTrans
  <2> QED
    BY <2>1, <2>2, <2>3, <2>4, <2>5
<1>9. At(b, pos) = instr.opcode
  BY <1>1, <1>6, <1>8, AddedOneRead
<1>10. inputs.pos = Len(i) + 1 /\ inputs.value = instr.inputs
  <2>1. LoadList(b, Len(a) + 1).pos = Len(i) + 1 /\ LoadList(b, Len(a) + 1).value = instr.inputs
    BY <1>1, <1>2, <1>4, <1>8, ListLoad
  <2> HIDE DEF pos
  <2> QED
    BY <1>4, <2>1
<1>11. EnvironmentLoads(own, instr.deferred, v, Len(o) + 1)
  <2>1. \A k \in DOMAIN instr.deferred : Saveable(instr.deferred[k].closure, w)
    <3> SUFFICES ASSUME NEW k \in DOMAIN instr.deferred
                 PROVE  Saveable(instr.deferred[k].closure, w)
      OBVIOUS
    <3>1. instr.deferred[k] \in Frames
      BY <1>1, ElementOfSeq, LenProperties
    <3>2. instr.deferred[k].closure \in Literal
      BY <3>1 DEF Frames
    <3> QED
      BY <3>2 DEF Refers
  <2>2. own = LoadOwnPart(b, instr.opcode, Len(i) + 1, v)
    BY <1>9, <1>10
  <2>3. Ext(OwnPart(i, instr, w), b)
    BY <1>2, <1>8
  <2> HIDE DEF own
  <2>4. EnvironmentLoads(LoadOwnPart(b, instr.opcode, Len(i) + 1, v), instr.deferred, v,
                         Len(OwnPart(i, instr, w)) + 1)
    BY <1>7, <2>1, <2>3, OwnPartLoad
  <2> QED
    BY <1>2, <2>2, <2>4
<1>12. own.ok => EnvironmentLoads(env, instr.env, v, Len(e) + 1)
  <2>1. \A k \in DOMAIN instr.env : Saveable(instr.env[k].closure, w)
    <3> SUFFICES ASSUME NEW k \in DOMAIN instr.env
                 PROVE  Saveable(instr.env[k].closure, w)
      OBVIOUS
    <3>1. instr.env[k] \in Frames
      BY <1>1, ElementOfSeq, LenProperties
    <3>2. instr.env[k].closure \in Literal
      BY <3>1 DEF Frames
    <3> QED
      BY <3>2 DEF Refers
  <2>2. own.ok => own.pos = Len(o) + 1
    <3> HIDE DEF own
    <3> QED
      BY <1>11 DEF EnvironmentLoads
  <2>3. Ext(EnvPart(o, instr.env, w), b)
    BY <1>2, <1>8
  <2>4. EnvironmentLoads(LoadEnvPart(b, Len(o) + 1, v), instr.env, v,
                         Len(EnvPart(o, instr.env, w)) + 1)
    BY <1>1, <1>7, <2>1, <2>3, EnvPartLoad
  <2> HIDE DEF own
  <2> QED
    BY <1>2, <2>2, <2>4
<1> HIDE DEF own, inputs, r
<1>13. own.ok /\ env.ok => pointers.pos = Len(p) + 1 /\ pointers.value = instr.pointer_map
  <2>1. own.ok /\ env.ok => env.pos = Len(e) + 1
    <3> HIDE DEF env
    <3> QED
      BY <1>12 DEF EnvironmentLoads
  <2>2. Ext(PointerPart(e, instr.pointer_map), b)
    BY <1>2, <1>8
  <2>3. /\ LoadPointerPart(b, Len(e) + 1).pos = Len(PointerPart(e, instr.pointer_map)) + 1
        /\ LoadPointerPart(b, Len(e) + 1).value = instr.pointer_map
    BY <1>1, <1>7, <2>2, PointerPartLoad
  <2> HIDE DEF env
  <2> QED
    BY <1>2, <2>1, <2>3
<1>14. /\ Len(p) \in Nat /\ Len(y) = Len(p) + 1 /\ At(b, Len(p) + 1) = Len(p)
  <2>1. Len(p) \in Nat
    BY <1>7, LenProperties
  <2>2. Len(p) \in Int /\ Ext(Append(p, Len(p)), b)
    BY <1>3, <1>6, <2>1
  <2>3. Len(y) = Len(p) + 1
    BY <1>3, <1>7, <2>2, AddedOne
  <2>4. At(b, Len(p) + 1) = Len(p)
    BY <1>7, <2>2, AddedOneRead
  <2> QED
    BY <2>1, <2>3, <2>4
<1> HIDE DEF env, pointers, pos
<1>15. own.ok /\ env.ok => pointers.pos + 1 = Len(y) + 1 /\ IsSynchronized(b, pointers.pos)
  BY <1>13, <1>14 DEF IsSynchronized
<1>16. r.ok \in BOOLEAN /\ r.fatal \in BOOLEAN /\ r.checked \in BOOLEAN
  BY <1>5 DEF IsInstruction
<1>17. ASSUME r.ok
       PROVE  /\ ~r.fatal /\ r.checked /\ r.pos = Len(y) + 1
              /\ r.value \in Instructions /\ SameInstruction(instr, r.value)
  <2>1. own.ok /\ env.ok
    BY <1>5, <1>17 DEF IsInstruction
  <2>2. ~own.fatal /\ ~env.fatal /\ SameEnvironment(instr.deferred, own.value)
        /\ SameEnvironment(instr.env, env.value)
        /\ own.value \in Seq(Frames) /\ env.value \in Seq(Frames)
    BY <1>11, <1>12, <2>1 DEF EnvironmentLoads
  <2>3. ~r.fatal
    BY <1>5, <2>2 DEF IsInstruction
  <2>4. r.checked /\ r.pos = Len(y) + 1
    BY <1>5, <1>15, <2>1 DEF IsInstruction
  <2>5. /\ r.value.opcode = instr.opcode /\ r.value.inputs = instr.inputs
        /\ r.value.pointer_map = instr.pointer_map
        /\ r.value.deferred = own.value /\ r.value.env = env.value
    BY <1>5, <1>9, <1>10, <1>13, <2>1 DEF IsInstruction
  <2>6. r.value \in Instructions
    <3> DEFINE val == [opcode |-> At(b, pos), inputs |-> inputs.value,
                       deferred |-> own.value, env |-> env.value,
                       pointer_map |-> pointers.value]
    <3>1. r.value = val
      BY <1>5 DEF IsInstruction
    <3>2. val \in Instructions
      BY <1>1, <1>9, <1>10, <1>13, <2>1, <2>2 DEF Instructions
    <3> QED
      BY <3>1, <3>2
  <2> QED
    BY <2>2, <2>3, <2>4, <2>5, <2>6 DEF SameInstruction
<1>18. ASSUME ~r.ok, ~r.fatal
       PROVE  \E fn \in Literal : Refers(instr, fn) /\ Missing(fn, v)
  <2>1. CASE own.ok
    <3>1. ~env.ok /\ ~env.fatal
      BY <1>5, <1>18, <2>1 DEF IsInstruction
    <3>2. \E k \in DOMAIN instr.env : Missing(instr.env[k].closure, v)
      BY <1>12, <2>1, <3>1 DEF EnvironmentLoads
    <3> QED
      BY <1>1, <3>2, MissingRefers DEF Refers
  <2>2. CASE ~own.ok
    <3>1. ~own.fatal
      BY <1>5, <1>18 DEF IsInstruction
    <3>2. \E k \in DOMAIN instr.deferred : Missing(instr.deferred[k].closure, v)
      BY <1>11, <2>2, <3>1 DEF EnvironmentLoads
    <3> QED
      BY <1>1, <3>2, MissingRefers DEF Refers
  <2>3. own.ok \in BOOLEAN
    BY <1>11 DEF EnvironmentLoads, IsStatus
  <2> QED
    BY <2>1, <2>2, <2>3
<1>19. InstructionLoads(r, instr, v, Len(y) + 1)
  BY <1>16, <1>17, <1>18 DEF InstructionLoads
<1> QED
  BY <1>6, <1>19 DEF r, pos

-----------------------------------------------------------------------------
(* The other loops of the saver and the loader. *)

Blocks == [ast_id: Int, entry: Int]

(* The bits of the bit vector looked at so far. *)
LiveTurns(ck) ==
  Loop(MaximumValueID, <<>>,
       LAMBDA ids, n : IF n - 1 \in LiveConstants(ck) THEN Append(ids, n - 1)
                       ELSE ids)

(* The turns of SaveBasicBlocks. *)
LEMMA SaveBlocksLoop ==
  ASSUME NEW x, NEW blocks \in Seq(Blocks)
  PROVE  /\ SaveBlocks(x, blocks)[0] = Append(x, Len(blocks))
         /\ \A i \in 1..Len(blocks) :
              SaveBlocks(x, blocks)[i] = SaveBlock(SaveBlocks(x, blocks)[i - 1], blocks[i], i)
<1> DEFINE n == Len(blocks)
           start == Append(x, Len(blocks))
           Is(g, m) == g = [i \in 0..m |-> IF i = 0 THEN start
                                           ELSE SaveBlock(g[i - 1], blocks[i], i)]
           S == {m \in 0..n : \E g : Is(g, m)}
<1>0. n \in Nat
  BY LenProperties
<1> HIDE DEF n, start
<1>1. 0 \in S
  <2> DEFINE g == [i \in 0..0 |-> start]
  <2>1. Is(g, 0)
    OBVIOUS
  <2> HIDE DEF Is, g
  <2> QED
    BY <1>0, <2>1
<1>2. ASSUME NEW m \in 0 .. n - 1, m \in S
      PROVE  m + 1 \in S
  <2>1. PICK g : Is(g, m)
    BY <1>2
  <2> DEFINE y == SaveBlock(g[m], blocks[(m + 1)], (m + 1))
             h == [i \in 0 .. m + 1 |-> IF i = m + 1 THEN y ELSE g[i]]
  <2>2. ASSUME NEW i \in 0 .. m + 1
        PROVE  h[i] = IF i = 0 THEN start ELSE SaveBlock(h[i - 1], blocks[i], i)
    <3>1. CASE i = m + 1
      <4>1. h[i] = y /\ i # 0 /\ h[i - 1] = g[m]
        BY <1>0, <3>1
      <4> QED
        BY <3>1, <4>1
    <3>2. CASE i # m + 1
      <4>1. i \in 0..m /\ h[i] = g[i] /\ (i # 0 => h[i - 1] = g[i - 1])
        BY <1>0, <3>2
      <4>2. g[i] = IF i = 0 THEN start ELSE SaveBlock(g[i - 1], blocks[i], i)
        BY <2>1, <4>1
      <4> QED
        BY <4>1, <4>2
    <3> QED
      BY <3>1, <3>2
  <2>3. h = [i \in 0 .. m + 1 |-> h[i]] /\ m + 1 \in 0..n
    BY <1>0
  <2> HIDE DEF h
  <2>4. Is(h, m + 1)
    BY <2>2, <2>3
  <2> HIDE DEF Is
  <2> QED
    BY <2>3, <2>4
<1>3. \E g : Is(g, n)
  <2> HIDE DEF S
  <2>1. 0..n \subseteq S /\ n \in 0..n
    BY <1>0, <1>1, <1>2, SetInduction
  <2> HIDE DEF Is
  <2> QED
    BY <2>1 DEF S
<1>4. SaveBlocks(x, blocks) = CHOOSE g : Is(g, n)
  BY DEF SaveBlocks, Loop, n, start
<1> DEFINE h == SaveBlocks(x, blocks)
<1>5. Is(h, n)
  <2> HIDE DEF Is
  <2> QED
    BY <1>3, <1>4, Zenon
<1> HIDE DEF h
<1>6. 0 \in 0..n /\ \A i \in 1..n : i \in 0..n /\ i # 0
  BY <1>0
<1>7. h[0] = start /\ \A i \in 1..n : h[i] = SaveBlock(h[i - 1], blocks[i], i)
  BY <1>5, <1>6
<1> QED
  BY <1>7 DEF h, n, start

(* The turns of LoadBasicBlocks. *)
LEMMA LoadBlocksLoop ==
  ASSUME NEW b, NEW pos, NEW n \in Nat
  PROVE  /\ LoadBlocks(b, pos, n)[0] = [pos |-> pos + 1, value |-> <<>>]
         /\ \A i \in 1..n :
              LoadBlocks(b, pos, n)[i] = LoadBlock(b, LoadBlocks(b, pos, n)[i - 1], i)
<1> DEFINE start == [pos |-> pos + 1, value |-> <<>>]
           Is(g, m) == g = [i \in 0..m |-> IF i = 0 THEN start
                                           ELSE LoadBlock(b, g[i - 1], i)]
           S == {m \in 0..n : \E g : Is(g, m)}
<1>0. n \in Nat
  OBVIOUS
<1> HIDE DEF start
<1>1. 0 \in S
  <2> DEFINE g == [i \in 0..0 |-> start]
  <2>1. Is(g, 0)
    OBVIOUS
  <2> HIDE DEF Is, g
  <2> QED
    BY <1>0, <2>1
<1>2. ASSUME NEW m \in 0 .. n - 1, m \in S
      PROVE  m + 1 \in S
  <2>1. PICK g : Is(g, m)
    BY <1>2
  <2> DEFINE y == LoadBlock(b, g[m], (m + 1))
             h == [i \in 0 .. m + 1 |-> IF i = m + 1 THEN y ELSE g[i]]
  <2>2. ASSUME NEW i \in 0 .. m + 1
        PROVE  h[i] = IF i = 0 THEN start ELSE LoadBlock(b, h[i - 1], i)
    <3>1. CASE i = m + 1
      <4>1. h[i] = y /\ i # 0 /\ h[i - 1] = g[m]
        BY <1>0, <3>1
      <4> QED
        BY <3>1, <4>1
    <3>2. CASE i # m + 1
      <4>1. i \in 0..m /\ h[i] = g[i] /\ (i # 0 => h[i - 1] = g[i - 1])
        BY <1>0, <3>2
      <4>2. g[i] = IF i = 0 THEN start ELSE LoadBlock(b, g[i - 1], i)
        BY <2>1, <4>1
      <4> QED
        BY <4>1, <4>2
    <3> QED
      BY <3>1, <3>2
  <2>3. h = [i \in 0 .. m + 1 |-> h[i]] /\ m + 1 \in 0..n
    BY <1>0
  <2> HIDE DEF h
  <2>4. Is(h, m + 1)
    BY <2>2, <2>3
  <2> HIDE DEF Is
  <2> QED
    BY <2>3, <2>4
<1>3. \E g : Is(g, n)
  <2> HIDE DEF S
  <2>1. 0..n \subseteq S /\ n \in 0..n
    BY <1>0, <1>1, <1>2, SetInduction
  <2> HIDE DEF Is
  <2> QED
    BY <2>1 DEF S
<1>4. LoadBlocks(b, pos, n) = CHOOSE g : Is(g, n)
  BY DEF LoadBlocks, Loop, start
<1> DEFINE h == LoadBlocks(b, pos, n)
<1>5. Is(h, n)
  <2> HIDE DEF Is
  <2> QED
    BY <1>3, <1>4, Zenon
<1> HIDE DEF h
<1>6. 0 \in 0..n /\ \A i \in 1..n : i \in 0..n /\ i # 0
  BY <1>0
<1>7. h[0] = start /\ \A i \in 1..n : h[i] = LoadBlock(b, h[i - 1], i)
  BY <1>5, <1>6
<1> QED
  BY <1>7 DEF h, start

(* The turns of BitVector::Iterator. *)
LEMMA LiveTurnsLoop ==
  ASSUME NEW ck
  PROVE  /\ LiveTurns(ck)[0] = <<>>
         /\ \A i \in 1..MaximumValueID :
              LiveTurns(ck)[i] = IF i - 1 \in LiveConstants(ck) THEN Append(LiveTurns(ck)[i - 1], i - 1) ELSE LiveTurns(ck)[i - 1]
<1> DEFINE n == MaximumValueID
           start == <<>>
           Is(g, m) == g = [i \in 0..m |-> IF i = 0 THEN start
                                           ELSE IF i - 1 \in LiveConstants(ck) THEN Append(g[i - 1], i - 1) ELSE g[i - 1]]
           S == {m \in 0..n : \E g : Is(g, m)}
<1>0. n \in Nat
  BY ScriptAssumption
<1> HIDE DEF n, start
<1>1. 0 \in S
  <2> DEFINE g == [i \in 0..0 |-> start]
  <2>1. Is(g, 0)
    OBVIOUS
  <2> HIDE DEF Is, g
  <2> QED
    BY <1>0, <2>1
<1>2. ASSUME NEW m \in 0 .. n - 1, m \in S
      PROVE  m + 1 \in S
  <2>1. PICK g : Is(g, m)
    BY <1>2
  <2> DEFINE y == IF (m + 1) - 1 \in LiveConstants(ck) THEN Append(g[m], (m + 1) - 1) ELSE g[m]
             h == [i \in 0 .. m + 1 |-> IF i = m + 1 THEN y ELSE g[i]]
  <2>2. ASSUME NEW i \in 0 .. m + 1
        PROVE  h[i] = IF i = 0 THEN start ELSE IF i - 1 \in LiveConstants(ck) THEN Append(h[i - 1], i - 1) ELSE h[i - 1]
    <3>1. CASE i = m + 1
      <4>1. h[i] = y /\ i # 0 /\ h[i - 1] = g[m]
        BY <1>0, <3>1
      <4> QED
        BY <3>1, <4>1
    <3>2. CASE i # m + 1
      <4>1. i \in 0..m /\ h[i] = g[i] /\ (i # 0 => h[i - 1] = g[i - 1])
        BY <1>0, <3>2
      <4>2. g[i] = IF i = 0 THEN start ELSE IF i - 1 \in LiveConstants(ck) THEN Append(g[i - 1], i - 1) ELSE g[i - 1]
        BY <2>1, <4>1
      <4> QED
        BY <4>1, <4>2
    <3> QED
      BY <3>1, <3>2
  <2>3. h = [i \in 0 .. m + 1 |-> h[i]] /\ m + 1 \in 0..n
    BY <1>0
  <2> HIDE DEF h
  <2>4. Is(h, m + 1)
    BY <2>2, <2>3
  <2> HIDE DEF Is
  <2> QED
    BY <2>3, <2>4
<1>3. \E g : Is(g, n)
  <2> HIDE DEF S
  <2>1. 0..n \subseteq S /\ n \in 0..n
    BY <1>0, <1>1, <1>2, SetInduction
  <2> HIDE DEF Is
  <2> QED
    BY <2>1 DEF S
<1>4. LiveTurns(ck) = CHOOSE g : Is(g, n)
  BY DEF LiveTurns, Loop, n, start
<1> DEFINE h == LiveTurns(ck)
<1>5. Is(h, n)
  <2> HIDE DEF Is
  <2> QED
    BY <1>3, <1>4, Zenon
<1> HIDE DEF h
<1>6. 0 \in 0..n /\ \A i \in 1..n : i \in 0..n /\ i # 0
  BY <1>0
<1>7. h[0] = start /\ \A i \in 1..n : h[i] = IF i - 1 \in LiveConstants(ck) THEN Append(h[i - 1], i - 1) ELSE h[i - 1]
  BY <1>5, <1>6
<1> QED
  BY <1>7 DEF h, n, start

(* The turns of SaveConstants. *)
LEMMA SaveLiveLoop ==
  ASSUME NEW x, NEW ck, NEW w, LiveIds(ck) \in Seq(Int)
  PROVE  /\ SaveLive(x, ck, w)[0] = Append(x, Len(LiveIds(ck)))
         /\ \A i \in 1..Len(LiveIds(ck)) :
              SaveLive(x, ck, w)[i] = SaveHConstantShim(Append(SaveLive(x, ck, w)[i - 1], LiveIds(ck)[i]), ck.constants[LiveIds(ck)[i]], w)
<1> DEFINE n == Len(LiveIds(ck))
           start == Append(x, Len(LiveIds(ck)))
           Is(g, m) == g = [i \in 0..m |-> IF i = 0 THEN start
                                           ELSE SaveHConstantShim(Append(g[i - 1], LiveIds(ck)[i]), ck.constants[LiveIds(ck)[i]], w)]
           S == {m \in 0..n : \E g : Is(g, m)}
<1>0. n \in Nat
  BY LenProperties
<1> HIDE DEF n, start
<1>1. 0 \in S
  <2> DEFINE g == [i \in 0..0 |-> start]
  <2>1. Is(g, 0)
    OBVIOUS
  <2> HIDE DEF Is, g
  <2> QED
    BY <1>0, <2>1
<1>2. ASSUME NEW m \in 0 .. n - 1, m \in S
      PROVE  m + 1 \in S
  <2>1. PICK g : Is(g, m)
    BY <1>2
  <2> DEFINE y == SaveHConstantShim(Append(g[m], LiveIds(ck)[(m + 1)]), ck.constants[LiveIds(ck)[(m + 1)]], w)
             h == [i \in 0 .. m + 1 |-> IF i = m + 1 THEN y ELSE g[i]]
  <2>2. ASSUME NEW i \in 0 .. m + 1
        PROVE  h[i] = IF i = 0 THEN start ELSE SaveHConstantShim(Append(h[i - 1], LiveIds(ck)[i]), ck.constants[LiveIds(ck)[i]], w)
    <3>1. CASE i = m + 1
      <4>1. h[i] = y /\ i # 0 /\ h[i - 1] = g[m]
        BY <1>0, <3>1
      <4> QED
        BY <3>1, <4>1
    <3>2. CASE i # m + 1
      <4>1. i \in 0..m /\ h[i] = g[i] /\ (i # 0 => h[i - 1] = g[i - 1])
        BY <1>0, <3>2
      <4>2. g[i] = IF i = 0 THEN start ELSE SaveHConstantShim(Append(g[i - 1], LiveIds(ck)[i]), ck.constants[LiveIds(ck)[i]], w)
        BY <2>1, <4>1
      <4> QED
        BY <4>1, <4>2
    <3> QED
      BY <3>1, <3>2
  <2>3. h = [i \in 0 .. m + 1 |-> h[i]] /\ m + 1 \in 0..n
    BY <1>0
  <2> HIDE DEF h
  <2>4. Is(h, m + 1)
    BY <2>2, <2>3
  <2> HIDE DEF Is
  <2> QED
    BY <2>3, <2>4
<1>3. \E g : Is(g, n)
  <2> HIDE DEF S
  <2>1. 0..n \subseteq S /\ n \in 0..n
    BY <1>0, <1>1, <1>2, SetInduction
  <2> HIDE DEF Is
  <2> QED
    BY <2>1 DEF S
<1>4. SaveLive(x, ck, w) = CHOOSE g : Is(g, n)
  BY DEF SaveLive, Loop, n, start
<1> DEFINE h == SaveLive(x, ck, w)
<1>5. Is(h, n)
  <2> HIDE DEF Is
  <2> QED
    BY <1>3, <1>4, Zenon
<1> HIDE DEF h
<1>6. 0 \in 0..n /\ \A i \in 1..n : i \in 0..n /\ i # 0
  BY <1>0
<1>7. h[0] = start /\ \A i \in 1..n : h[i] = SaveHConstantShim(Append(h[i - 1], LiveIds(ck)[i]), ck.constants[LiveIds(ck)[i]], w)
  BY <1>5, <1>6
<1> QED
  BY <1>7 DEF h, n, start

(* The turns of SaveInstructions. *)
LEMMA SaveInstructionsLoop ==
  ASSUME NEW x, NEW ck, NEW w, ck.instructions \in Seq(Instructions)
  PROVE  /\ SaveInstructions(x, ck, w)[0] = Append(x, Len(ck.instructions))
         /\ \A i \in 1..Len(ck.instructions) :
              SaveInstructions(x, ck, w)[i] = SaveInstruction(SaveInstructions(x, ck, w)[i - 1], ck.instructions[i], w)
<1> DEFINE n == Len(ck.instructions)
           start == Append(x, Len(ck.instructions))
           Is(g, m) == g = [i \in 0..m |-> IF i = 0 THEN start
                                           ELSE SaveInstruction(g[i - 1], ck.instructions[i], w)]
           S == {m \in 0..n : \E g : Is(g, m)}
<1>0. n \in Nat
  BY LenProperties
<1> HIDE DEF n, start
<1>1. 0 \in S
  <2> DEFINE g == [i \in 0..0 |-> start]
  <2>1. Is(g, 0)
    OBVIOUS
  <2> HIDE DEF Is, g
  <2> QED
    BY <1>0, <2>1
<1>2. ASSUME NEW m \in 0 .. n - 1, m \in S
      PROVE  m + 1 \in S
  <2>1. PICK g : Is(g, m)
    BY <1>2
  <2> DEFINE y == SaveInstruction(g[m], ck.instructions[(m + 1)], w)
             h == [i \in 0 .. m + 1 |-> IF i = m + 1 THEN y ELSE g[i]]
  <2>2. ASSUME NEW i \in 0 .. m + 1
        PROVE  h[i] = IF i = 0 THEN start ELSE SaveInstruction(h[i - 1], ck.instructions[i], w)
    <3>1. CASE i = m + 1
      <4>1. h[i] = y /\ i # 0 /\ h[i - 1] = g[m]
        BY <1>0, <3>1
      <4> QED
        BY <3>1, <4>1
    <3>2. CASE i # m + 1
      <4>1. i \in 0..m /\ h[i] = g[i] /\ (i # 0 => h[i - 1] = g[i - 1])
        BY <1>0, <3>2
      <4>2. g[i] = IF i = 0 THEN start ELSE SaveInstruction(g[i - 1], ck.instructions[i], w)
        BY <2>1, <4>1
      <4> QED
        BY <4>1, <4>2
    <3> QED
      BY <3>1, <3>2
  <2>3. h = [i \in 0 .. m + 1 |-> h[i]] /\ m + 1 \in 0..n
    BY <1>0
  <2> HIDE DEF h
  <2>4. Is(h, m + 1)
    BY <2>2, <2>3
  <2> HIDE DEF Is
  <2> QED
    BY <2>3, <2>4
<1>3. \E g : Is(g, n)
  <2> HIDE DEF S
  <2>1. 0..n \subseteq S /\ n \in 0..n
    BY <1>0, <1>1, <1>2, SetInduction
  <2> HIDE DEF Is
  <2> QED
    BY <2>1 DEF S
<1>4. SaveInstructions(x, ck, w) = CHOOSE g : Is(g, n)
  BY DEF SaveInstructions, Loop, n, start
<1> DEFINE h == SaveInstructions(x, ck, w)
<1>5. Is(h, n)
  <2> HIDE DEF Is
  <2> QED
    BY <1>3, <1>4, Zenon
<1> HIDE DEF h
<1>6. 0 \in 0..n /\ \A i \in 1..n : i \in 0..n /\ i # 0
  BY <1>0
<1>7. h[0] = start /\ \A i \in 1..n : h[i] = SaveInstruction(h[i - 1], ck.instructions[i], w)
  BY <1>5, <1>6
<1> QED
  BY <1>7 DEF h, n, start

(* The turns of the loop that saves the inlined functions. *)
LEMMA SaveInlinedLoop ==
  ASSUME NEW x, NEW ck, ck.inlined \in Seq(Literal)
  PROVE  /\ SaveInlined(x, ck)[0] = Append(x, Len(ck.inlined))
         /\ \A i \in 1..Len(ck.inlined) :
              SaveInlined(x, ck)[i] = SaveSharedFunctionInfo(SaveInlined(x, ck)[i - 1], ck.inlined[i])
<1> DEFINE n == Len(ck.inlined)
           start == Append(x, Len(ck.inlined))
           Is(g, m) == g = [i \in 0..m |-> IF i = 0 THEN start
                                           ELSE SaveSharedFunctionInfo(g[i - 1], ck.inlined[i])]
           S == {m \in 0..n : \E g : Is(g, m)}
<1>0. n \in Nat
  BY LenProperties
<1> HIDE DEF n, start
<1>1. 0 \in S
  <2> DEFINE g == [i \in 0..0 |-> start]
  <2>1. Is(g, 0)
    OBVIOUS
  <2> HIDE DEF Is, g
  <2> QED
    BY <1>0, <2>1
<1>2. ASSUME NEW m \in 0 .. n - 1, m \in S
      PROVE  m + 1 \in S
  <2>1. PICK g : Is(g, m)
    BY <1>2
  <2> DEFINE y == SaveSharedFunctionInfo(g[m], ck.inlined[(m + 1)])
             h == [i \in 0 .. m + 1 |-> IF i = m + 1 THEN y ELSE g[i]]
  <2>2. ASSUME NEW i \in 0 .. m + 1
        PROVE  h[i] = IF i = 0 THEN start ELSE SaveSharedFunctionInfo(h[i - 1], ck.inlined[i])
    <3>1. CASE i = m + 1
      <4>1. h[i] = y /\ i # 0 /\ h[i - 1] = g[m]
        BY <1>0, <3>1
      <4> QED
        BY <3>1, <4>1
    <3>2. CASE i # m + 1
      <4>1. i \in 0..m /\ h[i] = g[i] /\ (i # 0 => h[i - 1] = g[i - 1])
        BY <1>0, <3>2
      <4>2. g[i] = IF i = 0 THEN start ELSE SaveSharedFunctionInfo(g[i - 1], ck.inlined[i])
        BY <2>1, <4>1
      <4> QED
        BY <4>1, <4>2
    <3> QED
      BY <3>1, <3>2
  <2>3. h = [i \in 0 .. m + 1 |-> h[i]] /\ m + 1 \in 0..n
    BY <1>0
  <2> HIDE DEF h
  <2>4. Is(h, m + 1)
    BY <2>2, <2>3
  <2> HIDE DEF Is
  <2> QED
    BY <2>3, <2>4
<1>3. \E g : Is(g, n)
  <2> HIDE DEF S
  <2>1. 0..n \subseteq S /\ n \in 0..n
    BY <1>0, <1>1, <1>2, SetInduction
  <2> HIDE DEF Is
  <2> QED
    BY <2>1 DEF S
<1>4. SaveInlined(x, ck) = CHOOSE g : Is(g, n)
  BY DEF SaveInlined, Loop, n, start
<1> DEFINE h == SaveInlined(x, ck)
<1>5. Is(h, n)
  <2> HIDE DEF Is
  <2> QED
    BY <1>3, <1>4, Zenon
<1> HIDE DEF h
<1>6. 0 \in 0..n /\ \A i \in 1..n : i \in 0..n /\ i # 0
  BY <1>0
<1>7. h[0] = start /\ \A i \in 1..n : h[i] = SaveSharedFunctionInfo(h[i - 1], ck.inlined[i])
  BY <1>5, <1>6
<1> QED
  BY <1>7 DEF h, n, start

(* The turns of LoadSharedFunctionInfo. *)
LEMMA DescendLoop ==
  ASSUME NEW b, NEW pos, NEW n \in Nat, NEW v
  PROVE  /\ Descend(b, pos, n, v)[0] = [ok |-> TRUE, value |-> Root]
         /\ \A i \in 1..n :
              Descend(b, pos, n, v)[i] = IF Descend(b, pos, n, v)[i - 1].ok /\ Descend(b, pos, n, v)[i - 1].value \in v.compiled THEN [ok |-> TRUE, value |-> Inner[Descend(b, pos, n, v)[i - 1].value][b[pos + i] + 1]] ELSE [ok |-> FALSE, value |-> Root]
<1> DEFINE start == [ok |-> TRUE, value |-> Root]
           Is(g, m) == g = [i \in 0..m |-> IF i = 0 THEN start
                                           ELSE IF g[i - 1].ok /\ g[i - 1].value \in v.compiled THEN [ok |-> TRUE, value |-> Inner[g[i - 1].value][b[pos + i] + 1]] ELSE [ok |-> FALSE, value |-> Root]]
           S == {m \in 0..n : \E g : Is(g, m)}
<1>0. n \in Nat
  OBVIOUS
<1> HIDE DEF start
<1>1. 0 \in S
  <2> DEFINE g == [i \in 0..0 |-> start]
  <2>1. Is(g, 0)
    OBVIOUS
  <2> HIDE DEF Is, g
  <2> QED
    BY <1>0, <2>1
<1>2. ASSUME NEW m \in 0 .. n - 1, m \in S
      PROVE  m + 1 \in S
  <2>1. PICK g : Is(g, m)
    BY <1>2
  <2> DEFINE y == IF g[m].ok /\ g[m].value \in v.compiled THEN [ok |-> TRUE, value |-> Inner[g[m].value][b[pos + (m + 1)] + 1]] ELSE [ok |-> FALSE, value |-> Root]
             h == [i \in 0 .. m + 1 |-> IF i = m + 1 THEN y ELSE g[i]]
  <2>2. ASSUME NEW i \in 0 .. m + 1
        PROVE  h[i] = IF i = 0 THEN start ELSE IF h[i - 1].ok /\ h[i - 1].value \in v.compiled THEN [ok |-> TRUE, value |-> Inner[h[i - 1].value][b[pos + i] + 1]] ELSE [ok |-> FALSE, value |-> Root]
    <3>1. CASE i = m + 1
      <4>1. h[i] = y /\ i # 0 /\ h[i - 1] = g[m]
        BY <1>0, <3>1
      <4> QED
        BY <3>1, <4>1
    <3>2. CASE i # m + 1
      <4>1. i \in 0..m /\ h[i] = g[i] /\ (i # 0 => h[i - 1] = g[i - 1])
        BY <1>0, <3>2
      <4>2. g[i] = IF i = 0 THEN start ELSE IF g[i - 1].ok /\ g[i - 1].value \in v.compiled THEN [ok |-> TRUE, value |-> Inner[g[i - 1].value][b[pos + i] + 1]] ELSE [ok |-> FALSE, value |-> Root]
        BY <2>1, <4>1
      <4> QED
        BY <4>1, <4>2
    <3> QED
      BY <3>1, <3>2
  <2>3. h = [i \in 0 .. m + 1 |-> h[i]] /\ m + 1 \in 0..n
    BY <1>0
  <2> HIDE DEF h
  <2>4. Is(h, m + 1)
    BY <2>2, <2>3
  <2> HIDE DEF Is
  <2> QED
    BY <2>3, <2>4
<1>3. \E g : Is(g, n)
  <2> HIDE DEF S
  <2>1. 0..n \subseteq S /\ n \in 0..n
    BY <1>0, <1>1, <1>2, SetInduction
  <2> HIDE DEF Is
  <2> QED
    BY <2>1 DEF S
<1>4. Descend(b, pos, n, v) = CHOOSE g : Is(g, n)
  BY DEF Descend, Loop, start
<1> DEFINE h == Descend(b, pos, n, v)
<1>5. Is(h, n)
  <2> HIDE DEF Is
  <2> QED
    BY <1>3, <1>4, Zenon
<1> HIDE DEF h
<1>6. 0 \in 0..n /\ \A i \in 1..n : i \in 0..n /\ i # 0
  BY <1>0
<1>7. h[0] = start /\ \A i \in 1..n : h[i] = IF h[i - 1].ok /\ h[i - 1].value \in v.compiled THEN [ok |-> TRUE, value |-> Inner[h[i - 1].value][b[pos + i] + 1]] ELSE [ok |-> FALSE, value |-> Root]
  BY <1>5, <1>6
<1> QED
  BY <1>7 DEF h, start

-----------------------------------------------------------------------------
(* Basic blocks. *)

BlockHead(block, i) == IF i = 1 THEN <<>> ELSE <<block.ast_id>>
BlockTail(block) == IF block.entry = 0 THEN <<0>> ELSE <<1, block.entry>>

LEMMA BlockSaved ==
  ASSUME NEW x \in Seq(Int), NEW block \in Blocks, NEW i
  PROVE  /\ BlockHead(block, i) \in Seq(Int) /\ BlockTail(block) \in Seq(Int)
         /\ x \o BlockHead(block, i) \in Seq(Int)
         /\ Len(x \o BlockHead(block, i)) = Len(x) + Len(BlockHead(block, i))
         /\ SaveBlock(x, block, i) = (x \o BlockHead(block, i)) \o BlockTail(block)
         /\ Ext(x, SaveBlock(x, block, i))
         /\ SaveBlock(x, block, i) \in Seq(Int)
         /\ Len(SaveBlock(x, block, i)) =
              Len(x) + Len(BlockHead(block, i)) + Len(BlockTail(block))
         /\ Len(x) \in Nat
<1> DEFINE s == BlockHead(block, i)
           t == BlockTail(block)
           a == x \o s
           y == SaveBlock(x, block, i)
<1>1. block.ast_id \in Int /\ block.entry \in Int
  BY DEF Blocks
<1>2. s \in Seq(Int) /\ t \in Seq(Int)
  BY <1>1 DEF BlockHead, BlockTail
<1>3. y = a \o t /\ a = x \o s
  BY DEF SaveBlock, BlockHead, BlockTail
<1> HIDE DEF a, s, t, y
<1>4. Ext(x, a) /\ Len(a) = Len(x) + Len(s) /\ Len(x) \in Nat /\ Len(s) \in Nat
  BY <1>2, <1>3, Added
<1>5. a \in Seq(Int)
  BY <1>4 DEF Ext
<1>6. Ext(a, y) /\ Len(y) = Len(a) + Len(t) /\ Len(t) \in Nat
  BY <1>2, <1>3, <1>5, Added
<1>7. Ext(x, y)
  BY <1>4, <1>6, ExtTrans
<1>8. y \in Seq(Int)
  BY <1>6 DEF Ext
<1>9. Len(y) = Len(x) + Len(s) + Len(t)
  BY <1>4, <1>6
<1> QED
  BY <1>2, <1>3, <1>4, <1>5, <1>7, <1>8, <1>9 DEF a, s, t, y

LEMMA BlockLoad ==
  ASSUME NEW x \in Seq(Int), NEW block \in Blocks, NEW i, NEW b, NEW at,
         i = 1 => block.ast_id = 0,
         Ext(SaveBlock(x, block, i), b), at.pos = Len(x) + 1
  PROVE  /\ LoadBlock(b, at, i).pos = Len(SaveBlock(x, block, i)) + 1
         /\ LoadBlock(b, at, i).value = Append(at.value, block)
<1> DEFINE s == BlockHead(block, i)
           t == BlockTail(block)
           a == x \o s
           y == SaveBlock(x, block, i)
           r == LoadBlock(b, at, i)
           ast == IF i = 1 THEN 0 ELSE 1
           target == At(b, at.pos + ast) # 0
<1>1. block.ast_id \in Int /\ block.entry \in Int
      /\ block = [ast_id |-> block.ast_id, entry |-> block.entry]
  BY DEF Blocks
<1>2. /\ s \in Seq(Int) /\ t \in Seq(Int) /\ a \in Seq(Int) /\ y = a \o t /\ a = x \o s
      /\ Len(a) = Len(x) + Len(s) /\ Len(y) = Len(x) + Len(s) + Len(t)
      /\ Len(x) \in Nat
  BY BlockSaved
<1>3. /\ Len(s) = ast /\ (i # 1 => s[1] = block.ast_id)
  BY DEF BlockHead
<1>4. /\ Len(t) = IF block.entry = 0 THEN 1 ELSE 2
      /\ t[1] = IF block.entry = 0 THEN 0 ELSE 1
      /\ block.entry # 0 => t[2] = block.entry
  BY DEF BlockTail
<1>5. Ext(y, b) /\ y = SaveBlock(x, block, i)
  OBVIOUS
<1>6. r = [pos |-> at.pos + ast + IF target THEN 2 ELSE 1,
           value |-> Append(at.value,
                            [ast_id |-> IF i = 1 THEN 0 ELSE At(b, at.pos),
                             entry |-> IF target THEN At(b, at.pos + ast + 1) ELSE 0])]
  BY DEF LoadBlock
<1> HIDE DEF a, s, t, y, r
<1>7. Ext(a, b) /\ Holds(b, Len(a), t)
  BY <1>2, <1>5, AddedRead
<1>8. Holds(b, Len(x), s)
  BY <1>2, <1>7, AddedRead
<1>9. i # 1 => At(b, at.pos) = block.ast_id
  BY <1>3, <1>8 DEF Holds
<1>10. Len(a) + 1 = at.pos + ast /\ Len(a) + 2 = at.pos + ast + 1 /\ ast \in Nat
  BY <1>2, <1>3
<1>11. /\ At(b, at.pos + ast) = IF block.entry = 0 THEN 0 ELSE 1
       /\ block.entry # 0 => At(b, at.pos + ast + 1) = block.entry
  <2>1. 1 \in 1..Len(t) /\ (block.entry # 0 => 2 \in 1..Len(t))
    BY <1>4
  <2>2. At(b, Len(a) + 1) = t[1] /\ (block.entry # 0 => At(b, Len(a) + 2) = t[2])
    BY <1>7, <2>1 DEF Holds
  <2> HIDE DEF ast
  <2> QED
    BY <1>4, <1>10, <2>2
<1>12. target <=> block.entry # 0
  BY <1>11
<1>13. r.pos = Len(y) + 1
  <2> HIDE DEF ast, target
  <2>1. r.pos = at.pos + ast + IF target THEN 2 ELSE 1
    BY <1>6
  <2> QED
    BY <1>2, <1>3, <1>4, <1>10, <1>12, <2>1
<1>14. r.value = Append(at.value, block)
  <2>1. (IF i = 1 THEN 0 ELSE At(b, at.pos)) = block.ast_id
    BY <1>9
  <2>2. (IF target THEN At(b, at.pos + ast + 1) ELSE 0) = block.entry
    BY <1>11, <1>12
  <2> HIDE DEF ast, target
  <2> QED
    BY <1>1, <1>6, <2>1, <2>2
<1> QED
  BY <1>5, <1>13, <1>14 DEF r

LEMMA BlocksChain ==
  ASSUME NEW x \in Seq(Int), NEW blocks \in Seq(Blocks)
  PROVE  /\ Len(blocks) \in Nat
         /\ \A i \in 0..Len(blocks) :
              /\ SaveBlocks(x, blocks)[i] \in Seq(Int)
              /\ Ext(Append(x, Len(blocks)), SaveBlocks(x, blocks)[i])
              /\ Ext(SaveBlocks(x, blocks)[i], SaveBlocks(x, blocks)[Len(blocks)])
<1> DEFINE h == SaveBlocks(x, blocks)
           n == Len(blocks)
<1>1. n \in Nat /\ \A i \in 1..n : blocks[i] \in Blocks
  BY LenProperties, ElementOfSeq
<1>2. h[0] = Append(x, n) /\ \A i \in 1..n : h[i] = SaveBlock(h[i - 1], blocks[i], i)
  BY SaveBlocksLoop
<1> HIDE DEF h, n
<1>3. h[0] \in Seq(Int)
  BY <1>1, <1>2, AddedOne
<1>4. ASSUME NEW i \in 1..n, h[i - 1] \in Seq(Int)
      PROVE  Ext(h[i - 1], h[i])
  BY <1>1, <1>2, <1>4, BlockSaved
<1>5. \A i \in 0..n : h[i] \in Seq(Int) /\ Ext(h[0], h[i]) /\ Ext(h[i], h[n])
  BY <1>1, <1>3, <1>4, Chain
<1> QED
  BY <1>1, <1>2, <1>5 DEF h, n

(* SaveBasicBlocks without Synchronize. *)
AfterBlocks(x, blocks) == SaveBlocks(x, blocks)[Len(blocks)]

LEMMA BlocksSaved ==
  ASSUME NEW x \in Seq(Int), NEW blocks \in Seq(Blocks)
  PROVE  /\ Ext(x, AfterBlocks(x, blocks)) /\ AfterBlocks(x, blocks) \in Seq(Int)
         /\ SaveBasicBlocks(x, blocks) =
              Append(AfterBlocks(x, blocks), Len(AfterBlocks(x, blocks)))
<1> DEFINE y == AfterBlocks(x, blocks)
           a == Append(x, Len(blocks))
<1>1. Len(blocks) \in Nat /\ Len(blocks) \in Int /\ Len(blocks) \in 0..Len(blocks)
  BY LenProperties
<1>2. Ext(a, y) /\ y \in Seq(Int)
  BY <1>1, BlocksChain DEF AfterBlocks
<1>3. Ext(x, a)
  BY <1>1, AddedOne
<1>4. SaveBasicBlocks(x, blocks) = Append(y, Len(y))
  BY DEF SaveBasicBlocks, Synchronize, AfterBlocks
<1> HIDE DEF y, a
<1>5. Ext(x, y)
  BY <1>2, <1>3, ExtTrans
<1> QED
  BY <1>2, <1>4, <1>5 DEF y

LEMMA BlocksLoad ==
  ASSUME NEW x \in Seq(Int), NEW blocks \in Seq(Blocks), NEW b,
         blocks # <<>> => blocks[1].ast_id = 0,
         Ext(AfterBlocks(x, blocks), b)
  PROVE  /\ LoadBasicBlocks(b, Len(x) + 1).pos = Len(AfterBlocks(x, blocks)) + 1
         /\ LoadBasicBlocks(b, Len(x) + 1).value = blocks
<1> DEFINE n == Len(blocks)
           h == SaveBlocks(x, blocks)
           pos == Len(x) + 1
           g == LoadBlocks(b, pos, n)
           S == {i \in 0..n : /\ g[i].pos = Len(h[i]) + 1
                              /\ g[i].value \in Seq(Blocks) /\ Len(g[i].value) = i
                              /\ \A j \in 1..i : g[i].value[j] = blocks[j]}
<1>1. n \in Nat /\ 0 \in 0..n /\ n \in 0..n /\ \A i \in 1..n : blocks[i] \in Blocks
  BY LenProperties, ElementOfSeq
<1>2. h[0] = Append(x, n) /\ \A i \in 1..n : h[i] = SaveBlock(h[i - 1], blocks[i], i)
  BY SaveBlocksLoop
<1>3. \A i \in 0..n : h[i] \in Seq(Int) /\ Ext(h[i], b)
  <2>1. \A i \in 0..n : h[i] \in Seq(Int) /\ Ext(h[i], h[n])
    BY BlocksChain
  <2>2. Ext(h[n], b)
    BY DEF AfterBlocks
  <2> HIDE DEF h
  <2> QED
    BY <2>1, <2>2, ExtTrans
<1>4. \A i \in 1..n : i = 1 => blocks[i].ast_id = 0
  <2>1. blocks = <<>> => n = 0
    OBVIOUS
  <2> QED
    BY <1>1, <2>1
<1>5. At(b, pos) = n /\ Len(h[0]) = Len(x) + 1 /\ Len(x) \in Nat
  <2> HIDE DEF n, h
  <2>0. Ext(h[0], b) /\ n \in Int
    BY <1>1, <1>3
  <2>1. Ext(Append(x, n), b) /\ n \in Int
    BY <1>2, <2>0
  <2>2. At(b, Len(x) + 1) = n /\ Len(Append(x, n)) = Len(x) + 1 /\ Len(x) \in Nat
    BY <2>1, AddedOneRead, AddedOne
  <2> QED
    BY <1>2, <2>2
<1>6. /\ g[0] = [pos |-> pos + 1, value |-> <<>>]
      /\ \A i \in 1..n : g[i] = LoadBlock(b, g[i - 1], i)
  <2> HIDE DEF pos, n
  <2>1. n \in Nat
    BY <1>1
  <2>2. g[0] = [pos |-> pos + 1, value |-> <<>>]
    BY <2>1, LoadBlocksLoop
  <2>3. \A i \in 1..n : g[i] = LoadBlock(b, g[i - 1], i)
    BY <2>1, LoadBlocksLoop
  <2> QED
    BY <2>2, <2>3
<1>7. LoadBasicBlocks(b, pos) = g[n]
  BY <1>5 DEF LoadBasicBlocks
<1>8. AfterBlocks(x, blocks) = h[n]
  BY DEF AfterBlocks
<1> HIDE DEF h, g, n
<1>9. 0 \in S
  <2> DEFINE s == g[0].value
  <2>1. g[0].pos = Len(h[0]) + 1 /\ s = <<>>
    BY <1>5, <1>6
  <2> HIDE DEF s
  <2>2. s \in Seq(Blocks) /\ Len(s) = 0 /\ \A j \in 1..0 : s[j] = blocks[j]
    BY <2>1
  <2> QED
    BY <1>1, <2>1, <2>2 DEF s
<1>10. ASSUME NEW i \in 0 .. n - 1, i \in S
       PROVE  i + 1 \in S
  <2> DEFINE k == i + 1
  <2>1. k \in 1..n /\ k - 1 = i /\ k \in 0..n /\ i \in 0..n
    BY <1>1
  <2> HIDE DEF k
  <2>2. /\ h[i] \in Seq(Int) /\ h[k] = SaveBlock(h[i], blocks[k], k) /\ Ext(h[k], b)
        /\ g[k] = LoadBlock(b, g[i], k) /\ blocks[k] \in Blocks
        /\ (k = 1 => blocks[k].ast_id = 0)
    BY <1>1, <1>2, <1>3, <1>4, <1>6, <2>1
  <2>3. g[i].pos = Len(h[i]) + 1
    BY <1>10
  <2>4. /\ g[k].pos = Len(h[k]) + 1 /\ g[k].value = Append(g[i].value, blocks[k])
    <3> DEFINE at == g[i]
               z == h[i]
               block == blocks[k]
    <3>1. /\ z \in Seq(Int) /\ block \in Blocks /\ (k = 1 => block.ast_id = 0)
          /\ Ext(SaveBlock(z, block, k), b) /\ at.pos = Len(z) + 1
      BY <2>2, <2>3
    <3> HIDE DEF at, z, block
    <3>2. LoadBlock(b, at, k).pos = Len(SaveBlock(z, block, k)) + 1
      BY <3>1, BlockLoad
    <3>3. LoadBlock(b, at, k).value = Append(at.value, block)
      BY <3>1, BlockLoad
    <3> QED
      BY <2>2, <3>2, <3>3 DEF at, z, block
  <2> DEFINE s == g[i].value
             q == g[k].value
  <2>5. /\ s \in Seq(Blocks) /\ Len(s) = i /\ q = Append(s, blocks[k])
        /\ \A j \in 1..i : s[j] = blocks[j]
    BY <1>10, <2>4
  <2> HIDE DEF s, q
  <2>6. /\ q \in Seq(Blocks) /\ Len(q) = k /\ q[k] = blocks[k]
        /\ \A j \in 1..i : q[j] = s[j]
    <3>1. /\ q \in Seq(Blocks) /\ Len(q) = Len(s) + 1 /\ q[Len(s) + 1] = blocks[k]
          /\ \A j \in 1..Len(s) : q[j] = s[j]
      BY <2>2, <2>5, AppendProperties
    <3> QED
      BY <2>1, <2>5, <3>1 DEF k
  <2>7. ASSUME NEW j \in 1..k
        PROVE  q[j] = blocks[j]
    <3>1. CASE j = k
      BY <2>6, <3>1
    <3>2. CASE j # k
      <4>1. j \in 1..i
        BY <2>1, <3>2
      <4> QED
        BY <2>5, <2>6, <4>1
    <3> QED
      BY <3>1, <3>2
  <2>8. k \in S
    BY <2>1, <2>4, <2>6, <2>7 DEF q
  <2> QED
    BY <2>8 DEF k
<1>11. n \in S
  <2> HIDE DEF S
  <2>1. 0..n \subseteq S
    BY <1>1, <1>9, <1>10, SetInduction
  <2> QED
    BY <1>1, <2>1
<1>12. g[n].value = blocks
  <2> DEFINE s == g[n].value
  <2>1. s \in Seq(Blocks) /\ Len(s) = n /\ \A j \in 1..n : s[j] = blocks[j]
    BY <1>11
  <2> HIDE DEF s
  <2>2. s = blocks
    BY <1>1, <2>1, SeqEqual DEF n
  <2> QED
    BY <2>2 DEF s
<1> QED
  BY <1>7, <1>8, <1>11, <1>12 DEF pos

-----------------------------------------------------------------------------
(* Constants. *)

Constants == [type: {kInteger}, value: Int] \cup [type: {kOther}, value: Literal]

LEMMA ConstantFacts ==
  ASSUME NEW constant \in Constants
  PROVE  \/ constant.type = kInteger /\ constant.value \in Int /\ constant.type # kOther
         \/ constant.type = kOther /\ constant.value \in Literal /\ constant.type # kInteger
BY DEF Constants, kInteger, kOther

LEMMA ConstantSaved ==
  ASSUME NEW x \in Seq(Int), NEW constant \in Constants, NEW w
  PROVE  /\ Ext(x, SaveHConstantShim(x, constant, w))
         /\ SaveHConstantShim(x, constant, w) \in Seq(Int)
<1> DEFINE y == SaveHConstantShim(x, constant, w)
<1>1. CASE constant.type = kInteger
  <2> DEFINE s == <<kInteger, constant.value>>
  <2>1. s \in Seq(Int) /\ y = x \o s
    BY <1>1, ConstantFacts DEF SaveHConstantShim, kInteger, kOther
  <2> HIDE DEF s, y
  <2>2. Ext(x, y)
    BY <2>1, Added
  <2> QED
    BY <2>2 DEF Ext, y
<1>2. CASE constant.type # kInteger
  <2> DEFINE a == Append(x, kOther)
             f == SaveJSFunction(a, constant.value, w)
  <2>1. y = Append(f, 0) /\ constant.value \in Literal
    BY <1>2, ConstantFacts DEF SaveHConstantShim
  <2>2. a \in Seq(Int) /\ Ext(x, a)
    BY AddedOne DEF kOther
  <2> HIDE DEF a, y
  <2>3. f \in Seq(Int) /\ Ext(a, f)
    BY <2>1, <2>2, FnSaved
  <2> HIDE DEF f
  <2>4. y \in Seq(Int) /\ Ext(f, y)
    BY <2>1, <2>3, AddedOne
  <2>5. Ext(x, f)
    BY <2>2, <2>3, ExtTrans
  <2>6. Ext(x, y)
    BY <2>4, <2>5, ExtTrans
  <2> QED
    BY <2>4, <2>6 DEF y
<1> QED
  BY <1>1, <1>2

(* What LoadHConstantShim makes of a saved constant. *)
ConstantLoads(r, constant, v, pos) ==
  /\ IsStatus(r)
  /\ r.ok => ~r.fatal /\ r.pos = pos /\ SameConstant(constant, r.value)
  /\ \/ r.ok \/ r.fatal
     \/ constant.type = kOther /\ constant.value \in Literal /\ Missing(constant.value, v)

LEMMA ConstantLoad ==
  ASSUME NEW x \in Seq(Int), NEW id \in Int, NEW constant \in Constants,
         NEW w, NEW v, NEW b, Pair(w, v),
         constant.type = kOther => IsSaveable(constant.value, w),
         Ext(SaveHConstantShim(Append(x, id), constant, w), b)
  PROVE  /\ ConstantLoads(LoadHConstantShim(b, Len(x) + 1, v), constant, v,
                          Len(SaveHConstantShim(Append(x, id), constant, w)) + 1)
         /\ At(b, Len(x) + 1) = id
<1> DEFINE a == Append(x, id)
           y == SaveHConstantShim(a, constant, w)
           pos == Len(x) + 1
           r == LoadHConstantShim(b, pos, v)
<1>1. a \in Seq(Int) /\ Len(a) = pos /\ pos \in Nat /\ pos = Len(x) + 1
  BY AddedOne
<1>2. Ext(y, b) /\ y = SaveHConstantShim(a, constant, w) /\ a = Append(x, id)
  OBVIOUS
<1> HIDE DEF a, y, pos
<1>3. Ext(a, b)
  <2>1. Ext(a, y)
    BY <1>1, <1>2, ConstantSaved
  <2> QED
    BY <1>2, <2>1, ExtTrans
<1>4. At(b, pos) = id
  BY <1>1, <1>2, <1>3, AddedOneRead
<1>5. CASE constant.type = kInteger
  <2> DEFINE s == <<kInteger, constant.value>>
  <2>1. /\ s \in Seq(Int) /\ y = a \o s /\ Len(s) = 2 /\ s[1] = kInteger
        /\ s[2] = constant.value
    BY <1>2, <1>5, ConstantFacts DEF SaveHConstantShim, kInteger, kOther
  <2> HIDE DEF s
  <2>2. Holds(b, Len(a), s) /\ Len(y) = Len(a) + Len(s)
    BY <1>1, <1>2, <2>1, AddedRead, Added
  <2>3. 1 \in 1..Len(s) /\ 2 \in 1..Len(s)
    BY <2>1
  <2>4. At(b, pos + 1) = kInteger /\ At(b, pos + 2) = constant.value
    BY <1>1, <2>1, <2>2, <2>3 DEF Holds
  <2>5. r = [pos |-> pos + 3, ok |-> TRUE, fatal |-> FALSE,
             value |-> [type |-> kInteger, value |-> At(b, pos + 2)]]
    BY <2>4 DEF LoadHConstantShim
  <2> HIDE DEF r
  <2>6. r.ok /\ ~r.fatal /\ IsStatus(r) /\ r.pos = pos + 3
    BY <2>5 DEF IsStatus
  <2>7. r.value.type = kInteger /\ r.value.value = constant.value
    BY <2>4, <2>5
  <2>8. SameConstant(constant, r.value)
    BY <1>5, <2>7 DEF SameConstant, kInteger, kOther
  <2>9. r.pos = Len(y) + 1
    BY <1>1, <2>1, <2>2, <2>6
  <2>10. ConstantLoads(r, constant, v, Len(y) + 1)
    BY <2>6, <2>8, <2>9 DEF ConstantLoads
  <2> QED
    BY <1>1, <1>2, <1>4, <2>10 DEF r
<1>6. CASE constant.type # kInteger
  <2> DEFINE o == Append(a, kOther)
             f == SaveJSFunction(o, constant.value, w)
             fn == LoadJSFunction(b, pos + 2, v)
  <2>1. y = Append(f, 0) /\ constant.value \in Literal /\ constant.type = kOther
    BY <1>2, <1>6, ConstantFacts DEF SaveHConstantShim
  <2>2. o \in Seq(Int) /\ Len(o) = Len(a) + 1 /\ o = Append(a, kOther) /\ kOther \in Int
    BY <1>1, AddedOne DEF kOther
  <2> HIDE DEF o
  <2>3. f \in Seq(Int) /\ Ext(o, f) /\ Len(f) = Len(o) + 2
    BY <2>1, <2>2, FnSaved
  <2>4. Ext(f, y) /\ Len(y) = Len(f) + 1
    <3> HIDE DEF f
    <3> QED
      BY <2>1, <2>3, AddedOne
  <2>5. Ext(f, b)
    <3> HIDE DEF f
    <3> QED
      BY <1>2, <2>4, ExtTrans
  <2>6. FnLoads(LoadJSFunction(b, Len(o) + 1, v), constant.value, v, Len(o) + 3)
    BY <2>1, <2>2, <2>5, FnLoad DEF Pair
  <2>7. At(b, pos + 1) = kOther
    <3>1. Ext(o, b)
      <4> HIDE DEF f
      <4> QED
        BY <2>3, <2>5, ExtTrans
    <3>2. At(b, Len(a) + 1) = kOther
      BY <1>1, <2>2, <3>1, AddedOneRead
    <3> QED
      BY <1>1, <3>2
  <2> HIDE DEF f
  <2>8. FnLoads(fn, constant.value, v, Len(o) + 3) /\ Len(o) + 3 = Len(y)
    <3>1. Len(o) + 1 = pos + 2 /\ Len(o) + 3 = Len(y)
      BY <1>1, <2>2, <2>3, <2>4
    <3> QED
      BY <2>6, <3>1
  <2>9. r = [pos |-> fn.pos + 1, ok |-> fn.ok, fatal |-> fn.fatal,
             value |-> [type |-> kOther, value |-> fn.value]]
    BY <2>7 DEF LoadHConstantShim, kOther, kInteger
  <2> HIDE DEF r, fn
  <2>10. r.ok = fn.ok /\ r.fatal = fn.fatal /\ r.pos = fn.pos + 1 /\ r.value.type = kOther
         /\ r.value.value = fn.value
    BY <2>9
  <2>11. fn.ok \in BOOLEAN /\ fn.fatal \in BOOLEAN /\ fn.pos = Len(y)
    BY <2>8 DEF FnLoads
  <2>12. IsStatus(r) /\ r.pos = Len(y) + 1
    BY <2>10, <2>11 DEF IsStatus
  <2>13. r.ok => ~r.fatal /\ SameConstant(constant, r.value)
    BY <2>1, <2>8, <2>10 DEF FnLoads, SameConstant
  <2>14. r.ok \/ r.fatal \/ Missing(constant.value, v)
    BY <2>8, <2>10 DEF FnLoads
  <2>15. ConstantLoads(r, constant, v, Len(y) + 1)
    BY <2>1, <2>12, <2>13, <2>14 DEF ConstantLoads
  <2> QED
    BY <1>1, <1>2, <1>4, <2>15 DEF r
<1> QED
  BY <1>5, <1>6

(* BitVector::Iterator finds the members of the bit vector. *)
LEMMA LiveIdsAre ==
  ASSUME NEW ck
  PROVE  /\ LiveIds(ck) \in Seq(Int) /\ Len(LiveIds(ck)) \in Nat
         /\ \A i \in 1..Len(LiveIds(ck)) : LiveIds(ck)[i] \in LiveConstants(ck)
         /\ \A id \in LiveConstants(ck) : \E i \in 1..Len(LiveIds(ck)) : LiveIds(ck)[i] = id
<1> DEFINE m == MaximumValueID
           live == LiveConstants(ck)
           g == LiveTurns(ck)
           S == {k \in 0..m : /\ g[k] \in Seq(Int)
                              /\ \A i \in 1..Len(g[k]) : g[k][i] \in live
                              /\ \A id \in live : id < k => \E i \in 1..Len(g[k]) : g[k][i] = id}
<1>1. m \in Nat /\ live \subseteq Int /\ \A id \in live : 0 <= id /\ id < m
  <2>1. live \subseteq ConstantId
    BY Zenon DEF LiveConstants
  <2> HIDE DEF live
  <2>2. m \in Nat /\ ConstantId \subseteq 0 .. m - 1
    BY ScriptAssumption
  <2> HIDE DEF m
  <2> QED
    BY <2>1, <2>2
<1>2. /\ g[0] = <<>>
      /\ \A i \in 1..m : g[i] = IF i - 1 \in live THEN Append(g[i - 1], i - 1) ELSE g[i - 1]
  BY LiveTurnsLoop
<1>3. LiveIds(ck) = g[m]
  BY DEF LiveIds, LiveTurns
<1> HIDE DEF m, live, g
<1>4. 0 \in S
  <2>1. g[0] \in Seq(Int) /\ Len(g[0]) = 0
    BY <1>2
  <2> QED
    BY <1>1, <2>1
<1>5. ASSUME NEW k \in 0 .. m - 1, k \in S
      PROVE  k + 1 \in S
  <2> DEFINE s == g[k]
             t == g[k + 1]
  <2>1. /\ s \in Seq(Int) /\ Len(s) \in Nat
        /\ \A i \in 1..Len(s) : s[i] \in live
        /\ \A id \in live : id < k => \E i \in 1..Len(s) : s[i] = id
    BY <1>5, LenProperties
  <2>2. t = IF k \in live THEN Append(s, k) ELSE s
    <3>1. k + 1 \in 1..m /\ (k + 1) - 1 = k
      BY <1>1
    <3> QED
      BY <1>2, <3>1
  <2>3. k + 1 \in 0..m /\ k \in Int
    BY <1>1
  <2> HIDE DEF s, t
  <2>4. CASE k \in live
    <3>1. /\ t \in Seq(Int) /\ Len(t) = Len(s) + 1 /\ t[Len(s) + 1] = k
          /\ \A i \in 1..Len(s) : t[i] = s[i]
      BY <2>1, <2>2, <2>3, <2>4, AppendProperties
    <3>2. ASSUME NEW i \in 1..Len(t)
          PROVE  t[i] \in live
      <4>1. i \in 1..Len(s) \/ i = Len(s) + 1
        BY <2>1, <3>1
      <4> QED
        BY <2>1, <2>4, <3>1, <4>1
    <3>3. ASSUME NEW id \in live, id < k + 1
          PROVE  \E i \in 1..Len(t) : t[i] = id
      <4>1. id < k \/ id = k
        BY <1>1, <2>3, <3>3
      <4>2. CASE id < k
        <5>1. PICK i \in 1..Len(s) : s[i] = id
          BY <2>1, <4>2
        <5>2. i \in 1..Len(t)
          BY <2>1, <3>1
        <5> QED
          BY <3>1, <5>1, <5>2
      <4>3. CASE id = k
        <5>1. Len(s) + 1 \in 1..Len(t)
          BY <2>1, <3>1
        <5> QED
          BY <3>1, <4>3, <5>1
      <4> QED
        BY <4>1, <4>2, <4>3
    <3> QED
      BY <2>3, <3>1, <3>2, <3>3 DEF t
  <2>5. CASE k \notin live
    <3>1. t = s
      BY <2>2, <2>5
    <3>2. \A id \in live : id < k + 1 => id < k
      BY <1>1, <2>3, <2>5
    <3> QED
      BY <2>1, <2>3, <3>1, <3>2 DEF t
  <2> QED
    BY <2>4, <2>5
<1>6. m \in S
  <2> HIDE DEF S
  <2>1. 0..m \subseteq S /\ m \in 0..m
    BY <1>1, <1>4, <1>5, SetInduction
  <2> QED
    BY <2>1
<1>7. /\ g[m] \in Seq(Int) /\ Len(g[m]) \in Nat
      /\ \A i \in 1..Len(g[m]) : g[m][i] \in live
      /\ \A id \in live : \E i \in 1..Len(g[m]) : g[m][i] = id
  BY <1>1, <1>6, LenProperties
<1> QED
  BY <1>3, <1>7 DEF live

-----------------------------------------------------------------------------
(* SharedFunctionInfos. *)

LEMMA OuterFacts ==
  ASSUME NEW l \in Literal, l # Root
  PROVE  /\ Outer(l) \in Literal /\ Outer(l) < l
         /\ InnerIndex(l) \in Nat \ {0} /\ Inner[Outer(l)][InnerIndex(l)] = l
<1>1. \E o \in Literal : l \in ToSet(Inner[o])
  BY ScriptAssumption
<1>2. Outer(l) \in Literal /\ l \in ToSet(Inner[Outer(l)])
  BY <1>1 DEF Outer
<1>3. Outer(l) < l
  BY <1>2, ScriptAssumption
<1> DEFINE s == Inner[Outer(l)]
<1>4. s \in Seq(Literal)
  BY <1>2, ScriptAssumption
<1>5. \E i \in DOMAIN s : s[i] = l
  <2> HIDE DEF s
  <2>1. l \in ToSet(s)
    BY <1>2 DEF s
  <2> QED
    BY <2>1 DEF ToSet
<1>6. InnerIndex(l) \in DOMAIN s /\ s[InnerIndex(l)] = l
  <2>1. InnerIndex(l) = CHOOSE i \in DOMAIN s : s[i] = l
    BY DEF InnerIndex
  <2> HIDE DEF s
  <2> QED
    BY <1>5, <2>1
<1>7. DOMAIN s = 1..Len(s) /\ Len(s) \in Nat
  BY <1>4, LenProperties
<1>8. InnerIndex(l) \in Nat \ {0}
  <2> HIDE DEF s
  <2> QED
    BY <1>6, <1>7
<1> QED
  BY <1>2, <1>3, <1>6, <1>8

(* There is a way down to every literal, for an outer one starts before it. *)
LEMMA PathsAre ==
  ASSUME NEW l \in Literal, NEW k \in Literal \cap 0..l
  PROVE  Paths(l)[k] = IF k = Root THEN <<>>
                       ELSE Append(Paths(l)[Outer(k)], InnerIndex(k) - 1)
<1> DEFINE Is(g, m) == g = [j \in Literal \cap 0..m |->
                              IF j = Root THEN <<>> ELSE Append(g[Outer(j)], InnerIndex(j) - 1)]
           S == {m \in 0..l : \E g : Is(g, m)}
<1>0. l \in Nat /\ Literal \subseteq Nat
  BY ScriptAssumption
<1>1. 0 \in S
  <2> DEFINE g == [j \in Literal \cap 0..0 |-> <<>>]
  <2>1. ASSUME NEW j \in Literal \cap 0..0
        PROVE  j = Root
    <3> SUFFICES ASSUME j # Root PROVE FALSE
      OBVIOUS
    <3>0. Outer(j) \in Literal /\ Outer(j) < j
      BY OuterFacts
    <3>1. Outer(j) \in Nat
      BY <1>0, <3>0
    <3>2. j = 0 /\ Outer(j) < j
      BY <3>0
    <3> QED
      BY <3>1, <3>2
  <2>2. Is(g, 0)
    BY <2>1
  <2> HIDE DEF Is, g
  <2> QED
    BY <1>0, <2>2
<1>2. ASSUME NEW m \in 0 .. l - 1, m \in S
      PROVE  m + 1 \in S
  <2>1. PICK g : Is(g, m)
    BY <1>2
  <2> DEFINE y == IF m + 1 = Root THEN <<>> ELSE Append(g[Outer(m + 1)], InnerIndex(m + 1) - 1)
             h == [j \in Literal \cap 0 .. m + 1 |-> IF j = m + 1 THEN y ELSE g[j]]
  <2>2. ASSUME NEW j \in Literal \cap 0 .. m + 1
        PROVE  h[j] = IF j = Root THEN <<>> ELSE Append(h[Outer(j)], InnerIndex(j) - 1)
    <3>0. j # Root => Outer(j) \in Literal \cap 0..m /\ Outer(j) \in Literal \cap 0 .. m + 1
                      /\ Outer(j) # m + 1
      <4> SUFFICES ASSUME j # Root
                   PROVE  /\ Outer(j) \in Literal \cap 0..m /\ Outer(j) \in Literal \cap 0 .. m + 1
                          /\ Outer(j) # m + 1
        OBVIOUS
      <4>1. Outer(j) \in Literal /\ Outer(j) < j
        BY OuterFacts
      <4>2. Outer(j) \in Nat
        BY <1>0, <4>1
      <4>3. j \in 0 .. m + 1
        OBVIOUS
      <4>4. m \in Nat
        BY <1>0
      <4>5. Outer(j) \in 0..m /\ Outer(j) \in 0 .. m + 1 /\ Outer(j) # m + 1
        BY <4>1, <4>2, <4>3, <4>4
      <4> QED
        BY <4>1, <4>5
    <3>1. j # Root => h[Outer(j)] = g[Outer(j)]
      BY <3>0
    <3>2. CASE j = m + 1
      <4>1. h[j] = y
        BY <3>2
      <4> QED
        BY <3>1, <3>2, <4>1
    <3>3. CASE j # m + 1
      <4>1. j \in Literal \cap 0..m /\ h[j] = g[j]
        BY <1>0, <3>3
      <4>2. g[j] = IF j = Root THEN <<>> ELSE Append(g[Outer(j)], InnerIndex(j) - 1)
        BY <2>1, <4>1
      <4> QED
        BY <3>1, <4>1, <4>2
    <3> QED
      BY <3>2, <3>3
  <2>3. h = [j \in Literal \cap 0 .. m + 1 |-> h[j]] /\ m + 1 \in 0..l
    BY <1>0
  <2> HIDE DEF h
  <2>4. Is(h, m + 1)
    BY <2>2, <2>3
  <2> HIDE DEF Is
  <2> QED
    BY <2>3, <2>4
<1>3. \E g : Is(g, l)
  <2> HIDE DEF S
  <2>1. 0..l \subseteq S /\ l \in 0..l
    BY <1>0, <1>1, <1>2, SetInduction
  <2> HIDE DEF Is
  <2> QED
    BY <2>1 DEF S
<1>4. Paths(l) = CHOOSE g : Is(g, l)
  BY DEF Paths
<1> DEFINE h == Paths(l)
<1>5. Is(h, l)
  <2> HIDE DEF Is
  <2> QED
    BY <1>3, <1>4, Zenon
<1> HIDE DEF h
<1>6. h[k] = IF k = Root THEN <<>> ELSE Append(h[Outer(k)], InnerIndex(k) - 1)
  BY <1>5
<1> QED
  BY <1>6 DEF h

(* What the loop of LoadSharedFunctionInfo, d, has after as many turns as    *)
(* the way down to k, s, has indices, if these are the ones it read from o   *)
(* on.                                                                       *)
Leads(s, k, b, o, n, d) ==
  /\ s \in Seq(Int) /\ Len(s) \in Nat /\ \A j \in 1..Len(s) : s[j] \in Nat
  /\ Len(s) <= n /\ (\A j \in 1..Len(s) : b[o + j] = s[j])
       => (d[Len(s)].ok => d[Len(s)].value = k)

LEMMA PathLeads ==
  ASSUME NEW l \in Literal, NEW b, NEW o, NEW n \in Nat, NEW v
  PROVE  Leads(Paths(l)[l], l, b, o, n, Descend(b, o, n, v))
<1> DEFINE d == Descend(b, o, n, v)
           p == Paths(l)
           S == {m \in 0..l : \A k \in Literal \cap 0..m : Leads(p[k], k, b, o, n, d)}
<1>0. l \in Nat /\ Literal \subseteq Nat
  BY ScriptAssumption
<1>1. /\ d[0] = [ok |-> TRUE, value |-> Root]
      /\ \A i \in 1..n : d[i] = IF d[i - 1].ok /\ d[i - 1].value \in v.compiled
                                THEN [ok |-> TRUE, value |-> Inner[d[i - 1].value][b[o + i] + 1]]
                                ELSE [ok |-> FALSE, value |-> Root]
  BY DescendLoop
<1>2. \A k \in Literal \cap 0..l : p[k] = IF k = Root THEN <<>>
                                          ELSE Append(p[Outer(k)], InnerIndex(k) - 1)
  BY PathsAre
<1> HIDE DEF d, p
<1>3. Root \in 0..l => Leads(p[Root], Root, b, o, n, d)
  <2> SUFFICES ASSUME Root \in 0..l PROVE Leads(p[Root], Root, b, o, n, d)
    OBVIOUS
  <2>1. p[Root] = <<>>
    BY <1>2, ScriptAssumption
  <2>2. d[0].value = Root
    BY <1>1
  <2> DEFINE s == p[Root]
  <2>3. s \in Seq(Int) /\ Len(s) = 0
    BY <2>1
  <2> HIDE DEF s
  <2>4. Leads(s, Root, b, o, n, d)
    BY <2>2, <2>3 DEF Leads
  <2> QED
    BY <2>4 DEF s
<1>4. ASSUME NEW k \in Literal \cap 0..l, k # Root, Leads(p[Outer(k)], Outer(k), b, o, n, d)
      PROVE  Leads(p[k], k, b, o, n, d)
  <2> DEFINE s == p[Outer(k)]
             t == p[k]
             e == InnerIndex(k) - 1
             c == Len(s) + 1
  <2>1. /\ s \in Seq(Int) /\ Len(s) \in Nat /\ \A j \in 1..Len(s) : s[j] \in Nat
    BY <1>4 DEF Leads
  <2>2. InnerIndex(k) \in Nat \ {0} /\ Inner[Outer(k)][InnerIndex(k)] = k
    BY <1>4, OuterFacts
  <2>3. e \in Nat /\ e \in Int /\ e + 1 = InnerIndex(k)
    BY <2>2
  <2>4. t = Append(s, e)
    BY <1>2, <1>4
  <2> HIDE DEF s, t, e
  <2>5. /\ t \in Seq(Int) /\ Len(t) = c /\ t[c] = e /\ \A j \in 1..Len(s) : t[j] = s[j]
    BY <2>1, <2>3, <2>4, AppendProperties
  <2>6. ASSUME NEW j \in 1..Len(t)
        PROVE  t[j] \in Nat
    <3>1. j \in 1..Len(s) \/ j = c
      BY <2>1, <2>5
    <3> QED
      BY <2>1, <2>3, <2>5, <3>1
  <2>7. ASSUME Len(t) <= n, \A j \in 1..Len(t) : b[o + j] = t[j], d[Len(t)].ok
        PROVE  d[Len(t)].value = k
    <3>1. Len(s) <= n /\ c \in 1..n /\ c - 1 = Len(s) /\ c \in 1..Len(t)
      BY <2>1, <2>5, <2>7
    <3>2. \A j \in 1..Len(s) : b[o + j] = s[j]
      BY <2>1, <2>5, <2>7
    <3>3. b[o + c] = e
      BY <2>5, <2>7, <3>1
    <3>4. d[Len(s)].ok => d[Len(s)].value = Outer(k)
      BY <1>4, <3>1, <3>2 DEF Leads, s
    <3> DEFINE at == d[Len(s)]
               r == d[c]
    <3>5. r = IF at.ok /\ at.value \in v.compiled
              THEN [ok |-> TRUE, value |-> Inner[at.value][b[o + c] + 1]]
              ELSE [ok |-> FALSE, value |-> Root]
      BY <1>1, <3>1
    <3>6. r.ok /\ (at.ok => at.value = Outer(k)) /\ r = d[Len(t)]
      BY <2>5, <2>7, <3>4
    <3> HIDE DEF at, r
    <3>7. at.ok /\ r.value = Inner[at.value][b[o + c] + 1]
      BY <3>5, <3>6
    <3>8. r.value = Inner[Outer(k)][InnerIndex(k)]
      BY <2>3, <3>3, <3>6, <3>7
    <3> QED
      BY <2>2, <3>6, <3>8
  <2>8. Leads(t, k, b, o, n, d)
    BY <2>1, <2>5, <2>6, <2>7 DEF Leads
  <2> QED
    BY <2>8 DEF t
<1>5. ASSUME NEW m \in 0..l, NEW k \in Literal \cap 0..m,
             \A j \in Literal \cap 0 .. m - 1 : Leads(p[j], j, b, o, n, d)
      PROVE  Leads(p[k], k, b, o, n, d)
  <2>1. CASE k = Root
    <3>1. Root \in 0..l
      BY <1>0, <2>1
    <3> QED
      BY <1>3, <2>1, <3>1
  <2>2. CASE k # Root
    <3>0. Outer(k) \in Literal /\ Outer(k) < k
      BY <2>2, OuterFacts
    <3>2. Outer(k) \in Nat /\ k \in 0..m /\ m \in 0..l
      BY <1>0, <3>0
    <3>3. Outer(k) \in 0 .. m - 1 /\ k \in 0..l
      BY <1>0, <3>0, <3>2
    <3>1. Outer(k) \in Literal \cap 0 .. m - 1 /\ k \in Literal \cap 0..l
      BY <3>0, <3>3
    <3> QED
      BY <1>4, <1>5, <2>2, <3>1
  <2> QED
    BY <2>1, <2>2
<1>6. 0 \in S
  <2>1. 0 \in 0..l /\ \A j \in Literal \cap 0 .. 0 - 1 : FALSE
    BY <1>0
  <2> QED
    BY <1>5, <2>1
<1>7. ASSUME NEW m \in 0 .. l - 1, m \in S
      PROVE  m + 1 \in S
  <2>1. m + 1 \in 0..l /\ (m + 1) - 1 = m
    BY <1>0
  <2>2. \A j \in Literal \cap 0 .. (m + 1) - 1 : Leads(p[j], j, b, o, n, d)
    BY <1>7, <2>1
  <2> QED
    BY <1>5, <2>1, <2>2
<1>8. l \in S
  <2> HIDE DEF S
  <2>1. 0..l \subseteq S /\ l \in 0..l
    BY <1>0, <1>6, <1>7, SetInduction
  <2> QED
    BY <2>1
<1>9. l \in Literal \cap 0..l
  BY <1>0
<1> QED
  BY <1>8, <1>9 DEF d, p

LEMMA InfoSaved ==
  ASSUME NEW x \in Seq(Int), NEW l \in Literal
  PROVE  /\ Ext(x, SaveSharedFunctionInfo(x, l))
         /\ SaveSharedFunctionInfo(x, l) \in Seq(Int)
         /\ Len(SaveSharedFunctionInfo(x, l)) = Len(x) + Len(Paths(l)[l]) + 2
         /\ Len(x) \in Nat /\ Len(Paths(l)[l]) \in Nat
         /\ \A b : Ext(SaveSharedFunctionInfo(x, l), b) =>
              /\ At(b, Len(x) + Len(Paths(l)[l]) + 2) = -1
              /\ Holds(b, Len(x) + 1, Paths(l)[l])
<1> DEFINE s == Paths(l)[l]
           one == <<kByPathFromRoot>>
           end == <<-1>>
           a == x \o one
           c == a \o s
           y == SaveSharedFunctionInfo(x, l)
<1>1. s \in Seq(Int) /\ Len(s) \in Nat
  <2>1. Leads(s, l, x, 0, 0, Descend(x, 0, 0, x))
    BY PathLeads
  <2> HIDE DEF s
  <2> QED
    BY <2>1 DEF Leads
<1>2. one \in Seq(Int) /\ Len(one) = 1 /\ end \in Seq(Int) /\ Len(end) = 1 /\ end[1] = -1
  BY DEF kByPathFromRoot
<1>3. y = c \o end /\ c = a \o s /\ a = x \o one
  BY DEF SaveSharedFunctionInfo
<1> HIDE DEF s, one, end, a, c, y
<1>4. Ext(x, a) /\ Len(a) = Len(x) + 1 /\ Len(x) \in Nat
  BY <1>2, <1>3, Added
<1>5. a \in Seq(Int)
  BY <1>4 DEF Ext
<1>6. Ext(a, c) /\ Len(c) = Len(a) + Len(s)
  BY <1>1, <1>3, <1>5, Added
<1>7. c \in Seq(Int)
  BY <1>6 DEF Ext
<1>8. Ext(c, y) /\ Len(y) = Len(c) + 1
  <2>1. Ext(c, y) /\ Len(y) = Len(c) + Len(end)
    BY <1>2, <1>3, <1>7, Added
  <2> QED
    BY <1>2, <2>1
<1>9. Ext(x, c)
  BY <1>4, <1>6, ExtTrans
<1>10. Ext(x, y) /\ y \in Seq(Int)
  BY <1>8, <1>9, ExtTrans DEF Ext
<1>11. Len(y) = Len(x) + Len(s) + 2 /\ Len(c) + 1 = Len(x) + Len(s) + 2
  BY <1>1, <1>4, <1>6, <1>8
<1>12. ASSUME NEW b, Ext(y, b)
       PROVE  At(b, Len(x) + Len(s) + 2) = -1 /\ Holds(b, Len(x) + 1, s)
  <2>1. Ext(c, b) /\ Holds(b, Len(c), end)
    BY <1>2, <1>3, <1>7, <1>12, AddedRead
  <2>2. Holds(b, Len(a), s)
    BY <1>1, <1>3, <1>5, <2>1, AddedRead
  <2>3. At(b, Len(c) + 1) = -1
    BY <1>2, <2>1 DEF Holds
  <2> QED
    BY <1>4, <1>11, <2>2, <2>3
<1> QED
  BY <1>1, <1>4, <1>10, <1>11, <1>12 DEF s, y

(* A SharedFunctionInfo that is found is the one that was saved. *)
LEMMA InfoLoad ==
  ASSUME NEW x \in Seq(Int), NEW l \in Literal, NEW v, NEW b,
         Ext(SaveSharedFunctionInfo(x, l), b),
         LoadSharedFunctionInfo(b, Len(x) + 1, v).ok
  PROVE  /\ LoadSharedFunctionInfo(b, Len(x) + 1, v).pos =
              Len(SaveSharedFunctionInfo(x, l)) + 1
         /\ LoadSharedFunctionInfo(b, Len(x) + 1, v).value = l
<1> DEFINE s == Paths(l)[l]
           n == Len(s)
           pos == Len(x) + 1
           y == SaveSharedFunctionInfo(x, l)
           r == LoadSharedFunctionInfo(b, pos, v)
           last == pos + n + 1
           Ends(e) == b[e] = -1 /\ \A k \in pos + 1 .. e - 1 : b[k] # -1
           end == CHOOSE e \in pos + 1 .. Len(b) : Ends(e)
           d == Descend(b, pos, n, v)
<1>1. /\ Len(y) = Len(x) + n + 2 /\ Len(x) \in Nat /\ n \in Nat /\ Ext(y, b)
      /\ At(b, Len(x) + n + 2) = -1 /\ Holds(b, Len(x) + 1, s)
  BY InfoSaved
<1>2. Leads(s, l, b, pos, n, d)
  BY <1>1, PathLeads
<1>3. r = [pos |-> end + 1,
           ok |-> Descend(b, pos, end - pos - 1, v)[end - pos - 1].ok,
           value |-> Descend(b, pos, end - pos - 1, v)[end - pos - 1].value]
  BY DEF LoadSharedFunctionInfo
<1> HIDE DEF s, y, r, d, n, pos
<1>4. pos \in Nat /\ last = Len(x) + n + 2 /\ pos = Len(x) + 1 /\ Len(y) = last /\ last \in Nat
  BY <1>1 DEF pos
<1>5. DOMAIN b = 1..Len(b) /\ Len(b) \in Nat /\ last <= Len(b)
  BY <1>1, <1>4, LenProperties DEF Ext
<1>6. \A k \in 1..Len(b) : At(b, k) = b[k]
  BY <1>5 DEF At
<1>7. b[last] = -1 /\ last \in pos + 1 .. Len(b)
  BY <1>1, <1>4, <1>5, <1>6
<1>8. \A j \in 1..n : b[pos + j] = s[j] /\ s[j] # -1
  <2> SUFFICES ASSUME NEW j \in 1..n PROVE b[pos + j] = s[j] /\ s[j] # -1
    OBVIOUS
  <2>1. At(b, pos + j) = s[j] /\ s[j] \in Nat
    BY <1>1, <1>2, <1>4 DEF Holds, Leads, n
  <2>2. pos + j \in 1..Len(b)
    BY <1>1, <1>4, <1>5
  <2> QED
    BY <1>6, <2>1, <2>2
<1>9. Ends(last)
  <2> SUFFICES ASSUME NEW k \in pos + 1 .. last - 1 PROVE b[k] # -1
    BY <1>7
  <2>1. k - pos \in 1..n /\ pos + (k - pos) = k
    BY <1>1, <1>4
  <2> QED
    BY <1>8, <2>1
<1>10. ASSUME NEW e \in pos + 1 .. Len(b), Ends(e)
       PROVE  e = last
  <2>1. e \in Int /\ last \in Int
    BY <1>4, <1>5
  <2>2. ~(e < last)
    <3> SUFFICES ASSUME e < last PROVE FALSE
      OBVIOUS
    <3>1. e \in pos + 1 .. last - 1
      BY <1>4, <1>5, <2>1
    <3> QED
      BY <1>9, <1>10, <3>1
  <2>3. ~(last < e)
    <3> SUFFICES ASSUME last < e PROVE FALSE
      OBVIOUS
    <3>1. last \in pos + 1 .. e - 1
      BY <1>4, <1>5, <1>7, <2>1
    <3> QED
      BY <1>7, <1>10, <3>1
  <2> QED
    BY <2>1, <2>2, <2>3
<1>11. end = last
  <2> HIDE DEF Ends, last
  <2> QED
    BY <1>7, <1>9, <1>10
<1>12. end - pos - 1 = n
  <2> HIDE DEF end
  <2> QED
    BY <1>1, <1>4, <1>11
<1> HIDE DEF end
<1>13. r.pos = end + 1 /\ r.ok = d[n].ok /\ r.value = d[n].value
  BY <1>3, <1>12 DEF d
<1>14. d[n].ok => d[n].value = l
  BY <1>1, <1>2, <1>8 DEF Leads, n
<1>15. r.ok
  BY DEF r, pos
<1>16. r.value = l /\ r.pos = Len(y) + 1
  BY <1>4, <1>11, <1>13, <1>14, <1>15
<1> QED
  BY <1>16 DEF r, pos, y

-----------------------------------------------------------------------------
(* A chunk. *)

(* What ChunkAssumption says of a chunk, without its code. *)
IsChunk(ck) ==
  /\ ck.owner \in Literal /\ ck.spill_slot_count \in Int
  /\ ck.blocks \in Seq(Blocks)
  /\ ck.blocks # <<>> => ck.blocks[1].ast_id = 0
  /\ \A id \in LiveConstants(ck) : ck.constants[id] \in Constants
  /\ ck.instructions \in Seq(Instructions)
  /\ \A i \in 1..Len(ck.instructions) :
       ck.instructions[i].opcode = InstanceOfKnownGlobal
         <=> ck.instructions[i].deferred # <<>>
  /\ ck.inlined \in Seq(Literal)

LEMMA ChunkFacts ==
  ASSUME NEW ck \in Chunk
  PROVE  IsChunk(ck) /\ ck.owner \in Position
<1>1. /\ ck.owner \in Literal \cap Position
      /\ ck.spill_slot_count \in Int
      /\ ck.blocks \in Seq([ast_id: Int, entry: Int])
      /\ ck.blocks # <<>> => ck.blocks[1].ast_id = 0
      /\ LiveConstants(ck) \subseteq DOMAIN ck.constants
      /\ \A id \in DOMAIN ck.constants :
           ck.constants[id] \in [type: {kInteger}, value: Int]
                                  \cup [type: {kOther}, value: Literal]
      /\ ck.instructions \in Seq(Instructions)
      /\ ck.inlined \in Seq(Literal)
  BY ChunkAssumption
<1>2. ASSUME NEW i \in DOMAIN ck.instructions
      PROVE  ck.instructions[i].opcode = InstanceOfKnownGlobal
               <=> ck.instructions[i].deferred # <<>>
  <2>1. IF ck.instructions[i].opcode # InstanceOfKnownGlobal
        THEN ck.instructions[i].deferred = <<>>
        ELSE ck.instructions[i].deferred # <<>>
    BY ChunkAssumption
  <2> QED
    BY <2>1
<1>3. DOMAIN ck.instructions = 1..Len(ck.instructions)
  BY <1>1, LenProperties
<1> QED
  BY <1>1, <1>2, <1>3 DEF IsChunk, Blocks, Constants

(* What has been saved at the end of each part of Save and, of the last      *)
(* three, after k turns of its loop.                                         *)
HeaderStage(ck) == Synchronize(<<ck.spill_slot_count>>)
BlocksStage(ck) == SaveBasicBlocks(HeaderStage(ck), ck.blocks)
ConstantsStage(ck, w, k) == SaveLive(BlocksStage(ck), ck, w)[k]
ConstantsEnd(ck, w) == Synchronize(ConstantsStage(ck, w, Len(LiveIds(ck))))
InstructionsStage(ck, w, k) == SaveInstructions(ConstantsEnd(ck, w), ck, w)[k]
InlinedStage(ck, w, k) ==
  SaveInlined(InstructionsStage(ck, w, Len(ck.instructions)), ck)[k]

LEMMA SaveIs ==
  ASSUME NEW ck, NEW w
  PROVE  Save(ck, w) = InlinedStage(ck, w, Len(ck.inlined))
BY DEF Save, HeaderStage, BlocksStage, ConstantsStage, ConstantsEnd, InstructionsStage,
       InlinedStage, SaveConstants

LEMMA HeaderIs ==
  ASSUME NEW ck, ck.spill_slot_count \in Int
  PROVE  /\ HeaderStage(ck) \in Seq(Int) /\ Len(HeaderStage(ck)) = 2
         /\ HeaderStage(ck)[1] = ck.spill_slot_count /\ HeaderStage(ck)[2] = 1
<1> DEFINE n == ck.spill_slot_count
<1>1. n \in Int
  OBVIOUS
<1> HIDE DEF n
<1>2. <<n>> \in Seq(Int) /\ Len(<<n>>) = 1
  BY <1>1
<1>3. /\ Append(<<n>>, 1) \in Seq(Int) /\ Len(Append(<<n>>, 1)) = 2
      /\ Append(<<n>>, 1)[1] = n /\ Append(<<n>>, 1)[2] = 1
  BY <1>1, <1>2
<1>4. HeaderStage(ck) = Append(<<n>>, 1)
  BY <1>2 DEF HeaderStage, Synchronize, n
<1> QED
  BY <1>3, <1>4 DEF n

LEMMA Synchronized ==
  ASSUME NEW x \in Seq(Int)
  PROVE  Ext(x, Synchronize(x)) /\ Synchronize(x) \in Seq(Int)
         /\ Len(Synchronize(x)) = Len(x) + 1 /\ Len(x) \in Nat
<1>1. Len(x) \in Int /\ Len(x) \in Nat
  BY LenProperties
<1> QED
  BY <1>1, AddedOne DEF Synchronize

(* The offset that Synchronize wrote is the one the loader finds. *)
LEMMA SynchronizeRead ==
  ASSUME NEW x \in Seq(Int), NEW b, Ext(Synchronize(x), b)
  PROVE  Ext(x, b) /\ IsSynchronized(b, Len(x) + 1)
<1>1. Len(x) \in Int /\ Len(x) \in Nat /\ Ext(Append(x, Len(x)), b)
  BY LenProperties DEF Synchronize
<1>2. Ext(x, b) /\ At(b, Len(x) + 1) = Len(x)
  BY <1>1, AddedOneRead
<1> QED
  BY <1>1, <1>2 DEF IsSynchronized

LEMMA BlocksStageIs ==
  ASSUME NEW ck, IsChunk(ck)
  PROVE  /\ BlocksStage(ck) \in Seq(Int)
         /\ AfterBlocks(HeaderStage(ck), ck.blocks) \in Seq(Int)
         /\ BlocksStage(ck) = Synchronize(AfterBlocks(HeaderStage(ck), ck.blocks))
         /\ Ext(HeaderStage(ck), AfterBlocks(HeaderStage(ck), ck.blocks))
<1> DEFINE h == HeaderStage(ck)
           a == AfterBlocks(h, ck.blocks)
           y == BlocksStage(ck)
<1>1. h \in Seq(Int) /\ ck.blocks \in Seq(Blocks)
  BY HeaderIs DEF IsChunk
<1>2. y = SaveBasicBlocks(h, ck.blocks)
  BY DEF BlocksStage
<1> HIDE DEF h, y
<1>3. Ext(h, a) /\ a \in Seq(Int) /\ y = Append(a, Len(a))
  BY <1>1, <1>2, BlocksSaved
<1>4. y = Synchronize(a)
  BY <1>3 DEF Synchronize
<1> HIDE DEF a
<1>5. y \in Seq(Int)
  BY <1>3, <1>4, Synchronized
<1> QED
  BY <1>3, <1>4, <1>5 DEF h, a, y

(* The loop of SaveConstants. *)
LEMMA ConstantsChain ==
  ASSUME NEW ck, NEW w, IsChunk(ck)
  PROVE  /\ \A k \in 0..Len(LiveIds(ck)) :
              /\ ConstantsStage(ck, w, k) \in Seq(Int)
              /\ Ext(ConstantsStage(ck, w, k), ConstantsStage(ck, w, Len(LiveIds(ck))))
         /\ ConstantsStage(ck, w, 0) = Append(BlocksStage(ck), Len(LiveIds(ck)))
         /\ \A k \in 1..Len(LiveIds(ck)) :
              /\ ConstantsStage(ck, w, k) =
                   SaveHConstantShim(Append(ConstantsStage(ck, w, k - 1), LiveIds(ck)[k]),
                                     ck.constants[LiveIds(ck)[k]], w)
              /\ ck.constants[LiveIds(ck)[k]] \in Constants /\ LiveIds(ck)[k] \in Int
<1> DEFINE x == BlocksStage(ck)
           live == LiveIds(ck)
           n == Len(live)
           h == SaveLive(x, ck, w)
<1>1. x \in Seq(Int)
  BY BlocksStageIs
<1>2. /\ live \in Seq(Int) /\ n \in Nat
      /\ \A i \in 1..n : live[i] \in Int /\ ck.constants[live[i]] \in Constants
  <2>1. /\ live \in Seq(Int) /\ n \in Nat
        /\ \A i \in 1..n : live[i] \in LiveConstants(ck)
    BY LiveIdsAre
  <2>2. \A i \in 1..n : live[i] \in Int
    BY <2>1, ElementOfSeq
  <2> HIDE DEF live
  <2>3. \A i \in 1..n : ck.constants[live[i]] \in Constants
    BY <2>1 DEF IsChunk
  <2> QED
    BY <2>1, <2>2, <2>3
<1>3. /\ h[0] = Append(x, n)
      /\ \A i \in 1..n : h[i] = SaveHConstantShim(Append(h[i - 1], live[i]),
                                                  ck.constants[live[i]], w)
  <2>1. LiveIds(ck) \in Seq(Int)
    BY <1>2
  <2> HIDE DEF x
  <2>2. h[0] = Append(x, n)
    BY <2>1, SaveLiveLoop
  <2>3. \A i \in 1..n : h[i] = SaveHConstantShim(Append(h[i - 1], live[i]),
                                                 ck.constants[live[i]], w)
    BY <2>1, SaveLiveLoop
  <2> QED
    BY <2>2, <2>3
<1>4. \A k : ConstantsStage(ck, w, k) = h[k]
  BY DEF ConstantsStage
<1> HIDE DEF h, n, live, x
<1>5. h[0] \in Seq(Int)
  BY <1>1, <1>2, <1>3, AddedOne
<1>6. ASSUME NEW i \in 1..n, h[i - 1] \in Seq(Int)
      PROVE  Ext(h[i - 1], h[i])
  <2> DEFINE a == Append(h[i - 1], live[i])
  <2>1. live[i] \in Int
    BY <1>2
  <2>2. Ext(h[i - 1], a) /\ a \in Seq(Int)
    BY <1>6, <2>1, AddedOne
  <2>3. h[i] = SaveHConstantShim(a, ck.constants[live[i]], w)
    BY <1>3
  <2> HIDE DEF a
  <2>4. Ext(a, h[i])
    BY <1>2, <2>2, <2>3, ConstantSaved
  <2> QED
    BY <2>2, <2>4, ExtTrans
<1>7. \A i \in 0..n : h[i] \in Seq(Int) /\ Ext(h[i], h[n])
  BY <1>2, <1>5, <1>6, Chain
<1>8. \A k \in 0..n : /\ ConstantsStage(ck, w, k) \in Seq(Int)
                      /\ Ext(ConstantsStage(ck, w, k), ConstantsStage(ck, w, n))
  BY <1>4, <1>7
<1>9. ConstantsStage(ck, w, 0) = Append(x, n)
  BY <1>3, <1>4
<1>10. ASSUME NEW k \in 1..n
       PROVE  ConstantsStage(ck, w, k) =
                SaveHConstantShim(Append(ConstantsStage(ck, w, k - 1), live[k]),
                                  ck.constants[live[k]], w)
  BY <1>3, <1>4
<1> QED
  BY <1>2, <1>8, <1>9, <1>10 DEF n, live, x

LEMMA ConstantsEndIs ==
  ASSUME NEW ck, NEW w, IsChunk(ck)
  PROVE  /\ ConstantsEnd(ck, w) \in Seq(Int)
         /\ ConstantsStage(ck, w, Len(LiveIds(ck))) \in Seq(Int)
         /\ Ext(ConstantsStage(ck, w, Len(LiveIds(ck))), ConstantsEnd(ck, w))
<1> DEFINE x == ConstantsStage(ck, w, Len(LiveIds(ck)))
<1>1. Len(LiveIds(ck)) \in 0..Len(LiveIds(ck))
  BY LiveIdsAre
<1>2. x \in Seq(Int)
  BY <1>1, ConstantsChain
<1>3. ConstantsEnd(ck, w) = Synchronize(x)
  BY DEF ConstantsEnd
<1> HIDE DEF x
<1> QED
  BY <1>2, <1>3, Synchronized DEF x

(* The loop of SaveInstructions. *)
LEMMA InstructionsChain ==
  ASSUME NEW ck, NEW w, IsChunk(ck)
  PROVE  /\ Len(ck.instructions) \in Nat
         /\ \A k \in 0..Len(ck.instructions) :
              /\ InstructionsStage(ck, w, k) \in Seq(Int)
              /\ Ext(InstructionsStage(ck, w, k),
                     InstructionsStage(ck, w, Len(ck.instructions)))
         /\ InstructionsStage(ck, w, 0) = Append(ConstantsEnd(ck, w), Len(ck.instructions))
         /\ \A k \in 1..Len(ck.instructions) :
              /\ InstructionsStage(ck, w, k) =
                   SaveInstruction(InstructionsStage(ck, w, k - 1), ck.instructions[k], w)
              /\ ck.instructions[k] \in Instructions
<1> DEFINE x == ConstantsEnd(ck, w)
           s == ck.instructions
           n == Len(s)
           h == SaveInstructions(x, ck, w)
<1>1. x \in Seq(Int)
  BY ConstantsEndIs
<1>2. ck.instructions \in Seq(Instructions) /\ n \in Nat /\ \A i \in 1..n : s[i] \in Instructions
  BY LenProperties, ElementOfSeq DEF IsChunk
<1>3. h[0] = Append(x, n) /\ \A i \in 1..n : h[i] = SaveInstruction(h[i - 1], s[i], w)
  <2> HIDE DEF x
  <2>2. h[0] = Append(x, n)
    BY <1>2, SaveInstructionsLoop
  <2>3. \A i \in 1..n : h[i] = SaveInstruction(h[i - 1], s[i], w)
    BY <1>2, SaveInstructionsLoop
  <2> QED
    BY <2>2, <2>3
<1>4. \A k : InstructionsStage(ck, w, k) = h[k]
  BY DEF InstructionsStage
<1> HIDE DEF h, n, s, x
<1>5. h[0] \in Seq(Int)
  BY <1>1, <1>2, <1>3, AddedOne
<1>6. ASSUME NEW i \in 1..n, h[i - 1] \in Seq(Int)
      PROVE  Ext(h[i - 1], h[i])
  BY <1>2, <1>3, <1>6, InstructionSaved
<1>7. \A i \in 0..n : h[i] \in Seq(Int) /\ Ext(h[i], h[n])
  BY <1>2, <1>5, <1>6, Chain
<1>8. \A k \in 0..n : /\ InstructionsStage(ck, w, k) \in Seq(Int)
                      /\ Ext(InstructionsStage(ck, w, k), InstructionsStage(ck, w, n))
  BY <1>4, <1>7
<1>9. InstructionsStage(ck, w, 0) = Append(x, n)
  BY <1>3, <1>4
<1>10. ASSUME NEW k \in 1..n
       PROVE  InstructionsStage(ck, w, k) =
                SaveInstruction(InstructionsStage(ck, w, k - 1), s[k], w)
  BY <1>3, <1>4
<1> QED
  BY <1>2, <1>8, <1>9, <1>10 DEF n, s, x

(* The loop that saves the inlined functions. *)
LEMMA InlinedChain ==
  ASSUME NEW ck, NEW w, IsChunk(ck)
  PROVE  /\ Len(ck.inlined) \in Nat
         /\ \A k \in 0..Len(ck.inlined) :
              /\ InlinedStage(ck, w, k) \in Seq(Int)
              /\ Ext(InlinedStage(ck, w, k), Save(ck, w))
         /\ InlinedStage(ck, w, 0) =
              Append(InstructionsStage(ck, w, Len(ck.instructions)), Len(ck.inlined))
         /\ \A k \in 1..Len(ck.inlined) :
              /\ InlinedStage(ck, w, k) =
                   SaveSharedFunctionInfo(InlinedStage(ck, w, k - 1), ck.inlined[k])
              /\ ck.inlined[k] \in Literal
<1> DEFINE x == InstructionsStage(ck, w, Len(ck.instructions))
           s == ck.inlined
           n == Len(s)
           h == SaveInlined(x, ck)
<1>1. x \in Seq(Int)
  <2>1. Len(ck.instructions) \in 0..Len(ck.instructions)
    BY InstructionsChain
  <2> QED
    BY <2>1, InstructionsChain
<1>2. ck.inlined \in Seq(Literal) /\ n \in Nat /\ \A i \in 1..n : s[i] \in Literal
  BY LenProperties, ElementOfSeq DEF IsChunk
<1>3. h[0] = Append(x, n) /\ \A i \in 1..n : h[i] = SaveSharedFunctionInfo(h[i - 1], s[i])
  <2> HIDE DEF x
  <2>2. h[0] = Append(x, n)
    BY <1>2, SaveInlinedLoop
  <2>3. \A i \in 1..n : h[i] = SaveSharedFunctionInfo(h[i - 1], s[i])
    BY <1>2, SaveInlinedLoop
  <2> QED
    BY <2>2, <2>3
<1>4. \A k : InlinedStage(ck, w, k) = h[k]
  BY DEF InlinedStage
<1>5. Save(ck, w) = h[n]
  BY <1>4, SaveIs
<1> HIDE DEF h, n, s, x
<1>6. h[0] \in Seq(Int)
  BY <1>1, <1>2, <1>3, AddedOne
<1>7. ASSUME NEW i \in 1..n, h[i - 1] \in Seq(Int)
      PROVE  Ext(h[i - 1], h[i])
  BY <1>2, <1>3, <1>7, InfoSaved
<1>8. \A i \in 0..n : h[i] \in Seq(Int) /\ Ext(h[i], h[n])
  BY <1>2, <1>6, <1>7, Chain
<1> QED
  BY <1>2, <1>3, <1>4, <1>5, <1>8 DEF n, s, x

(* Every stage is a part of the whole. *)
LEMMA Stages ==
  ASSUME NEW ck, NEW w, IsChunk(ck)
  PROVE  /\ Ext(BlocksStage(ck), Save(ck, w))
         /\ \A k \in 0..Len(LiveIds(ck)) : Ext(ConstantsStage(ck, w, k), Save(ck, w))
         /\ Ext(ConstantsEnd(ck, w), Save(ck, w))
         /\ \A k \in 0..Len(ck.instructions) : Ext(InstructionsStage(ck, w, k), Save(ck, w))
         /\ \A k \in 0..Len(ck.inlined) : Ext(InlinedStage(ck, w, k), Save(ck, w))
<1> DEFINE y == Save(ck, w)
           nC == Len(LiveIds(ck))
           nI == Len(ck.instructions)
           nL == Len(ck.inlined)
<1>1. nC \in Nat /\ nI \in Nat /\ nL \in Nat
  BY LiveIdsAre, InstructionsChain, InlinedChain
<1>2. 0 \in 0..nC /\ nC \in 0..nC /\ 0 \in 0..nI /\ nI \in 0..nI /\ 0 \in 0..nL
  BY <1>1
<1>3. \A k \in 0..nL : Ext(InlinedStage(ck, w, k), y)
  BY InlinedChain
<1>4. Ext(InstructionsStage(ck, w, nI), y)
  <2> DEFINE x == InstructionsStage(ck, w, nI)
  <2>1. x \in Seq(Int)
    BY <1>2, InstructionsChain
  <2>2. InlinedStage(ck, w, 0) = Append(x, nL)
    BY InlinedChain
  <2>3. Ext(InlinedStage(ck, w, 0), y)
    BY <1>2, <1>3
  <2> HIDE DEF x, nL, y
  <2>4. Ext(Append(x, nL), y)
    BY <2>2, <2>3
  <2>5. Ext(x, y)
    BY <1>1, <2>1, <2>4, AddedOneRead
  <2> QED
    BY <2>5 DEF x
<1>5. ASSUME NEW k \in 0..nI
      PROVE  Ext(InstructionsStage(ck, w, k), y)
  <2>1. Ext(InstructionsStage(ck, w, k), InstructionsStage(ck, w, nI))
    BY InstructionsChain
  <2> HIDE DEF y, nI
  <2> QED
    BY <1>4, <2>1, ExtTrans
<1>6. Ext(ConstantsEnd(ck, w), y)
  <2> DEFINE x == ConstantsEnd(ck, w)
  <2>1. x \in Seq(Int)
    BY ConstantsEndIs
  <2>2. InstructionsStage(ck, w, 0) = Append(x, nI)
    BY InstructionsChain
  <2>3. Ext(InstructionsStage(ck, w, 0), y)
    BY <1>2, <1>5
  <2> HIDE DEF x, nI, y
  <2>4. Ext(Append(x, nI), y)
    BY <2>2, <2>3
  <2>5. Ext(x, y)
    BY <1>1, <2>1, <2>4, AddedOneRead
  <2> QED
    BY <2>5 DEF x
<1>7. Ext(ConstantsStage(ck, w, nC), y)
  <2>1. Ext(ConstantsStage(ck, w, nC), ConstantsEnd(ck, w))
    BY ConstantsEndIs
  <2> HIDE DEF y, nC
  <2> QED
    BY <1>6, <2>1, ExtTrans
<1>8. ASSUME NEW k \in 0..nC
      PROVE  Ext(ConstantsStage(ck, w, k), y)
  <2>1. Ext(ConstantsStage(ck, w, k), ConstantsStage(ck, w, nC))
    BY ConstantsChain
  <2> HIDE DEF y, nC
  <2> QED
    BY <1>7, <2>1, ExtTrans
<1>9. Ext(BlocksStage(ck), y)
  <2> DEFINE x == BlocksStage(ck)
  <2>1. x \in Seq(Int)
    BY BlocksStageIs
  <2>2. ConstantsStage(ck, w, 0) = Append(x, nC)
    BY ConstantsChain
  <2>3. Ext(ConstantsStage(ck, w, 0), y)
    BY <1>2, <1>8
  <2> HIDE DEF x, nC, y
  <2>4. Ext(Append(x, nC), y)
    BY <2>2, <2>3
  <2>5. Ext(x, y)
    BY <1>1, <2>1, <2>4, AddedOneRead
  <2> QED
    BY <2>5 DEF x
<1> QED
  BY <1>3, <1>5, <1>6, <1>8, <1>9

-----------------------------------------------------------------------------
(* What the loader finds behind each stage of a saved chunk. *)

LEMMA HeaderLoad ==
  ASSUME NEW ck, NEW w, IsChunk(ck), NEW b, b = Save(ck, w),
         NEW blocks, blocks = LoadBasicBlocks(b, 3)
  PROVE  /\ At(b, 1) = ck.spill_slot_count /\ IsSynchronized(b, 2)
         /\ blocks.value = ck.blocks /\ IsSynchronized(b, blocks.pos)
         /\ At(b, blocks.pos + 1) = Len(LiveIds(ck))
         /\ blocks.pos + 2 = Len(ConstantsStage(ck, w, 0)) + 1
<1> DEFINE h == HeaderStage(ck)
           a == AfterBlocks(h, ck.blocks)
           y == BlocksStage(ck)
           n == Len(LiveIds(ck))
           c == ConstantsStage(ck, w, 0)
<1>1. /\ h \in Seq(Int) /\ Len(h) = 2 /\ h[1] = ck.spill_slot_count /\ h[2] = 1
  BY HeaderIs DEF IsChunk
<1>2. y \in Seq(Int) /\ a \in Seq(Int) /\ y = Synchronize(a) /\ Ext(h, a)
  BY BlocksStageIs
<1>3. n \in Nat /\ n \in Int
  BY LiveIdsAre
<1>4. c = Append(y, n)
  BY ConstantsChain
<1>5. Ext(c, b)
  <2>1. 0 \in 0..Len(LiveIds(ck))
    BY <1>3
  <2> QED
    BY <2>1, Stages
<1>6. ck.blocks \in Seq(Blocks) /\ (ck.blocks # <<>> => ck.blocks[1].ast_id = 0)
  BY DEF IsChunk
<1>7. a = AfterBlocks(h, ck.blocks)
  OBVIOUS
<1> HIDE DEF h, a, y, n, c
<1>8. Ext(y, b) /\ At(b, Len(y) + 1) = n /\ Len(c) = Len(y) + 1 /\ Len(y) \in Nat
  BY <1>2, <1>3, <1>4, <1>5, AddedOneRead, AddedOne
<1>9. Ext(a, b) /\ IsSynchronized(b, Len(a) + 1) /\ Len(y) = Len(a) + 1 /\ Len(a) \in Nat
  BY <1>2, <1>8, SynchronizeRead, Synchronized
<1>10. Ext(h, b)
  BY <1>2, <1>9, ExtTrans
<1>11. At(b, 1) = h[1] /\ At(b, 2) = h[2]
  <2>1. 1 \in 1..Len(h) /\ 2 \in 1..Len(h)
    BY <1>1
  <2> QED
    BY <1>10, <2>1, ReadBack
<1>12. IsSynchronized(b, 2)
  BY <1>1, <1>11 DEF IsSynchronized
<1>13. /\ LoadBasicBlocks(b, Len(h) + 1).pos = Len(a) + 1
       /\ LoadBasicBlocks(b, Len(h) + 1).value = ck.blocks
  BY <1>1, <1>6, <1>7, <1>9, BlocksLoad
<1>14. blocks.pos = Len(a) + 1 /\ blocks.value = ck.blocks
  <2>1. Len(h) + 1 = 3
    BY <1>1
  <2> QED
    BY <1>13, <2>1
<1>15. /\ At(b, blocks.pos + 1) = n
       /\ blocks.pos + 2 = Len(c) + 1
       /\ IsSynchronized(b, blocks.pos)
  <2>1. blocks.pos + 1 = Len(y) + 1 /\ blocks.pos + 2 = Len(c) + 1
    BY <1>8, <1>9, <1>14
  <2> QED
    BY <1>8, <1>9, <1>14, <2>1
<1> QED
  BY <1>1, <1>11, <1>12, <1>14, <1>15 DEF n, c

(* The world of a saver that can save the chunk and a loader of it. *)
Loadable(ck, w, v) == IsChunk(ck) /\ Pair(w, v) /\ CanSave(ck, w)

LEMMA ConstantStageLoad ==
  ASSUME NEW ck, NEW w, NEW v, Loadable(ck, w, v), NEW b, b = Save(ck, w),
         NEW k \in 1..Len(LiveIds(ck)),
         NEW pos, pos = Len(ConstantsStage(ck, w, k - 1)) + 1
  PROVE  /\ ConstantLoads(LoadHConstantShim(b, pos, v), ck.constants[LiveIds(ck)[k]], v,
                          Len(ConstantsStage(ck, w, k)) + 1)
         /\ At(b, pos) = LiveIds(ck)[k]
         /\ LiveIds(ck)[k] \in LiveConstants(ck)
<1> DEFINE x == ConstantsStage(ck, w, k - 1)
           id == LiveIds(ck)[k]
           constant == ck.constants[id]
           y == ConstantsStage(ck, w, k)
<1>0. IsChunk(ck) /\ Pair(w, v) /\ CanSave(ck, w)
  BY DEF Loadable
<1>1. Len(LiveIds(ck)) \in Nat /\ id \in LiveConstants(ck)
  BY LiveIdsAre
<1>2. k - 1 \in 0..Len(LiveIds(ck)) /\ k \in 0..Len(LiveIds(ck))
  BY <1>1
<1>3. /\ y = SaveHConstantShim(Append(x, id), constant, w)
      /\ constant \in Constants /\ id \in Int
  BY <1>0, ConstantsChain
<1>4. x \in Seq(Int) /\ Ext(y, b)
  BY <1>0, <1>2, ConstantsChain, Stages
<1>5. constant.type = kOther => IsSaveable(constant.value, w)
  <2> SUFFICES ASSUME constant.type = kOther PROVE IsSaveable(constant.value, w)
    OBVIOUS
  <2> HIDE DEF id
  <2>1. constant.value \in ConstantFunctions(ck)
    BY <1>1 DEF ConstantFunctions
  <2> QED
    BY <1>0, <2>1 DEF CanSave
<1> HIDE DEF x, y, id, constant
<1>6. Ext(SaveHConstantShim(Append(x, id), constant, w), b)
  BY <1>3, <1>4
<1>7. /\ ConstantLoads(LoadHConstantShim(b, Len(x) + 1, v), constant, v,
                       Len(SaveHConstantShim(Append(x, id), constant, w)) + 1)
      /\ At(b, Len(x) + 1) = id
  BY <1>0, <1>3, <1>4, <1>5, <1>6, ConstantLoad
<1> QED
  BY <1>1, <1>3, <1>7 DEF x, y, id, constant

LEMMA ConstantsEndLoad ==
  ASSUME NEW ck, NEW w, IsChunk(ck), NEW b, b = Save(ck, w),
         NEW pos, pos = Len(ConstantsStage(ck, w, Len(LiveIds(ck)))) + 1
  PROVE  /\ IsSynchronized(b, pos) /\ At(b, pos + 1) = Len(ck.instructions)
         /\ pos + 2 = Len(InstructionsStage(ck, w, 0)) + 1
<1> DEFINE x == ConstantsStage(ck, w, Len(LiveIds(ck)))
           y == ConstantsEnd(ck, w)
           n == Len(ck.instructions)
           c == InstructionsStage(ck, w, 0)
<1>1. x \in Seq(Int) /\ y \in Seq(Int)
  BY ConstantsEndIs
<1>2. y = Synchronize(x)
  BY DEF ConstantsEnd
<1>3. n \in Nat /\ n \in Int /\ c = Append(y, n)
  BY InstructionsChain
<1>4. Ext(c, b)
  <2>1. 0 \in 0..Len(ck.instructions)
    BY <1>3
  <2> QED
    BY <2>1, Stages
<1> HIDE DEF x, y, n, c
<1>5. Ext(y, b) /\ At(b, Len(y) + 1) = n /\ Len(c) = Len(y) + 1
  BY <1>1, <1>3, <1>4, AddedOneRead, AddedOne
<1>6. IsSynchronized(b, Len(x) + 1) /\ Len(y) = Len(x) + 1 /\ Len(x) \in Nat
  BY <1>1, <1>2, <1>5, SynchronizeRead, Synchronized
<1>7. pos = Len(x) + 1 /\ pos + 1 = Len(y) + 1 /\ pos + 2 = Len(c) + 1
  BY <1>5, <1>6 DEF x
<1> QED
  BY <1>5, <1>6, <1>7 DEF n, c

LEMMA InstructionStageLoad ==
  ASSUME NEW ck, NEW w, NEW v, Loadable(ck, w, v), NEW b, b = Save(ck, w),
         NEW k \in 1..Len(ck.instructions),
         NEW pos, pos = Len(InstructionsStage(ck, w, k - 1)) + 1
  PROVE  InstructionLoads(LoadInstruction(b, pos, v), ck.instructions[k], v,
                          Len(InstructionsStage(ck, w, k)) + 1)
<1> DEFINE x == InstructionsStage(ck, w, k - 1)
           instr == ck.instructions[k]
           y == InstructionsStage(ck, w, k)
           n == Len(ck.instructions)
<1>0. IsChunk(ck) /\ Pair(w, v) /\ CanSave(ck, w)
  BY DEF Loadable
<1>1. n \in Nat /\ k - 1 \in 0..n /\ k \in 0..n
  BY <1>0, InstructionsChain
<1>2. y = SaveInstruction(x, instr, w) /\ instr \in Instructions
  BY <1>0, InstructionsChain
<1>3. x \in Seq(Int) /\ Ext(y, b)
  BY <1>0, <1>1, InstructionsChain, Stages
<1>4. instr.opcode = InstanceOfKnownGlobal <=> instr.deferred # <<>>
  BY <1>0 DEF IsChunk
<1>5. instr \in ToSet(ck.instructions)
  <2>1. DOMAIN ck.instructions = 1..n
    BY <1>0, LenProperties DEF IsChunk
  <2> QED
    BY <2>1 DEF ToSet
<1> HIDE DEF x, y, instr
<1>6. ASSUME NEW fn \in Literal, Refers(instr, fn)
      PROVE  Saveable(fn, w)
  <2>1. fn \in EnvironmentFunctions(instr.env) \cup EnvironmentFunctions(instr.deferred)
    BY <1>6 DEF Refers, EnvironmentFunctions
  <2>2. fn \in FrameFunctions(ck)
    BY <1>5, <2>1 DEF FrameFunctions
  <2> QED
    BY <1>0, <2>2 DEF CanSave, Saveable
<1>7. Ext(SaveInstruction(x, instr, w), b)
  BY <1>2, <1>3
<1>8. InstructionLoads(LoadInstruction(b, Len(x) + 1, v), instr, v,
                       Len(SaveInstruction(x, instr, w)) + 1)
  BY <1>0, <1>2, <1>3, <1>4, <1>6, <1>7, InstructionLoad
<1> QED
  BY <1>2, <1>8 DEF x, y, instr

LEMMA InstructionsEndLoad ==
  ASSUME NEW ck, NEW w, IsChunk(ck), NEW b, b = Save(ck, w),
         NEW pos, pos = Len(InstructionsStage(ck, w, Len(ck.instructions))) + 1
  PROVE  At(b, pos) = Len(ck.inlined) /\ pos + 1 = Len(InlinedStage(ck, w, 0)) + 1
<1> DEFINE x == InstructionsStage(ck, w, Len(ck.instructions))
           n == Len(ck.inlined)
           c == InlinedStage(ck, w, 0)
<1>1. x \in Seq(Int)
  <2>1. Len(ck.instructions) \in 0..Len(ck.instructions)
    BY InstructionsChain
  <2> QED
    BY <2>1, InstructionsChain
<1>2. n \in Nat /\ n \in Int /\ c = Append(x, n)
  BY InlinedChain
<1>3. Ext(c, b)
  <2>1. 0 \in 0..Len(ck.inlined)
    BY <1>2
  <2> QED
    BY <2>1, Stages
<1> HIDE DEF x, n, c
<1>4. At(b, Len(x) + 1) = n /\ Len(c) = Len(x) + 1 /\ Len(x) \in Nat
  BY <1>1, <1>2, <1>3, AddedOneRead, AddedOne
<1> QED
  BY <1>4 DEF x, n, c

LEMMA InlinedStageLoad ==
  ASSUME NEW ck, NEW w, NEW v, IsChunk(ck), NEW b, b = Save(ck, w),
         NEW k \in 1..Len(ck.inlined),
         NEW pos, pos = Len(InlinedStage(ck, w, k - 1)) + 1,
         LoadSharedFunctionInfo(b, pos, v).ok
  PROVE  /\ LoadSharedFunctionInfo(b, pos, v).pos = Len(InlinedStage(ck, w, k)) + 1
         /\ LoadSharedFunctionInfo(b, pos, v).value = ck.inlined[k]
         /\ ck.inlined[k] \in Literal
<1> DEFINE x == InlinedStage(ck, w, k - 1)
           l == ck.inlined[k]
           y == InlinedStage(ck, w, k)
           n == Len(ck.inlined)
<1>1. n \in Nat /\ k - 1 \in 0..n /\ k \in 0..n
  BY InlinedChain
<1>2. y = SaveSharedFunctionInfo(x, l) /\ l \in Literal
  BY InlinedChain
<1>3. x \in Seq(Int) /\ Ext(y, b)
  BY <1>1, InlinedChain
<1>4. pos = Len(x) + 1
  OBVIOUS
<1> HIDE DEF x, y, l
<1>5. Ext(SaveSharedFunctionInfo(x, l), b) /\ LoadSharedFunctionInfo(b, Len(x) + 1, v).ok
  BY <1>2, <1>3, <1>4
<1>6. /\ LoadSharedFunctionInfo(b, Len(x) + 1, v).pos = Len(SaveSharedFunctionInfo(x, l)) + 1
      /\ LoadSharedFunctionInfo(b, Len(x) + 1, v).value = l
  BY <1>2, <1>3, <1>5, InfoLoad
<1> QED
  BY <1>2, <1>4, <1>6 DEF x, y, l

-----------------------------------------------------------------------------
(* The loader: how far it has come in the block of a chunk. *)

IsLoader(l) ==
  l = [step |-> l.step, owner |-> l.owner, pos |-> l.pos, left |-> l.left,
       chunk |-> l.chunk]

IsPart(c) ==
  c = [owner |-> c.owner, spill_slot_count |-> c.spill_slot_count,
       blocks |-> c.blocks, constants |-> c.constants,
       instructions |-> c.instructions, inlined |-> c.inlined]

(* The constants, instructions and inlined functions after k turns. *)
ConstantsLoaded(c, ck, k) ==
  /\ DOMAIN c = {LiveIds(ck)[j] : j \in 1..k}
  /\ \A id \in DOMAIN c : SameConstant(ck.constants[id], c[id])

InstructionsLoaded(s, ck, k) ==
  /\ s \in Seq(Instructions) /\ Len(s) = k
  /\ \A j \in 1..k : SameInstruction(ck.instructions[j], s[j])

InlinedLoaded(s, ck, k) ==
  /\ s \in Seq(Literal) /\ Len(s) = k
  /\ \A j \in 1..k : s[j] = ck.inlined[j]

AtConstant(l, ck, w, k) ==
  /\ l.pos = Len(ConstantsStage(ck, w, k)) + 1
  /\ l.left = Len(LiveIds(ck)) - k
  /\ ConstantsLoaded(l.chunk.constants, ck, k)
  /\ l.chunk.instructions = <<>> /\ l.chunk.inlined = <<>>

AtInstruction(l, ck, w, k) ==
  /\ l.pos = Len(InstructionsStage(ck, w, k)) + 1
  /\ l.left = Len(ck.instructions) - k
  /\ ConstantsLoaded(l.chunk.constants, ck, Len(LiveIds(ck)))
  /\ InstructionsLoaded(l.chunk.instructions, ck, k)
  /\ l.chunk.inlined = <<>>

AtInlined(l, ck, w, k) ==
  /\ l.pos = Len(InlinedStage(ck, w, k)) + 1
  /\ l.left = Len(ck.inlined) - k
  /\ ConstantsLoaded(l.chunk.constants, ck, Len(LiveIds(ck)))
  /\ InstructionsLoaded(l.chunk.instructions, ck, Len(ck.instructions))
  /\ InlinedLoaded(l.chunk.inlined, ck, k)

Complete(l, ck) ==
  /\ ConstantsLoaded(l.chunk.constants, ck, Len(LiveIds(ck)))
  /\ InstructionsLoaded(l.chunk.instructions, ck, Len(ck.instructions))
  /\ InlinedLoaded(l.chunk.inlined, ck, Len(ck.inlined))

AtWork == {"constants", "instructions", "inlined", "loaded"}

Progress(l, ck, w) ==
  /\ IsLoader(l) /\ IsPart(l.chunk) /\ l.step \in AtWork
  /\ l.chunk.spill_slot_count = ck.spill_slot_count
  /\ l.chunk.blocks = ck.blocks
  /\ l.step = "constants" => \E k \in 0..Len(LiveIds(ck)) : AtConstant(l, ck, w, k)
  /\ l.step = "instructions" =>
       \E k \in 0..Len(ck.instructions) : AtInstruction(l, ck, w, k)
  /\ l.step = "inlined" => \E k \in 0..Len(ck.inlined) : AtInlined(l, ck, w, k)
  /\ l.step = "loaded" => Complete(l, ck)

LEMMA LoaderFields ==
  ASSUME NEW s, NEW o, NEW p, NEW n, NEW c, NEW r,
         r = [step |-> s, owner |-> o, pos |-> p, left |-> n, chunk |-> c]
  PROVE  r.step = s /\ r.owner = o /\ r.pos = p /\ r.left = n /\ r.chunk = c
OBVIOUS

(* r is l after a turn, with the chunk that far. *)
Turned(r, l, p, n, constants, instructions, inlined) ==
  /\ IsLoader(r) /\ IsPart(r.chunk)
  /\ r.step = l.step /\ r.owner = l.owner /\ r.pos = p /\ r.left = n
  /\ r.chunk.spill_slot_count = l.chunk.spill_slot_count
  /\ r.chunk.blocks = l.chunk.blocks
  /\ r.chunk.constants = constants
  /\ r.chunk.instructions = instructions
  /\ r.chunk.inlined = inlined

(* The turns of the loops of the loader, field by field. *)
LEMMA RecordConstant ==
  ASSUME NEW l, IsLoader(l), NEW p, NEW n, NEW x, NEW r,
         r = [l EXCEPT !.pos = p, !.left = n, !.chunk.constants = x]
  PROVE  r = [step |-> l.step, owner |-> l.owner, pos |-> p, left |-> n,
              chunk |-> [l.chunk EXCEPT !.constants = x]]
BY DEF IsLoader

LEMMA FieldsConstant ==
  ASSUME NEW l, IsPart(l.chunk), NEW p, NEW n, NEW x, NEW r,
         r = [step |-> l.step, owner |-> l.owner, pos |-> p, left |-> n,
              chunk |-> [l.chunk EXCEPT !.constants = x]]
  PROVE  Turned(r, l, p, n, x, l.chunk.instructions, l.chunk.inlined)
<1> DEFINE c == l.chunk
           d == [c EXCEPT !.constants = x]
<1>1. /\ IsPart(d) /\ d.spill_slot_count = c.spill_slot_count /\ d.blocks = c.blocks
      /\ d.constants = x /\ d.instructions = c.instructions /\ d.inlined = c.inlined
  <2> HIDE DEF c
  <2>1. IsPart(c)
    BY DEF c
  <2> QED
    BY <2>1 DEF IsPart
<1>2. r = [step |-> l.step, owner |-> l.owner, pos |-> p, left |-> n, chunk |-> d]
  OBVIOUS
<1> HIDE DEF d
<1>3. /\ r.step = l.step /\ r.owner = l.owner /\ r.pos = p /\ r.left = n /\ r.chunk = d
  BY <1>2, LoaderFields
<1>4. IsLoader(r)
  BY <1>2, <1>3 DEF IsLoader
<1> QED
  BY <1>1, <1>3, <1>4 DEF Turned

LEMMA TurnConstant ==
  ASSUME NEW l, IsLoader(l), IsPart(l.chunk), NEW p, NEW n, NEW x, NEW r,
         r = [l EXCEPT !.pos = p, !.left = n, !.chunk.constants = x]
  PROVE  Turned(r, l, p, n, x, l.chunk.instructions, l.chunk.inlined)
<1>1. r = [step |-> l.step, owner |-> l.owner, pos |-> p, left |-> n,
           chunk |-> [l.chunk EXCEPT !.constants = x]]
  BY RecordConstant
<1> QED
  BY <1>1, FieldsConstant

LEMMA RecordInstruction ==
  ASSUME NEW l, IsLoader(l), NEW p, NEW n, NEW x, NEW r,
         r = [l EXCEPT !.pos = p, !.left = n, !.chunk.instructions = x]
  PROVE  r = [step |-> l.step, owner |-> l.owner, pos |-> p, left |-> n,
              chunk |-> [l.chunk EXCEPT !.instructions = x]]
BY DEF IsLoader

LEMMA FieldsInstruction ==
  ASSUME NEW l, IsPart(l.chunk), NEW p, NEW n, NEW x, NEW r,
         r = [step |-> l.step, owner |-> l.owner, pos |-> p, left |-> n,
              chunk |-> [l.chunk EXCEPT !.instructions = x]]
  PROVE  Turned(r, l, p, n, l.chunk.constants, x, l.chunk.inlined)
<1> DEFINE c == l.chunk
           d == [c EXCEPT !.instructions = x]
<1>1. /\ IsPart(d) /\ d.spill_slot_count = c.spill_slot_count /\ d.blocks = c.blocks
      /\ d.constants = c.constants /\ d.instructions = x /\ d.inlined = c.inlined
  <2> HIDE DEF c
  <2>1. IsPart(c)
    BY DEF c
  <2> QED
    BY <2>1 DEF IsPart
<1>2. r = [step |-> l.step, owner |-> l.owner, pos |-> p, left |-> n, chunk |-> d]
  OBVIOUS
<1> HIDE DEF d
<1>3. /\ r.step = l.step /\ r.owner = l.owner /\ r.pos = p /\ r.left = n /\ r.chunk = d
  BY <1>2, LoaderFields
<1>4. IsLoader(r)
  BY <1>2, <1>3 DEF IsLoader
<1> QED
  BY <1>1, <1>3, <1>4 DEF Turned

LEMMA TurnInstruction ==
  ASSUME NEW l, IsLoader(l), IsPart(l.chunk), NEW p, NEW n, NEW x, NEW r,
         r = [l EXCEPT !.pos = p, !.left = n, !.chunk.instructions = x]
  PROVE  Turned(r, l, p, n, l.chunk.constants, x, l.chunk.inlined)
<1>1. r = [step |-> l.step, owner |-> l.owner, pos |-> p, left |-> n,
           chunk |-> [l.chunk EXCEPT !.instructions = x]]
  BY RecordInstruction
<1> QED
  BY <1>1, FieldsInstruction

LEMMA RecordInlined ==
  ASSUME NEW l, IsLoader(l), NEW p, NEW n, NEW x, NEW r,
         r = [l EXCEPT !.pos = p, !.left = n, !.chunk.inlined = x]
  PROVE  r = [step |-> l.step, owner |-> l.owner, pos |-> p, left |-> n,
              chunk |-> [l.chunk EXCEPT !.inlined = x]]
BY DEF IsLoader

LEMMA FieldsInlined ==
  ASSUME NEW l, IsPart(l.chunk), NEW p, NEW n, NEW x, NEW r,
         r = [step |-> l.step, owner |-> l.owner, pos |-> p, left |-> n,
              chunk |-> [l.chunk EXCEPT !.inlined = x]]
  PROVE  Turned(r, l, p, n, l.chunk.constants, l.chunk.instructions, x)
<1> DEFINE c == l.chunk
           d == [c EXCEPT !.inlined = x]
<1>1. /\ IsPart(d) /\ d.spill_slot_count = c.spill_slot_count /\ d.blocks = c.blocks
      /\ d.constants = c.constants /\ d.instructions = c.instructions /\ d.inlined = x
  <2> HIDE DEF c
  <2>1. IsPart(c)
    BY DEF c
  <2> QED
    BY <2>1 DEF IsPart
<1>2. r = [step |-> l.step, owner |-> l.owner, pos |-> p, left |-> n, chunk |-> d]
  OBVIOUS
<1> HIDE DEF d
<1>3. /\ r.step = l.step /\ r.owner = l.owner /\ r.pos = p /\ r.left = n /\ r.chunk = d
  BY <1>2, LoaderFields
<1>4. IsLoader(r)
  BY <1>2, <1>3 DEF IsLoader
<1> QED
  BY <1>1, <1>3, <1>4 DEF Turned

LEMMA TurnInlined ==
  ASSUME NEW l, IsLoader(l), IsPart(l.chunk), NEW p, NEW n, NEW x, NEW r,
         r = [l EXCEPT !.pos = p, !.left = n, !.chunk.inlined = x]
  PROVE  Turned(r, l, p, n, l.chunk.constants, l.chunk.instructions, x)
<1>1. r = [step |-> l.step, owner |-> l.owner, pos |-> p, left |-> n,
           chunk |-> [l.chunk EXCEPT !.inlined = x]]
  BY RecordInlined
<1> QED
  BY <1>1, FieldsInlined

(* The end of a loop. *)
Ends(r, l, s, p, n) == r = [l EXCEPT !.step = s, !.pos = p, !.left = n]

Ended(r, l, s, p, n) ==
  /\ IsLoader(r) /\ r.step = s /\ r.owner = l.owner /\ r.pos = p /\ r.left = n
  /\ r.chunk = l.chunk

LEMMA TurnEnd ==
  ASSUME NEW l, IsLoader(l), NEW s, NEW p, NEW n, NEW r, Ends(r, l, s, p, n)
  PROVE  Ended(r, l, s, p, n)
<1>1. r = [step |-> s, owner |-> l.owner, pos |-> p, left |-> n, chunk |-> l.chunk]
  BY DEF IsLoader, Ends
<1> QED
  BY <1>1 DEF IsLoader, Ended

LEMMA TurnStep ==
  ASSUME NEW l, IsLoader(l), NEW s, NEW r, r = [l EXCEPT !.step = s]
  PROVE  /\ IsLoader(r) /\ r.step = s /\ r.owner = l.owner /\ r.pos = l.pos
         /\ r.left = l.left /\ r.chunk = l.chunk
<1>1. r = [step |-> s, owner |-> l.owner, pos |-> l.pos, left |-> l.left, chunk |-> l.chunk]
  BY DEF IsLoader
<1> QED
  BY <1>1 DEF IsLoader

-----------------------------------------------------------------------------
(* The loader goes on: each of its steps reads what the saver wrote at the   *)
(* same turn.                                                                *)

Put(x, c, id, y) == x = [i \in DOMAIN c \cup {id} |-> IF i = id THEN y ELSE c[i]]

LEMMA ConstantsGrow ==
  ASSUME NEW ck, NEW c, NEW k \in 1..Len(LiveIds(ck)), ConstantsLoaded(c, ck, k - 1),
         NEW id, id = LiveIds(ck)[k], NEW y, SameConstant(ck.constants[id], y),
         NEW x, Put(x, c, id, y)
  PROVE  ConstantsLoaded(x, ck, k)
<1> USE DEF Put
<1>0. Len(LiveIds(ck)) \in Nat /\ k \in Nat
  BY LiveIdsAre
<1>1. DOMAIN c = {LiveIds(ck)[j] : j \in 1 .. k - 1}
  BY DEF ConstantsLoaded
<1>2. \A j : j \in 1..k <=> (j \in 1 .. k - 1 \/ j = k)
  BY <1>0
<1>3. DOMAIN x = {LiveIds(ck)[j] : j \in 1..k}
  BY <1>1, <1>2
<1>4. ASSUME NEW i \in DOMAIN x
      PROVE  SameConstant(ck.constants[i], x[i])
  <2>1. CASE i = id
    BY <2>1
  <2>2. CASE i # id
    <3>1. i \in DOMAIN c /\ x[i] = c[i]
      BY <2>2
    <3> QED
      BY <3>1 DEF ConstantsLoaded
  <2> QED
    BY <2>1, <2>2
<1> QED
  BY <1>3, <1>4 DEF ConstantsLoaded

LEMMA ConstantProgress ==
  ASSUME NEW ck, NEW w, NEW v, Loadable(ck, w, v), NEW b, b = Save(ck, w),
         NEW l, Progress(l, ck, w), l.step = "constants", l.left > 0,
         NEW c, c = LoadHConstantShim(b, l.pos, v), NEW id, id = At(b, l.pos),
         NEW x, Put(x, l.chunk.constants, id, c.value),
         NEW r, Turned(r, l, c.pos, l.left - 1, x, l.chunk.instructions, l.chunk.inlined)
  PROVE  /\ IsStatus(c)
         /\ c.ok => ~c.fatal /\ Progress(r, ck, w)
         /\ c.ok \/ c.fatal \/ \E fn \in FunctionsOf(ck) : Missing(fn, v)
<1> DEFINE n == Len(LiveIds(ck))
<1>1. n \in Nat
  BY LiveIdsAre
<1>2. PICK k0 \in 0..n : AtConstant(l, ck, w, k0)
  BY DEF Progress
<1>3. l.left = n - k0 /\ l.pos = Len(ConstantsStage(ck, w, k0)) + 1
      /\ ConstantsLoaded(l.chunk.constants, ck, k0)
  BY <1>2 DEF AtConstant
<1> DEFINE k == k0 + 1
<1>4. k \in 1..n /\ k - 1 = k0 /\ l.left - 1 = n - k /\ k \in 0..n
  BY <1>1, <1>3
<1> HIDE DEF k, n
<1>5. l.pos = Len(ConstantsStage(ck, w, k - 1)) + 1 /\ k \in 1..Len(LiveIds(ck))
  BY <1>3, <1>4 DEF n
<1>6. /\ ConstantLoads(c, ck.constants[LiveIds(ck)[k]], v,
                       Len(ConstantsStage(ck, w, k)) + 1)
      /\ id = LiveIds(ck)[k] /\ id \in LiveConstants(ck)
  BY <1>5, ConstantStageLoad
<1>7. /\ IsStatus(c)
      /\ c.ok => /\ ~c.fatal /\ c.pos = Len(ConstantsStage(ck, w, k)) + 1
                 /\ SameConstant(ck.constants[id], c.value)
      /\ \/ c.ok \/ c.fatal
         \/ ck.constants[id].type = kOther /\ Missing(ck.constants[id].value, v)
  BY <1>6 DEF ConstantLoads
<1>8. ASSUME c.ok
      PROVE  Progress(r, ck, w)
  <2>1. /\ IsLoader(r) /\ IsPart(r.chunk)
        /\ r.step = l.step /\ r.pos = c.pos /\ r.left = l.left - 1
        /\ r.chunk.spill_slot_count = l.chunk.spill_slot_count
        /\ r.chunk.blocks = l.chunk.blocks /\ r.chunk.constants = x
        /\ r.chunk.instructions = l.chunk.instructions
        /\ r.chunk.inlined = l.chunk.inlined
    BY DEF Turned
  <2>2. ConstantsLoaded(x, ck, k)
    <3> DEFINE m == l.chunk.constants
               y == c.value
    <3>1. /\ ConstantsLoaded(m, ck, k - 1) /\ SameConstant(ck.constants[id], y)
          /\ Put(x, m, id, y)
      BY <1>3, <1>4, <1>7, <1>8
    <3> HIDE DEF m, y
    <3> QED
      BY <1>5, <1>6, <3>1, ConstantsGrow
  <2>3. AtConstant(r, ck, w, k)
    BY <1>2, <1>4, <1>7, <1>8, <2>1, <2>2 DEF AtConstant, n
  <2>4. k \in 0..Len(LiveIds(ck))
    BY <1>4 DEF n
  <2> QED
    BY <2>1, <2>3, <2>4 DEF Progress
<1>9. c.ok \/ c.fatal \/ \E fn \in FunctionsOf(ck) : Missing(fn, v)
  <2> SUFFICES ASSUME ck.constants[id].type = kOther, Missing(ck.constants[id].value, v)
               PROVE  \E fn \in FunctionsOf(ck) : Missing(fn, v)
    BY <1>7
  <2>1. ck.constants[id].value \in ConstantFunctions(ck)
    BY <1>6 DEF ConstantFunctions
  <2> QED
    BY <2>1 DEF FunctionsOf
<1> QED
  BY <1>7, <1>8, <1>9

LEMMA ConstantsEndProgress ==
  ASSUME NEW ck, NEW w, IsChunk(ck), NEW b, b = Save(ck, w),
         NEW l, Progress(l, ck, w), l.step = "constants", l.left = 0,
         NEW r, IsLoader(r), r.step = "instructions", r.pos = l.pos + 2,
         r.left = At(b, l.pos + 1), r.chunk = l.chunk
  PROVE  IsSynchronized(b, l.pos) /\ Progress(r, ck, w)
<1> DEFINE n == Len(LiveIds(ck))
<1>1. n \in Nat /\ Len(ck.instructions) \in Nat
  BY LiveIdsAre, InstructionsChain
<1>2. PICK k \in 0..n : AtConstant(l, ck, w, k)
  BY DEF Progress
<1>3. k = n
  BY <1>1, <1>2 DEF AtConstant
<1>4. /\ l.pos = Len(ConstantsStage(ck, w, n)) + 1
      /\ ConstantsLoaded(l.chunk.constants, ck, n)
      /\ l.chunk.instructions = <<>> /\ l.chunk.inlined = <<>>
  BY <1>2, <1>3 DEF AtConstant
<1>5. /\ IsSynchronized(b, l.pos) /\ At(b, l.pos + 1) = Len(ck.instructions)
      /\ l.pos + 2 = Len(InstructionsStage(ck, w, 0)) + 1
  BY <1>4, ConstantsEndLoad
<1>6. InstructionsLoaded(<<>>, ck, 0)
  BY EmptySeq DEF InstructionsLoaded
<1>7. AtInstruction(r, ck, w, 0) /\ 0 \in 0..Len(ck.instructions)
  BY <1>1, <1>4, <1>5, <1>6 DEF AtInstruction
<1>8. r.step \in AtWork /\ r.step # "constants" /\ r.step # "inlined" /\ r.step # "loaded"
  BY DEF AtWork
<1> QED
  BY <1>5, <1>7, <1>8 DEF Progress

LEMMA SeqGrow ==
  ASSUME NEW T, NEW s \in Seq(T), NEW y \in T, NEW n \in Nat, Len(s) = n
  PROVE  /\ Append(s, y) \in Seq(T) /\ Len(Append(s, y)) = n + 1
         /\ \A j \in 1..n : Append(s, y)[j] = s[j]
         /\ Append(s, y)[n + 1] = y
         /\ \A j \in 1 .. n + 1 : j \in 1..n \/ j = n + 1
<1>1. /\ Append(s, y) \in Seq(T) /\ Len(Append(s, y)) = Len(s) + 1
      /\ \A j \in 1..Len(s) : Append(s, y)[j] = s[j]
      /\ Append(s, y)[Len(s) + 1] = y
  BY AppendProperties
<1> QED
  BY <1>1

LEMMA InstructionProgress ==
  ASSUME NEW ck, NEW w, NEW v, Loadable(ck, w, v), NEW b, b = Save(ck, w),
         NEW l, Progress(l, ck, w), l.step = "instructions", l.left > 0,
         NEW i, i = LoadInstruction(b, l.pos, v),
         NEW x, x = Append(l.chunk.instructions, i.value),
         NEW r, Turned(r, l, i.pos, l.left - 1, l.chunk.constants, x, l.chunk.inlined)
  PROVE  /\ i.ok \in BOOLEAN /\ i.fatal \in BOOLEAN /\ i.checked \in BOOLEAN
         /\ i.ok => ~i.fatal /\ i.checked /\ Progress(r, ck, w)
         /\ i.ok \/ i.fatal \/ \E fn \in FunctionsOf(ck) : Missing(fn, v)
<1> DEFINE n == Len(ck.instructions)
           s == l.chunk.instructions
<1>0. IsChunk(ck)
  BY DEF Loadable
<1>1. n \in Nat /\ ck.instructions \in Seq(Instructions)
  BY <1>0, InstructionsChain DEF IsChunk
<1>2. PICK k0 \in 0..n : AtInstruction(l, ck, w, k0)
  BY DEF Progress
<1>3. l.left = n - k0 /\ l.pos = Len(InstructionsStage(ck, w, k0)) + 1
      /\ InstructionsLoaded(s, ck, k0)
  BY <1>2 DEF AtInstruction
<1> DEFINE k == k0 + 1
<1>4. k \in 1..n /\ k - 1 = k0 /\ l.left - 1 = n - k /\ k \in 0..n /\ k0 \in Nat
  BY <1>1, <1>3
<1>5. l.pos = Len(InstructionsStage(ck, w, k - 1)) + 1 /\ k \in 1..Len(ck.instructions)
  BY <1>3, <1>4
<1> HIDE DEF n
<1>6. InstructionLoads(i, ck.instructions[k], v, Len(InstructionsStage(ck, w, k)) + 1)
  <2> HIDE DEF k
  <2> QED
    BY <1>5, InstructionStageLoad
<1>7. /\ i.ok \in BOOLEAN /\ i.fatal \in BOOLEAN /\ i.checked \in BOOLEAN
      /\ i.ok => /\ ~i.fatal /\ i.checked /\ i.pos = Len(InstructionsStage(ck, w, k)) + 1
                 /\ i.value \in Instructions /\ SameInstruction(ck.instructions[k], i.value)
      /\ i.ok \/ i.fatal
           \/ \E fn \in Literal : Refers(ck.instructions[k], fn) /\ Missing(fn, v)
  BY <1>6 DEF InstructionLoads
<1>8. ASSUME i.ok
      PROVE  Progress(r, ck, w)
  <2>1. /\ IsLoader(r) /\ IsPart(r.chunk)
        /\ r.step = l.step /\ r.pos = i.pos /\ r.left = l.left - 1
        /\ r.chunk.spill_slot_count = l.chunk.spill_slot_count
        /\ r.chunk.blocks = l.chunk.blocks /\ r.chunk.constants = l.chunk.constants
        /\ r.chunk.instructions = x
        /\ r.chunk.inlined = l.chunk.inlined
    BY DEF Turned
  <2>2. InstructionsLoaded(x, ck, k)
    <3> DEFINE y == i.value
    <3>1. /\ s \in Seq(Instructions) /\ Len(s) = k0 /\ y \in Instructions
          /\ SameInstruction(ck.instructions[k], y)
          /\ \A j \in 1..k0 : SameInstruction(ck.instructions[j], s[j])
      BY <1>3, <1>7, <1>8 DEF InstructionsLoaded
    <3>0. x = Append(s, y)
      OBVIOUS
    <3> HIDE DEF s, y, k
    <3>2. /\ Append(s, y) \in Seq(Instructions) /\ Len(Append(s, y)) = k0 + 1
          /\ \A j \in 1..k0 : Append(s, y)[j] = s[j]
          /\ Append(s, y)[k0 + 1] = y
          /\ \A j \in 1 .. k0 + 1 : j \in 1..k0 \/ j = k0 + 1
      BY <1>4, <3>1, SeqGrow
    <3> DEFINE z == Append(s, y)
    <3>3. z \in Seq(Instructions) /\ Len(z) = k
      BY <3>2 DEF k
    <3>4. ASSUME NEW j \in 1..k
          PROVE  SameInstruction(ck.instructions[j], z[j])
      <4>1. j \in 1..k0 \/ j = k
        BY <3>2 DEF k
      <4>2. z[k] = y
        BY <3>2 DEF k
      <4> QED
        BY <3>1, <3>2, <4>1, <4>2
    <3>5. InstructionsLoaded(z, ck, k)
      BY <3>3, <3>4 DEF InstructionsLoaded
    <3> QED
      BY <3>0, <3>5
  <2> HIDE DEF k
  <2>3. AtInstruction(r, ck, w, k)
    BY <1>2, <1>4, <1>7, <1>8, <2>1, <2>2 DEF AtInstruction, n
  <2>4. k \in 0..Len(ck.instructions)
    BY <1>4 DEF n
  <2> QED
    BY <2>1, <2>3, <2>4 DEF Progress
<1>9. i.ok \/ i.fatal \/ \E fn \in FunctionsOf(ck) : Missing(fn, v)
  <2> HIDE DEF k
  <2> DEFINE instr == ck.instructions[k]
  <2> SUFFICES ASSUME NEW fn \in Literal, Refers(instr, fn), Missing(fn, v)
               PROVE  fn \in FunctionsOf(ck)
    BY <1>7
  <2>1. instr \in ToSet(ck.instructions)
    <3>1. DOMAIN ck.instructions = 1..n
      BY <1>1, LenProperties DEF n
    <3> QED
      BY <1>4, <3>1 DEF ToSet
  <2> HIDE DEF instr
  <2>2. fn \in EnvironmentFunctions(instr.env) \cup EnvironmentFunctions(instr.deferred)
    BY DEF Refers, EnvironmentFunctions
  <2>3. fn \in FrameFunctions(ck)
    BY <2>1, <2>2 DEF FrameFunctions
  <2> QED
    BY <2>3 DEF FunctionsOf
<1> QED
  BY <1>7, <1>8, <1>9

LEMMA InstructionsEndProgress ==
  ASSUME NEW ck, NEW w, IsChunk(ck), NEW b, b = Save(ck, w),
         NEW l, Progress(l, ck, w), l.step = "instructions", l.left = 0,
         NEW r, IsLoader(r), r.step = "inlined", r.pos = l.pos + 1,
         r.left = At(b, l.pos), r.chunk = l.chunk
  PROVE  Progress(r, ck, w)
<1> DEFINE n == Len(ck.instructions)
<1>1. n \in Nat /\ Len(ck.inlined) \in Nat
  BY InstructionsChain, InlinedChain
<1>2. PICK k \in 0..n : AtInstruction(l, ck, w, k)
  BY DEF Progress
<1>3. k = n
  BY <1>1, <1>2 DEF AtInstruction
<1>4. /\ l.pos = Len(InstructionsStage(ck, w, n)) + 1
      /\ ConstantsLoaded(l.chunk.constants, ck, Len(LiveIds(ck)))
      /\ InstructionsLoaded(l.chunk.instructions, ck, n)
      /\ l.chunk.inlined = <<>>
  BY <1>2, <1>3 DEF AtInstruction
<1>5. At(b, l.pos) = Len(ck.inlined) /\ l.pos + 1 = Len(InlinedStage(ck, w, 0)) + 1
  BY <1>4, InstructionsEndLoad
<1>6. InlinedLoaded(<<>>, ck, 0)
  BY EmptySeq DEF InlinedLoaded
<1>7. AtInlined(r, ck, w, 0) /\ 0 \in 0..Len(ck.inlined)
  BY <1>1, <1>4, <1>5, <1>6 DEF AtInlined
<1>8. r.step \in AtWork /\ r.step # "constants" /\ r.step # "instructions" /\ r.step # "loaded"
  BY DEF AtWork
<1> QED
  BY <1>7, <1>8 DEF Progress

LEMMA InlinedProgress ==
  ASSUME NEW ck, NEW w, NEW v, IsChunk(ck), NEW b, b = Save(ck, w),
         NEW l, Progress(l, ck, w), l.step = "inlined", l.left > 0,
         NEW s, s = LoadSharedFunctionInfo(b, l.pos, v), s.ok,
         NEW x, x = Append(l.chunk.inlined, s.value),
         NEW r, Turned(r, l, s.pos, l.left - 1, l.chunk.constants,
                       l.chunk.instructions, x)
  PROVE  Progress(r, ck, w) /\ s.value \in Literal
<1> DEFINE n == Len(ck.inlined)
           t == l.chunk.inlined
           y == s.value
<1>1. n \in Nat
  BY InlinedChain
<1>2. PICK k0 \in 0..n : AtInlined(l, ck, w, k0)
  BY DEF Progress
<1>3. l.left = n - k0 /\ l.pos = Len(InlinedStage(ck, w, k0)) + 1
      /\ InlinedLoaded(t, ck, k0)
  BY <1>2 DEF AtInlined
<1> DEFINE k == k0 + 1
<1>4. k \in 1..n /\ k - 1 = k0 /\ l.left - 1 = n - k /\ k \in 0..n /\ k0 \in Nat
  BY <1>1, <1>3
<1>5. l.pos = Len(InlinedStage(ck, w, k - 1)) + 1 /\ k \in 1..Len(ck.inlined)
  BY <1>3, <1>4
<1> HIDE DEF n
<1>6. s.pos = Len(InlinedStage(ck, w, k)) + 1 /\ y = ck.inlined[k] /\ y \in Literal
  <2> HIDE DEF k
  <2> QED
    BY <1>5, InlinedStageLoad
<1>7. /\ IsLoader(r) /\ IsPart(r.chunk)
      /\ r.step = l.step /\ r.pos = s.pos /\ r.left = l.left - 1
      /\ r.chunk.spill_slot_count = l.chunk.spill_slot_count
      /\ r.chunk.blocks = l.chunk.blocks /\ r.chunk.constants = l.chunk.constants
      /\ r.chunk.instructions = l.chunk.instructions
      /\ r.chunk.inlined = x
  BY DEF Turned
<1>8. InlinedLoaded(x, ck, k)
  <2>1. /\ t \in Seq(Literal) /\ Len(t) = k0 /\ \A j \in 1..k0 : t[j] = ck.inlined[j]
    BY <1>3 DEF InlinedLoaded
  <2>0. x = Append(t, y)
    OBVIOUS
  <2> HIDE DEF t, y, k
  <2>2. /\ x \in Seq(Literal) /\ Len(x) = k0 + 1
        /\ \A j \in 1..k0 : x[j] = t[j]
        /\ x[k0 + 1] = y
        /\ \A j \in 1 .. k0 + 1 : j \in 1..k0 \/ j = k0 + 1
    BY <1>4, <1>6, <2>0, <2>1, SeqGrow
  <2>3. ASSUME NEW j \in 1..k
        PROVE  x[j] = ck.inlined[j]
    <3>1. (j \in 1..k0 \/ j = k) /\ x[k] = y
      BY <2>2 DEF k
    <3> QED
      BY <1>6, <2>1, <2>2, <3>1
  <2>4. x \in Seq(Literal) /\ Len(x) = k
    BY <2>2 DEF k
  <2> QED
    BY <2>3, <2>4 DEF InlinedLoaded
<1> HIDE DEF k, t
<1>9. AtInlined(r, ck, w, k) /\ k \in 0..Len(ck.inlined)
  BY <1>2, <1>4, <1>6, <1>7, <1>8 DEF AtInlined, n
<1> QED
  BY <1>6, <1>7, <1>9 DEF Progress

LEMMA LoadedProgress ==
  ASSUME NEW ck, NEW w, IsChunk(ck), NEW l, Progress(l, ck, w),
         l.step = "inlined", l.left = 0,
         NEW r, IsLoader(r), r.step = "loaded", r.chunk = l.chunk
  PROVE  Progress(r, ck, w)
<1> DEFINE n == Len(ck.inlined)
<1>1. n \in Nat
  BY InlinedChain
<1>2. PICK k \in 0..n : AtInlined(l, ck, w, k)
  BY DEF Progress
<1>3. k = n
  BY <1>1, <1>2 DEF AtInlined
<1>4. Complete(r, ck)
  BY <1>2, <1>3 DEF AtInlined, Complete
<1>5. /\ r.step \in AtWork /\ r.step # "constants" /\ r.step # "instructions"
      /\ r.step # "inlined"
  BY DEF AtWork
<1> QED
  BY <1>4, <1>5 DEF Progress

LEMMA BeginProgress ==
  ASSUME NEW ck, NEW w, IsChunk(ck), NEW b, b = Save(ck, w),
         NEW blocks, blocks = LoadBasicBlocks(b, 3), NEW o, NEW c,
         c = [owner |-> o, spill_slot_count |-> At(b, 1), blocks |-> blocks.value,
              constants |-> <<>>, instructions |-> <<>>, inlined |-> <<>>],
         NEW r, IsLoader(r), r.step = "constants", r.pos = blocks.pos + 2,
         r.left = At(b, blocks.pos + 1), r.chunk = c
  PROVE  /\ IsSynchronized(b, 2) /\ IsSynchronized(b, blocks.pos)
         /\ Progress(r, ck, w)
<1>1. /\ At(b, 1) = ck.spill_slot_count /\ IsSynchronized(b, 2)
      /\ blocks.value = ck.blocks /\ IsSynchronized(b, blocks.pos)
      /\ At(b, blocks.pos + 1) = Len(LiveIds(ck))
      /\ blocks.pos + 2 = Len(ConstantsStage(ck, w, 0)) + 1
  BY HeaderLoad
<1>2. /\ IsPart(c) /\ c.spill_slot_count = At(b, 1) /\ c.blocks = blocks.value
      /\ c.constants = <<>> /\ c.instructions = <<>> /\ c.inlined = <<>>
  BY DEF IsPart
<1>3. ConstantsLoaded(<<>>, ck, 0)
  <2>1. DOMAIN <<>> = {}
    OBVIOUS
  <2>2. {LiveIds(ck)[j] : j \in 1..0} = {}
    OBVIOUS
  <2> QED
    BY <2>1, <2>2 DEF ConstantsLoaded
<1>4. Len(LiveIds(ck)) \in Nat
  BY LiveIdsAre
<1>5. AtConstant(r, ck, w, 0) /\ 0 \in 0..Len(LiveIds(ck))
  BY <1>1, <1>2, <1>3, <1>4 DEF AtConstant
<1>6. /\ r.step \in AtWork /\ r.step # "loaded" /\ r.step # "instructions"
      /\ r.step # "inlined"
  BY DEF AtWork
<1> QED
  BY <1>1, <1>2, <1>5, <1>6 DEF Progress

-----------------------------------------------------------------------------
(* The cache.  What the database has for a function is what Save made of the *)
(* chunk saved last, with the names as they were bound then; the loader is   *)
(* at a turn of that Save.                                                   *)

SaverOf(ck, b) == [owner |-> ck.owner, binding |-> b]

(* The code c is the chunk ck, saved when the names were bound as in b. *)
SavedAs(c, ck, b) == c = Save(ck, SaverOf(ck, b)) /\ CanSave(ck, SaverOf(ck, b))

Kept(m, s) ==
  \A p \in Position :
    \/ m[p] = NoCode /\ s[p] = NoChunk
    \/ /\ s[p] \in Chunk /\ s[p].owner = p
       /\ \E b \in Bindings : SavedAs(m[p], s[p], b)

(* The loader l is at work on a chunk of s with the code of m. *)
AtChunk(l, m, s, ck, b) ==
  /\ l.owner \in Position /\ s[l.owner] = ck /\ ck.owner = l.owner
  /\ SavedAs(m[l.owner], ck, b)
  /\ Progress(l, ck, SaverOf(ck, b))

Working(l, m, s) == \E ck \in Chunk, b \in Bindings : AtChunk(l, m, s, ck, b)

Resting == {"idle", "failed", "crashed", "aborted"}

(* What is saved: in the list of the process, or in the file between the two. *)
Current == IF mode \in {"save", "load"} THEN Contents ELSE Stored

CacheInv ==
  /\ DbInv
  /\ binding \in Bindings
  /\ saved \in [Position -> Chunk \cup {NoChunk}]
  /\ Kept(Current, saved)
  /\ IsLoader(loader)
  /\ mode # "load" => loader = Idle
  /\ loader.step \in Resting \/ Working(loader, Contents, saved)

LEMMA IdleIs == IsLoader(Idle) /\ Idle.step = "idle" /\ Idle.step \in Resting
BY DEF IsLoader, Idle, Resting

LEMMA SaverFields ==
  ASSUME NEW ck, NEW b
  PROVE  SaverOf(ck, b).owner = ck.owner /\ SaverOf(ck, b).binding = b
BY DEF SaverOf

LEMMA WorldFields ==
  ASSUME NEW o
  PROVE  World(o).owner = o /\ World(o).binding = binding /\ World(o).made = made
BY DEF World

-----------------------------------------------------------------------------
(* Names. *)

LEMMA InBindings ==
  ASSUME NEW names \in SUBSET Name, NEW b, b = [n \in names |-> b[n]],
         \A n \in names : b[n] \in Literal /\ NameOf[b[n]] = n
  PROVE  b \in Bindings
<1>1. b \in [names -> Literal]
  OBVIOUS
<1> QED
  BY <1>1 DEF Bindings

LEMMA BindingIs ==
  ASSUME NEW b \in Bindings
  PROVE  DOMAIN b \in SUBSET Name /\ b = [n \in DOMAIN b |-> b[n]]
BY DEF Bindings

LEMMA Declared == Declarations \in Bindings
<1> DEFINE D == {l \in Literal : IsDeclared(l)}
           names == {NameOf[l] : l \in D}
           b == [n \in names |-> CHOOSE l \in Literal : IsDeclared(l) /\ NameOf[l] = n]
<1>1. names \in SUBSET Name
  BY DEF Name, IsDeclared
<1>2. ASSUME NEW n \in names
      PROVE  b[n] \in Literal /\ NameOf[b[n]] = n
  <2>1. \E l \in Literal : IsDeclared(l) /\ NameOf[l] = n
    OBVIOUS
  <2> DEFINE c == CHOOSE l \in Literal : IsDeclared(l) /\ NameOf[l] = n
  <2>2. c \in Literal /\ NameOf[c] = n
    BY <2>1
  <2>3. b[n] = c
    OBVIOUS
  <2> QED
    BY <2>2, <2>3
<1>3. b = [n \in names |-> b[n]]
  OBVIOUS
<1>4. Declarations = b
  BY DEF Declarations
<1> HIDE DEF b, names
<1> QED
  BY <1>1, <1>2, <1>3, <1>4, InBindings

LEMMA Bound ==
  ASSUME NEW b \in Bindings, NEW l \in Literal, NameOf[l] # NoName, NEW c,
         c = [n \in DOMAIN b \cup {NameOf[l]} |-> IF n = NameOf[l] THEN l ELSE b[n]]
  PROVE  c \in Bindings
<1> DEFINE names == DOMAIN b \cup {NameOf[l]}
<1>1. names \in SUBSET Name
  BY BindingIs DEF Name
<1>2. ASSUME NEW n \in names
      PROVE  c[n] \in Literal /\ NameOf[c[n]] = n
  <2>1. CASE n = NameOf[l]
    BY <2>1
  <2>2. CASE n # NameOf[l]
    <3>1. n \in DOMAIN b /\ c[n] = b[n]
      BY <2>2
    <3> QED
      BY <3>1, BindingFacts
  <2> QED
    BY <2>1, <2>2
<1>3. c = [n \in names |-> c[n]]
  OBVIOUS
<1> HIDE DEF names
<1> QED
  BY <1>1, <1>2, <1>3, InBindings

-----------------------------------------------------------------------------
(* Steps of the database. *)

LEMMA CurrentSame ==
  ASSUME CacheInv, DbInv', binding' \in Bindings, saved' = saved,
         Current' = Current, loader = Idle, loader' = Idle
  PROVE  CacheInv'
<1>1. IsLoader(loader') /\ loader'.step \in Resting
  BY IdleIs
<1>2. Kept(Current', saved') /\ saved' \in [Position -> Chunk \cup {NoChunk}]
  BY DEF CacheInv
<1> QED
  BY <1>1, <1>2 DEF CacheInv

LEMMA Still ==
  ASSUME DbInv, UNCHANGED vars
  PROVE  /\ DbInv' /\ mode' = mode /\ Contents' = Contents /\ Stored' = Stored
         /\ Current' = Current
<1>1. UNCHANGED <<mode, code_blocks, request, file, read_pointer, to_read>>
  BY DEF vars
<1>2. Contents' = Contents /\ Stored' = Stored
  BY <1>1 DEF Contents, GetCode, HasCode, IsFirst, Stored
<1> QED
  BY <1>1, <1>2, DbStutter DEF Current

LEMMA CacheInitial == CacheInit => CacheInv
<1> SUFFICES ASSUME CacheInit
             PROVE  CacheInv
  OBVIOUS
<1>1. /\ Init /\ binding = Declarations /\ loader = Idle
      /\ saved = [p \in Position |-> NoChunk]
  BY DEF CacheInit
<1>2. DbInv
  BY <1>1, DbInit
<1>3. mode = "save" /\ code_blocks = <<>>
  BY <1>1 DEF Init
<1>4. Current = Contents
  BY <1>3 DEF Current
<1>5. ASSUME NEW p \in Position
      PROVE  Contents[p] = NoCode
  <2>1. Len(code_blocks) = 0
    BY <1>3, EmptySeq
  <2>2. ~HasCode(p)
    BY <2>1 DEF HasCode
  <2> QED
    BY <2>2 DEF Contents, GetCode
<1>6. Kept(Current, saved)
  BY <1>1, <1>4, <1>5 DEF Kept
<1>7. IsLoader(loader) /\ loader.step \in Resting
  BY <1>1, IdleIs
<1>8. binding \in Bindings
  BY <1>1, Declared
<1> QED
  BY <1>1, <1>2, <1>6, <1>7, <1>8 DEF CacheInv

(* A chunk is saved or discarded: the list and the history change alike. *)
LEMMA KeptUpdate ==
  ASSUME NEW m, NEW s, Kept(m, s), m = [p \in Position |-> m[p]],
         s \in [Position -> Chunk \cup {NoChunk}],
         NEW p \in Position, NEW c, NEW ck,
         \/ c = NoCode /\ ck = NoChunk
         \/ ck \in Chunk /\ ck.owner = p /\ \E b \in Bindings : SavedAs(c, ck, b)
  PROVE  /\ Kept([m EXCEPT ![p] = c], [s EXCEPT ![p] = ck])
         /\ [s EXCEPT ![p] = ck] \in [Position -> Chunk \cup {NoChunk}]
<1> DEFINE n == [m EXCEPT ![p] = c]
           t == [s EXCEPT ![p] = ck]
<1>1. n[p] = c /\ t[p] = ck
  OBVIOUS
<1>2. \A q \in Position : q # p => n[q] = m[q] /\ t[q] = s[q]
  OBVIOUS
<1>3. t \in [Position -> Chunk \cup {NoChunk}]
  OBVIOUS
<1> HIDE DEF n, t
<1>4. ASSUME NEW q \in Position
      PROVE  \/ n[q] = NoCode /\ t[q] = NoChunk
             \/ /\ t[q] \in Chunk /\ t[q].owner = q
                /\ \E b \in Bindings : SavedAs(n[q], t[q], b)
  <2>1. CASE q = p
    BY <1>1, <2>1
  <2>2. CASE q # p
    BY <1>2, <2>2 DEF Kept
  <2> QED
    BY <2>1, <2>2
<1>5. Kept(n, t)
  BY <1>4 DEF Kept
<1> QED
  BY <1>3, <1>5 DEF n, t

LEMMA SaveStep ==
  ASSUME CacheInv, NEW ck \in Chunk, SaveOptimizedCode(ck)
  PROVE  CacheInv' /\ loader' = loader
<1> DEFINE c == Save(ck, Saver(ck.owner))
<1>1. /\ CanSave(ck, Saver(ck.owner)) /\ SetCode(ck.owner, c)
      /\ saved' = [saved EXCEPT ![ck.owner] = ck]
      /\ binding' = binding /\ loader' = loader
  BY DEF SaveOptimizedCode, processVars
<1>2. mode = "save" /\ mode' = "save"
  BY <1>1 DEF SetCode
<1>3. Saver(ck.owner) = SaverOf(ck, binding) /\ binding \in Bindings
  BY DEF Saver, SaverOf, CacheInv
<1>4. SavedAs(c, ck, binding)
  BY <1>1, <1>3 DEF SavedAs
<1>5. c \in Code /\ ck.owner \in Position
  <2>1. ck.owner \in Position
    BY ChunkFacts
  <2>2. \A b \in Bindings : Save(ck, [owner |-> ck.owner, binding |-> b]) \in Code
    BY ChunkAssumption
  <2>3. Save(ck, SaverOf(ck, binding)) \in Code
    BY <1>3, <2>2 DEF SaverOf
  <2> QED
    BY <1>3, <2>1, <2>3
<1> HIDE DEF c
<1>6. DbInv' /\ Contents' = [Contents EXCEPT ![ck.owner] = c]
  BY <1>1, <1>5, SetStep DEF CacheInv
<1>7. Current = Contents /\ Current' = Contents'
  BY <1>2 DEF Current
<1>8. Contents = [p \in Position |-> Contents[p]]
  BY DEF Contents
<1>9. Kept(Contents, saved) /\ saved \in [Position -> Chunk \cup {NoChunk}]
  BY <1>7 DEF CacheInv
<1>10. Kept(Contents', saved') /\ saved' \in [Position -> Chunk \cup {NoChunk}]
  <2> DEFINE m == Contents
             s == saved
             p == ck.owner
  <2>1. /\ Kept(m, s) /\ m = [q \in Position |-> m[q]]
        /\ s \in [Position -> Chunk \cup {NoChunk}] /\ p \in Position
        /\ ck.owner = p /\ \E b \in Bindings : SavedAs(c, ck, b)
    BY <1>3, <1>4, <1>5, <1>8, <1>9
  <2> HIDE DEF m, s, p
  <2>2. /\ Kept([m EXCEPT ![p] = c], [s EXCEPT ![p] = ck])
        /\ [s EXCEPT ![p] = ck] \in [Position -> Chunk \cup {NoChunk}]
    BY <2>1, KeptUpdate
  <2> QED
    BY <1>1, <1>6, <2>2 DEF m, s, p
<1>11. loader' = Idle
  BY <1>1, <1>2 DEF CacheInv
<1>12. IsLoader(loader') /\ loader'.step \in Resting
  BY <1>11, IdleIs
<1> QED
  BY <1>1, <1>3, <1>6, <1>7, <1>10, <1>11, <1>12 DEF CacheInv

LEMMA DiscardStep ==
  ASSUME CacheInv, NEW p \in Position, DiscardSavedOptimizedCode(p)
  PROVE  CacheInv' /\ loader' = loader
<1>1. /\ RemoveCode(p) /\ saved' = [saved EXCEPT ![p] = NoChunk]
      /\ binding' = binding /\ loader' = loader
  BY DEF DiscardSavedOptimizedCode, processVars
<1>2. mode = "save" /\ mode' = "save"
  BY <1>1 DEF RemoveCode
<1>6. DbInv' /\ Contents' = [Contents EXCEPT ![p] = NoCode]
  BY <1>1, RemoveStep DEF CacheInv
<1>7. Current = Contents /\ Current' = Contents'
  BY <1>2 DEF Current
<1>8. Contents = [q \in Position |-> Contents[q]]
  BY DEF Contents
<1>9. Kept(Contents, saved) /\ saved \in [Position -> Chunk \cup {NoChunk}]
  BY <1>7 DEF CacheInv
<1>10. Kept(Contents', saved') /\ saved' \in [Position -> Chunk \cup {NoChunk}]
  <2> DEFINE m == Contents
             s == saved
  <2>1. /\ Kept(m, s) /\ m = [q \in Position |-> m[q]]
        /\ s \in [Position -> Chunk \cup {NoChunk}]
    BY <1>8, <1>9
  <2> HIDE DEF m, s
  <2>2. /\ Kept([m EXCEPT ![p] = NoCode], [s EXCEPT ![p] = NoChunk])
        /\ [s EXCEPT ![p] = NoChunk] \in [Position -> Chunk \cup {NoChunk}]
    BY <2>1, KeptUpdate
  <2> QED
    BY <1>1, <1>6, <2>2 DEF m, s
<1>11. loader' = Idle
  BY <1>1, <1>2 DEF CacheInv
<1>12. IsLoader(loader') /\ loader'.step \in Resting
  BY <1>11, IdleIs
<1>13. binding' \in Bindings
  BY <1>1 DEF CacheInv
<1> QED
  BY <1>1, <1>6, <1>7, <1>10, <1>11, <1>12, <1>13 DEF CacheInv

(* The file is written and read. *)
LEMMA FileStep ==
  ASSUME CacheInv, Finalize \/ Initialize \/ InitializeBlock
  PROVE  CacheInv' /\ loader' = loader
<1>0. DbInv /\ binding \in Bindings
  BY DEF CacheInv
<1>1. CASE Finalize
  <2>1. /\ Write /\ binding' = Declarations /\ loader' = loader /\ saved' = saved
    BY <1>1 DEF Finalize, NewProcess
  <2>2. mode = "save" /\ mode' = "written"
    BY <2>1 DEF Write
  <2>3. DbInv' /\ Stored' = Contents
    BY <1>0, <2>1, WriteStep
  <2>4. Current' = Current
    BY <2>2, <2>3 DEF Current
  <2>5. loader = Idle /\ loader' = Idle
    BY <2>1, <2>2 DEF CacheInv
  <2> QED
    BY <2>1, <2>3, <2>4, <2>5, Declared, CurrentSame
<1>2. CASE Initialize
  <2>1. /\ ReadBegin /\ binding' = binding /\ loader' = loader /\ saved' = saved
    BY <1>2 DEF Initialize, processVars
  <2>2. mode = "written" /\ mode' = "reading" /\ file' = file
    BY <2>1 DEF ReadBegin
  <2>3. DbInv'
    BY <1>0, <2>1, ReadBeginStep
  <2>4. Current' = Current
    BY <2>2 DEF Current, Stored
  <2>5. loader = Idle /\ loader' = Idle
    BY <2>1, <2>2 DEF CacheInv
  <2> QED
    BY <1>0, <2>1, <2>3, <2>4, <2>5, CurrentSame
<1>3. CASE InitializeBlock /\ ReadBlock
  <2>1. ReadBlock /\ binding' = binding /\ loader' = loader /\ saved' = saved
    BY <1>3 DEF InitializeBlock, processVars
  <2>2. mode = "reading" /\ mode' = "reading" /\ file' = file
    BY <2>1 DEF ReadBlock
  <2>3. DbInv'
    BY <1>0, <2>1, ReadBlockStep
  <2>4. Current' = Current
    BY <2>2 DEF Current, Stored
  <2>5. loader = Idle /\ loader' = Idle
    BY <2>1, <2>2 DEF CacheInv
  <2> QED
    BY <1>0, <2>1, <2>3, <2>4, <2>5, CurrentSame
<1>4. CASE InitializeBlock /\ ReadEnd
  <2>1. ReadEnd /\ binding' = binding /\ loader' = loader /\ saved' = saved
    BY <1>4 DEF InitializeBlock, processVars
  <2>2. mode = "reading" /\ mode' = "load"
    BY <2>1 DEF ReadEnd
  <2>3. DbInv' /\ Contents' = Stored
    BY <1>0, <2>1, ReadEndStep
  <2>4. Current' = Current
    BY <2>2, <2>3 DEF Current
  <2>5. loader = Idle /\ loader' = Idle
    BY <2>1, <2>2 DEF CacheInv
  <2> QED
    BY <1>0, <2>1, <2>3, <2>4, <2>5, CurrentSame
<1> QED
  BY <1>1, <1>2, <1>3, <1>4 DEF InitializeBlock

-----------------------------------------------------------------------------
(* Steps of the script and of the loader: the database and the history stay. *)

LEMMA LoaderMoves ==
  ASSUME CacheInv, UNCHANGED vars, saved' = saved, binding' \in Bindings,
         IsLoader(loader'), mode # "load" => loader' = Idle,
         loader'.step \in Resting \/ Working(loader', Contents, saved)
  PROVE  CacheInv'
<1>1. /\ DbInv' /\ mode' = mode /\ Contents' = Contents /\ Current' = Current
  BY Still DEF CacheInv
<1>2. Kept(Current', saved') /\ saved' \in [Position -> Chunk \cup {NoChunk}]
  BY <1>1 DEF CacheInv
<1>3. loader'.step \in Resting \/ Working(loader', Contents', saved')
  BY <1>1
<1> QED
  BY <1>1, <1>2, <1>3 DEF CacheInv

(* Functions are made, named and compiled. *)
LEMMA ScriptStep ==
  ASSUME CacheInv, NEW l \in Literal, MakeFunction(l) \/ Assign(l) \/ CompileLazy(l)
  PROVE  CacheInv' /\ loader' = Idle
<1>1. UNCHANGED vars /\ saved' = saved /\ loader' = Idle
  BY DEF MakeFunction, Assign, CompileLazy
<1>2. binding' \in Bindings
  <2>0. binding \in Bindings
    BY DEF CacheInv
  <2>1. CASE Assign(l)
    <3> DEFINE b == binding
               c == binding'
    <3>1. /\ NameOf[l] # NoName /\ b \in Bindings
          /\ c = [n \in DOMAIN b \cup {NameOf[l]} |-> IF n = NameOf[l] THEN l ELSE b[n]]
      BY <2>0, <2>1 DEF Assign
    <3> HIDE DEF b, c
    <3>2. c \in Bindings
      BY <3>1, Bound
    <3> QED
      BY <3>2 DEF c
  <2>2. CASE MakeFunction(l) \/ CompileLazy(l)
    BY <2>0, <2>2 DEF MakeFunction, CompileLazy
  <2> QED
    BY <2>1, <2>2
<1>3. IsLoader(loader') /\ loader'.step \in Resting
  BY <1>1, IdleIs
<1> QED
  BY <1>1, <1>2, <1>3, LoaderMoves

(* What is known while a chunk is being loaded. *)
LEMMA AtWorkFacts ==
  CacheInv /\ loader.step \in AtWork =>
    \E ck \in Chunk, b \in Bindings :
      /\ AtChunk(loader, Contents, saved, ck, b)
      /\ Source = ck /\ Bytes = Save(ck, SaverOf(ck, b))
      /\ Progress(loader, ck, SaverOf(ck, b)) /\ IsChunk(ck)
      /\ Loadable(ck, SaverOf(ck, b), World(loader.owner))
<1> SUFFICES ASSUME CacheInv, loader.step \in AtWork
             PROVE  \E ck \in Chunk, b \in Bindings :
                      /\ AtChunk(loader, Contents, saved, ck, b)
                      /\ Source = ck /\ Bytes = Save(ck, SaverOf(ck, b))
                      /\ Progress(loader, ck, SaverOf(ck, b)) /\ IsChunk(ck)
                      /\ Loadable(ck, SaverOf(ck, b), World(loader.owner))
  OBVIOUS
<1>1. loader.step \notin Resting
  BY DEF AtWork, Resting
<1>2. PICK ck \in Chunk, b \in Bindings : AtChunk(loader, Contents, saved, ck, b)
  BY <1>1 DEF CacheInv, Working
<1>3. /\ loader.owner \in Position /\ saved[loader.owner] = ck
      /\ ck.owner = loader.owner /\ Contents[loader.owner] = Save(ck, SaverOf(ck, b))
      /\ CanSave(ck, SaverOf(ck, b)) /\ Progress(loader, ck, SaverOf(ck, b))
  BY <1>2 DEF AtChunk, SavedAs
<1>4. Bytes = Contents[loader.owner]
  BY <1>3 DEF Bytes, Contents
<1>5. IsChunk(ck) /\ ck.owner \in Literal
  BY ChunkFacts DEF IsChunk
<1>6. Pair(SaverOf(ck, b), World(loader.owner))
  <2>1. binding \in Bindings
    BY DEF CacheInv
  <2> QED
    BY <1>3, <1>5, <2>1, SaverFields, WorldFields DEF Pair, IsProcess
<1>7. Loadable(ck, SaverOf(ck, b), World(loader.owner))
  BY <1>3, <1>5, <1>6 DEF Loadable
<1> QED
  BY <1>2, <1>3, <1>4, <1>5, <1>7 DEF Source

(* The loader is at work in the loading process only. *)
LEMMA WorkInLoad == CacheInv /\ loader.step \in AtWork => mode = "load"
<1>1. "idle" \notin AtWork
  BY DEF AtWork
<1> QED
  BY <1>1, IdleIs DEF CacheInv

LEMMA Rests ==
  ASSUME CacheInv, loader.step \in AtWork, UNCHANGED <<vars, binding, saved>>,
         IsLoader(loader'), loader'.step \in Resting
  PROVE  CacheInv'
<1>1. mode = "load" /\ binding \in Bindings
  BY WorkInLoad DEF CacheInv
<1> QED
  BY <1>1, LoaderMoves

LEMMA Works ==
  ASSUME CacheInv, loader.step \in AtWork, UNCHANGED <<vars, binding, saved>>,
         NEW ck \in Chunk, NEW b \in Bindings, AtChunk(loader, Contents, saved, ck, b),
         loader'.owner = loader.owner, Progress(loader', ck, SaverOf(ck, b))
  PROVE  CacheInv'
<1>1. mode = "load" /\ binding \in Bindings
  BY WorkInLoad DEF CacheInv
<1>2. IsLoader(loader')
  BY DEF Progress
<1>3. AtChunk(loader', Contents, saved, ck, b)
  BY DEF AtChunk
<1>4. Working(loader', Contents, saved)
  BY <1>3 DEF Working
<1> QED
  BY <1>1, <1>2, <1>4, LoaderMoves

LEMMA FailRests ==
  ASSUME Fail
  PROVE  IsLoader(loader') /\ loader'.step = "failed" /\ loader'.step \in Resting
<1>1. loader' = [step |-> "failed", owner |-> loader.owner, pos |-> 1, left |-> 0,
                 chunk |-> NoChunk]
  BY DEF Fail, Idle
<1> QED
  BY <1>1 DEF IsLoader, Resting

LEMMA CrashRests ==
  ASSUME IsLoader(loader), Crash
  PROVE  IsLoader(loader') /\ loader'.step = "crashed" /\ loader'.step \in Resting
<1>1. loader' = [loader EXCEPT !.step = "crashed"]
  BY DEF Crash
<1>2. IsLoader(loader') /\ loader'.step = "crashed"
  BY <1>1, TurnStep
<1> QED
  BY <1>2 DEF Resting

(* A function of the chunk that the process has not made yet. *)
Cause == \E fn \in FunctionsOf(Source) : Outer(fn) = Root /\ fn \notin made

LEMMA MissingCause ==
  ASSUME NEW ck, Source = ck, NEW o, \E fn \in FunctionsOf(ck) : Missing(fn, World(o))
  PROVE  Cause
BY WorldFields DEF Missing, Cause

(* A constant is loaded, or a function cannot be found. *)
LEMMA LoadConstantStep ==
  ASSUME CacheInv, LoadConstant
  PROVE  /\ CacheInv' /\ loader'.step # "aborted"
         /\ loader'.step = "failed" => Cause
<1> DEFINE c == LoadHConstantShim(Bytes, loader.pos, World(loader.owner))
           id == At(Bytes, loader.pos)
           m == loader.chunk.constants
           x == [i \in DOMAIN m \cup {id} |-> IF i = id THEN c.value ELSE m[i]]
           r == [loader EXCEPT !.pos = c.pos, !.left = loader.left - 1,
                               !.chunk.constants = x]
<1>1. /\ loader.step = "constants" /\ loader.left > 0
      /\ UNCHANGED <<vars, binding, saved>>
  BY DEF LoadConstant
<1>2. loader.step \in AtWork
  BY <1>1 DEF AtWork
<1>3. PICK ck \in Chunk, b \in Bindings :
        /\ AtChunk(loader, Contents, saved, ck, b)
        /\ Source = ck /\ Bytes = Save(ck, SaverOf(ck, b))
        /\ Progress(loader, ck, SaverOf(ck, b)) /\ IsChunk(ck)
        /\ Loadable(ck, SaverOf(ck, b), World(loader.owner))
  BY <1>2, AtWorkFacts
<1>4. IsLoader(loader) /\ IsPart(loader.chunk)
  BY <1>3 DEF Progress
<1>5. (c.fatal /\ Crash) \/ (c.ok /\ loader' = r) \/ (~c.ok /\ ~c.fatal /\ Fail)
  BY DEF LoadConstant
<1>6. Put(x, m, id, c.value)
  BY DEF Put
<1> HIDE DEF c, id, x
<1>7. Turned(r, loader, c.pos, loader.left - 1, x,
             loader.chunk.instructions, loader.chunk.inlined)
  BY <1>4, TurnConstant
<1> HIDE DEF r
<1>8. /\ IsStatus(c)
      /\ c.ok => ~c.fatal /\ Progress(r, ck, SaverOf(ck, b))
      /\ c.ok \/ c.fatal \/ \E fn \in FunctionsOf(ck) : Missing(fn, World(loader.owner))
  BY <1>1, <1>3, <1>6, <1>7, ConstantProgress DEF c, id
<1>9. CASE Crash
  <2>1. IsLoader(loader') /\ loader'.step = "crashed" /\ loader'.step \in Resting
    BY <1>4, <1>9, CrashRests
  <2> QED
    BY <1>1, <1>2, <2>1, Rests
<1>10. CASE c.ok /\ loader' = r
  <2>1. r.owner = loader.owner /\ r.step = "constants"
    BY <1>1, <1>7 DEF Turned
  <2>2. Progress(loader', ck, SaverOf(ck, b))
    BY <1>8, <1>10
  <2> QED
    BY <1>1, <1>2, <1>3, <1>10, <2>1, <2>2, Works
<1>11. CASE ~c.ok /\ ~c.fatal /\ Fail
  <2>1. IsLoader(loader') /\ loader'.step = "failed" /\ loader'.step \in Resting
    BY <1>11, FailRests
  <2>2. \E fn \in FunctionsOf(ck) : Missing(fn, World(loader.owner))
    BY <1>8, <1>11
  <2>3. Cause
    BY <1>3, <2>2, MissingCause
  <2> QED
    BY <1>1, <1>2, <2>1, <2>3, Rests
<1> QED
  BY <1>5, <1>9, <1>10, <1>11

LEMMA LoadConstantsEndStep ==
  ASSUME CacheInv, LoadConstantsEnd
  PROVE  CacheInv' /\ loader'.step = "instructions"
<1> DEFINE p == loader.pos + 2
           n == At(Bytes, loader.pos + 1)
           r == [loader EXCEPT !.step = "instructions", !.pos = p, !.left = n]
<1>1. /\ loader.step = "constants" /\ loader.left = 0
      /\ UNCHANGED <<vars, binding, saved>>
  BY DEF LoadConstantsEnd, processVars
<1>2. loader.step \in AtWork
  BY <1>1 DEF AtWork
<1>3. PICK ck \in Chunk, b \in Bindings :
        /\ AtChunk(loader, Contents, saved, ck, b)
        /\ Source = ck /\ Bytes = Save(ck, SaverOf(ck, b))
        /\ Progress(loader, ck, SaverOf(ck, b)) /\ IsChunk(ck)
        /\ Loadable(ck, SaverOf(ck, b), World(loader.owner))
  BY <1>2, AtWorkFacts
<1>4. IsLoader(loader) /\ IsPart(loader.chunk)
  BY <1>3 DEF Progress
<1>5. IsSynchronized(Bytes, loader.pos) => loader' = r
  BY DEF LoadConstantsEnd
<1> HIDE DEF p, n
<1>6. /\ IsLoader(r) /\ r.step = "instructions" /\ r.owner = loader.owner
      /\ r.pos = p /\ r.left = n /\ r.chunk = loader.chunk
  <2>1. Ends(r, loader, "instructions", p, n)
    BY DEF Ends
  <2> HIDE DEF r
  <2>2. Ended(r, loader, "instructions", p, n)
    BY <1>4, <2>1, TurnEnd
  <2> QED
    BY <2>2 DEF Ended
<1> HIDE DEF r
<1>7. IsSynchronized(Bytes, loader.pos) /\ Progress(r, ck, SaverOf(ck, b))
  BY <1>1, <1>3, <1>6, ConstantsEndProgress DEF p, n
<1>8. loader' = r
  BY <1>5, <1>7
<1> QED
  BY <1>1, <1>2, <1>3, <1>6, <1>7, <1>8, Works

(* An instruction is loaded, or a function of its environments cannot be     *)
(* found: Load fails, or its CHECK does where the status is not looked at.   *)
LEMMA LoadInstructionStepStep ==
  ASSUME CacheInv, LoadInstructionStep
  PROVE  /\ CacheInv'
         /\ loader'.step \in {"aborted", "failed"} => Cause
<1> DEFINE i == LoadInstruction(Bytes, loader.pos, World(loader.owner))
           x == Append(loader.chunk.instructions, i.value)
           r == [loader EXCEPT !.pos = i.pos, !.left = loader.left - 1,
                               !.chunk.instructions = x]
           a == [loader EXCEPT !.step = "aborted"]
<1>1. /\ loader.step = "instructions" /\ loader.left > 0
      /\ UNCHANGED <<vars, binding, saved>>
  BY DEF LoadInstructionStep
<1>2. loader.step \in AtWork
  BY <1>1 DEF AtWork
<1>3. PICK ck \in Chunk, b \in Bindings :
        /\ AtChunk(loader, Contents, saved, ck, b)
        /\ Source = ck /\ Bytes = Save(ck, SaverOf(ck, b))
        /\ Progress(loader, ck, SaverOf(ck, b)) /\ IsChunk(ck)
        /\ Loadable(ck, SaverOf(ck, b), World(loader.owner))
  BY <1>2, AtWorkFacts
<1>4. IsLoader(loader) /\ IsPart(loader.chunk)
  BY <1>3 DEF Progress
<1>5. \/ i.fatal /\ Crash
      \/ ~i.fatal /\ ~i.checked /\ loader' = a
      \/ i.ok /\ i.checked /\ loader' = r
      \/ ~i.ok /\ ~i.fatal /\ i.checked /\ Fail
  BY DEF LoadInstructionStep
<1>6. x = Append(loader.chunk.instructions, i.value)
  OBVIOUS
<1> HIDE DEF i, x
<1>7. Turned(r, loader, i.pos, loader.left - 1, loader.chunk.constants, x,
             loader.chunk.inlined)
  BY <1>4, TurnInstruction
<1> HIDE DEF r
<1>8. /\ i.ok \in BOOLEAN /\ i.fatal \in BOOLEAN /\ i.checked \in BOOLEAN
      /\ i.ok => ~i.fatal /\ i.checked /\ Progress(r, ck, SaverOf(ck, b))
      /\ i.ok \/ i.fatal \/ \E fn \in FunctionsOf(ck) : Missing(fn, World(loader.owner))
  BY <1>1, <1>3, <1>6, <1>7, InstructionProgress DEF i
<1>9. CASE Crash
  <2>1. IsLoader(loader') /\ loader'.step = "crashed" /\ loader'.step \in Resting
    BY <1>4, <1>9, CrashRests
  <2> QED
    BY <1>1, <1>2, <2>1, Rests
<1>10. CASE i.ok /\ loader' = r
  <2>1. r.owner = loader.owner /\ r.step = "instructions"
    BY <1>1, <1>7 DEF Turned
  <2>2. Progress(loader', ck, SaverOf(ck, b))
    BY <1>8, <1>10
  <2> QED
    BY <1>1, <1>2, <1>3, <1>10, <2>1, <2>2, Works
<1>11. ASSUME ~i.fatal, ~i.ok \/ ~i.checked
       PROVE  Cause
  <2>1. \E fn \in FunctionsOf(ck) : Missing(fn, World(loader.owner))
    BY <1>8, <1>11
  <2> QED
    BY <1>3, <2>1, MissingCause
<1>12. CASE ~i.ok /\ ~i.fatal /\ Fail
  <2>1. IsLoader(loader') /\ loader'.step = "failed" /\ loader'.step \in Resting
    BY <1>12, FailRests
  <2> QED
    BY <1>1, <1>2, <1>11, <1>12, <2>1, Rests
<1>13. CASE ~i.fatal /\ ~i.checked /\ loader' = a
  <2>1. IsLoader(a) /\ a.step = "aborted"
    BY <1>4, TurnStep
  <2>2. IsLoader(loader') /\ loader'.step \in Resting
    BY <1>13, <2>1 DEF Resting
  <2> QED
    BY <1>1, <1>2, <1>11, <1>13, <2>2, Rests
<1> QED
  BY <1>5, <1>9, <1>10, <1>12, <1>13

LEMMA LoadInstructionsEndStep ==
  ASSUME CacheInv, LoadInstructionsEnd
  PROVE  CacheInv' /\ loader'.step = "inlined"
<1> DEFINE p == loader.pos + 1
           n == At(Bytes, loader.pos)
           r == [loader EXCEPT !.step = "inlined", !.pos = p, !.left = n]
<1>1. /\ loader.step = "instructions" /\ loader.left = 0
      /\ UNCHANGED <<vars, binding, saved>>
  BY DEF LoadInstructionsEnd, processVars
<1>2. loader.step \in AtWork
  BY <1>1 DEF AtWork
<1>3. PICK ck \in Chunk, b \in Bindings :
        /\ AtChunk(loader, Contents, saved, ck, b)
        /\ Source = ck /\ Bytes = Save(ck, SaverOf(ck, b))
        /\ Progress(loader, ck, SaverOf(ck, b)) /\ IsChunk(ck)
        /\ Loadable(ck, SaverOf(ck, b), World(loader.owner))
  BY <1>2, AtWorkFacts
<1>4. IsLoader(loader) /\ IsPart(loader.chunk)
  BY <1>3 DEF Progress
<1>5. loader' = r
  BY DEF LoadInstructionsEnd
<1> HIDE DEF p, n
<1>6. /\ IsLoader(r) /\ r.step = "inlined" /\ r.owner = loader.owner
      /\ r.pos = p /\ r.left = n /\ r.chunk = loader.chunk
  <2>1. Ends(r, loader, "inlined", p, n)
    BY DEF Ends
  <2> HIDE DEF r
  <2>2. Ended(r, loader, "inlined", p, n)
    BY <1>4, <2>1, TurnEnd
  <2> QED
    BY <2>2 DEF Ended
<1> HIDE DEF r
<1>7. Progress(r, ck, SaverOf(ck, b))
  BY <1>1, <1>3, <1>6, InstructionsEndProgress DEF p, n
<1> QED
  BY <1>1, <1>2, <1>3, <1>5, <1>6, <1>7, Works

LEMMA LoadInlinedStep ==
  ASSUME CacheInv, LoadInlined
  PROVE  CacheInv' /\ loader'.step # "aborted"
<1> DEFINE s == LoadSharedFunctionInfo(Bytes, loader.pos, World(loader.owner))
           x == Append(loader.chunk.inlined, s.value)
           r == [loader EXCEPT !.pos = s.pos, !.left = loader.left - 1,
                               !.chunk.inlined = x]
<1>1. /\ loader.step = "inlined" /\ loader.left > 0
      /\ UNCHANGED <<vars, binding, saved>>
  BY DEF LoadInlined
<1>2. loader.step \in AtWork
  BY <1>1 DEF AtWork
<1>3. PICK ck \in Chunk, b \in Bindings :
        /\ AtChunk(loader, Contents, saved, ck, b)
        /\ Source = ck /\ Bytes = Save(ck, SaverOf(ck, b))
        /\ Progress(loader, ck, SaverOf(ck, b)) /\ IsChunk(ck)
        /\ Loadable(ck, SaverOf(ck, b), World(loader.owner))
  BY <1>2, AtWorkFacts
<1>4. IsLoader(loader) /\ IsPart(loader.chunk)
  BY <1>3 DEF Progress
<1>5. (s.ok /\ loader' = r) \/ Fail
  BY DEF LoadInlined
<1>6. x = Append(loader.chunk.inlined, s.value)
  OBVIOUS
<1> HIDE DEF s, x
<1>7. Turned(r, loader, s.pos, loader.left - 1, loader.chunk.constants,
             loader.chunk.instructions, x)
  BY <1>4, TurnInlined
<1> HIDE DEF r
<1>8. CASE s.ok /\ loader' = r
  <2>1. Progress(r, ck, SaverOf(ck, b))
    BY <1>1, <1>3, <1>6, <1>7, <1>8, InlinedProgress DEF s
  <2>2. r.owner = loader.owner /\ r.step = "inlined"
    BY <1>1, <1>7 DEF Turned
  <2> QED
    BY <1>1, <1>2, <1>3, <1>8, <2>1, <2>2, Works
<1>9. CASE Fail
  <2>1. IsLoader(loader') /\ loader'.step = "failed" /\ loader'.step \in Resting
    BY <1>9, FailRests
  <2> QED
    BY <1>1, <1>2, <2>1, Rests
<1> QED
  BY <1>5, <1>8, <1>9

LEMMA LoadEndStep ==
  ASSUME CacheInv, LoadEnd
  PROVE  CacheInv' /\ loader'.step # "aborted"
<1> DEFINE r == [loader EXCEPT !.step = "loaded"]
<1>1. /\ loader.step = "inlined" /\ loader.left = 0
      /\ UNCHANGED <<vars, binding, saved>>
  BY DEF LoadEnd
<1>2. loader.step \in AtWork
  BY <1>1 DEF AtWork
<1>3. PICK ck \in Chunk, b \in Bindings :
        /\ AtChunk(loader, Contents, saved, ck, b)
        /\ Source = ck /\ Bytes = Save(ck, SaverOf(ck, b))
        /\ Progress(loader, ck, SaverOf(ck, b)) /\ IsChunk(ck)
        /\ Loadable(ck, SaverOf(ck, b), World(loader.owner))
  BY <1>2, AtWorkFacts
<1>4. IsLoader(loader) /\ IsPart(loader.chunk)
  BY <1>3 DEF Progress
<1>5. loader' = r \/ Fail
  BY DEF LoadEnd
<1>6. /\ IsLoader(r) /\ r.step = "loaded" /\ r.owner = loader.owner
      /\ r.chunk = loader.chunk
  BY <1>4, TurnStep
<1> HIDE DEF r
<1>7. Progress(r, ck, SaverOf(ck, b))
  BY <1>1, <1>3, <1>6, LoadedProgress
<1>8. CASE loader' = r
  BY <1>1, <1>2, <1>3, <1>6, <1>7, <1>8, Works
<1>9. CASE Fail
  <2>1. IsLoader(loader') /\ loader'.step = "failed" /\ loader'.step \in Resting
    BY <1>9, FailRests
  <2> QED
    BY <1>1, <1>2, <2>1, Rests
<1> QED
  BY <1>5, <1>8, <1>9

(* What a list has for a position is code. *)
LEMMA CodeFound ==
  ASSUME DbInv, NEW o \in Position, HasCode(o)
  PROVE  GetCode(o) = Contents[o] /\ Contents[o] # NoCode
<1>1. GetCode(o) = Contents[o]
  BY DEF Contents
<1>2. PICK i \in 1..Len(code_blocks) : code_blocks[i].start_position = o
  BY DEF HasCode
<1>3. IsMap(Contents, code_blocks)
  BY ContentsMap DEF DbInv
<1>4. Contents[o] = code_blocks[i].code
  BY <1>2, <1>3 DEF IsMap
<1>5. code_blocks[i] \in Block
  BY <1>2, ElementOfSeq DEF DbInv
<1>6. code_blocks[i].code \in Code
  BY <1>5 DEF Block
<1> QED
  BY <1>1, <1>4, <1>6, CodeAssumption

LEMMA LoadBeginStep ==
  ASSUME CacheInv, NEW o \in Position, LoadBegin(o)
  PROVE  CacheInv' /\ loader'.step = "constants"
<1> DEFINE c == GetCode(o)
           blocks == LoadBasicBlocks(c, 3)
           p == blocks.pos + 2
           n == At(c, blocks.pos + 1)
           d == [owner |-> o, spill_slot_count |-> At(c, 1), blocks |-> blocks.value,
                 constants |-> <<>>, instructions |-> <<>>, inlined |-> <<>>]
           r == [step |-> "constants", owner |-> o, pos |-> p, left |-> n, chunk |-> d]
<1>1. /\ mode = "load" /\ HasCode(o) /\ UNCHANGED <<vars, binding, saved>>
  BY DEF LoadBegin, processVars
<1>2. IsSynchronized(c, 2) /\ IsSynchronized(c, blocks.pos) => loader' = r
  BY DEF LoadBegin
<1>3. c = Contents[o] /\ Contents[o] # NoCode
  BY <1>1, CodeFound DEF CacheInv
<1>4. Kept(Contents, saved)
  BY <1>1 DEF CacheInv, Current
<1>5. /\ saved[o] \in Chunk /\ saved[o].owner = o
      /\ \E b \in Bindings : SavedAs(Contents[o], saved[o], b)
  BY <1>3, <1>4 DEF Kept
<1>6. PICK ck : ck = saved[o]
  OBVIOUS
<1>7. PICK b \in Bindings : SavedAs(Contents[o], ck, b)
  BY <1>5, <1>6
<1>8. ck \in Chunk /\ ck.owner = o /\ c = Save(ck, SaverOf(ck, b)) /\ IsChunk(ck)
  BY <1>3, <1>5, <1>6, <1>7, ChunkFacts DEF SavedAs
<1>9. blocks = LoadBasicBlocks(c, 3)
  OBVIOUS
<1> HIDE DEF c, blocks
<1>10. d = [owner |-> o, spill_slot_count |-> At(c, 1), blocks |-> blocks.value,
            constants |-> <<>>, instructions |-> <<>>, inlined |-> <<>>]
  OBVIOUS
<1> HIDE DEF p, n, d
<1>11. r.step = "constants" /\ r.owner = o /\ r.pos = p /\ r.left = n /\ r.chunk = d
  BY LoaderFields
<1>12. IsLoader(r)
  BY <1>11 DEF IsLoader
<1> HIDE DEF r
<1>13. /\ IsSynchronized(c, 2) /\ IsSynchronized(c, blocks.pos)
       /\ Progress(r, ck, SaverOf(ck, b))
  BY <1>8, <1>9, <1>10, <1>11, <1>12, BeginProgress DEF p, n
<1>14. loader' = r
  BY <1>2, <1>13
<1>15. AtChunk(r, Contents, saved, ck, b)
  BY <1>6, <1>7, <1>8, <1>11, <1>13 DEF AtChunk
<1>16. Working(r, Contents, saved)
  BY <1>8, <1>15 DEF Working
<1>17. binding' \in Bindings
  BY <1>1 DEF CacheInv
<1> QED
  BY <1>1, <1>11, <1>12, <1>14, <1>16, <1>17, LoaderMoves

-----------------------------------------------------------------------------
(* Every step keeps the invariant; a load that gives up has a cause. *)

CauseStep ==
  /\ loader.step \in {"constants", "instructions"} /\ loader'.step = "failed" => Cause
  /\ loader'.step = "aborted" =>
       loader.step = "aborted" \/ (loader.step = "instructions" /\ Cause)

LEMMA CacheStep == CacheInv /\ [CacheNext]_cacheVars => CacheInv' /\ CauseStep
<1> SUFFICES ASSUME CacheInv, [CacheNext]_cacheVars
             PROVE  CacheInv' /\ CauseStep
  OBVIOUS
<1> DEFINE Quiet == loader' = loader \/ loader'.step \notin {"failed", "aborted"}
<1>0. Quiet => CauseStep
  BY DEF CauseStep
<1>1. CASE \E l \in Literal \ {Root} : MakeFunction(l) \/ Assign(l) \/ CompileLazy(l)
  <2>1. PICK l \in Literal : MakeFunction(l) \/ Assign(l) \/ CompileLazy(l)
    BY <1>1
  <2>2. CacheInv' /\ loader' = Idle
    BY <2>1, ScriptStep
  <2> QED
    BY <1>0, <2>2, IdleIs
<1>2. CASE \E ck \in Chunk : SaveOptimizedCode(ck)
  BY <1>0, <1>2, SaveStep
<1>3. CASE \E p \in Position : DiscardSavedOptimizedCode(p)
  BY <1>0, <1>3, DiscardStep
<1>4. CASE \E p \in Position : LoadBegin(p)
  <2>1. CacheInv' /\ loader'.step = "constants"
    BY <1>4, LoadBeginStep
  <2> QED
    BY <1>0, <2>1
<1>5. CASE Finalize \/ Initialize \/ InitializeBlock
  BY <1>0, <1>5, FileStep
<1>6. CASE LoadConstant
  BY <1>6, LoadConstantStep DEF CauseStep
<1>7. CASE LoadConstantsEnd
  BY <1>0, <1>7, LoadConstantsEndStep
<1>8. CASE LoadInstructionStep
  <2>1. loader.step = "instructions"
    BY <1>8 DEF LoadInstructionStep
  <2> QED
    BY <1>8, <2>1, LoadInstructionStepStep DEF CauseStep
<1>9. CASE LoadInstructionsEnd
  BY <1>0, <1>9, LoadInstructionsEndStep
<1>10. CASE LoadInlined
  <2>1. loader.step = "inlined"
    BY <1>10 DEF LoadInlined
  <2> QED
    BY <1>10, <2>1, LoadInlinedStep DEF CauseStep
<1>11. CASE LoadEnd
  <2>1. loader.step = "inlined"
    BY <1>11 DEF LoadEnd
  <2> QED
    BY <1>11, <2>1, LoadEndStep DEF CauseStep
<1>12. CASE UNCHANGED cacheVars
  <2>1. UNCHANGED <<vars, binding, saved, loader>>
    BY <1>12 DEF cacheVars, processVars
  <2>2. CacheInv'
    BY <2>1, LoaderMoves DEF CacheInv
  <2> QED
    BY <1>0, <2>1, <2>2
<1> QED
  BY <1>1, <1>2, <1>3, <1>4, <1>5, <1>6, <1>7, <1>8, <1>9, <1>10, <1>11, <1>12
     DEF CacheNext

LEMMA LoadedFacts ==
  CacheInv /\ loader.step = "loaded" =>
    \E ck \in Chunk :
      /\ Source = ck /\ IsChunk(ck) /\ Complete(loader, ck)
      /\ loader.chunk.spill_slot_count = ck.spill_slot_count
      /\ loader.chunk.blocks = ck.blocks
<1>1. loader.step = "loaded" => loader.step \in AtWork
  BY DEF AtWork
<1> QED
  BY <1>1, AtWorkFacts DEF Progress

(* A complete chunk is the chunk that was saved. *)
LEMMA LoadedIsSaved == CacheInv => LoadedAsSaved
<1> SUFFICES ASSUME CacheInv, loader.step = "loaded"
             PROVE  LoadedAsSaved
  BY DEF LoadedAsSaved
<1>1. PICK ck \in Chunk :
        /\ Source = ck /\ IsChunk(ck) /\ Complete(loader, ck)
        /\ loader.chunk.spill_slot_count = ck.spill_slot_count
        /\ loader.chunk.blocks = ck.blocks
  BY LoadedFacts
<1>2. Source # NoChunk
  BY <1>1, ChunkAssumption
<1> DEFINE c == loader.chunk
           s == c.instructions
           t == c.inlined
<1>3. /\ ConstantsLoaded(c.constants, ck, Len(LiveIds(ck)))
      /\ InstructionsLoaded(s, ck, Len(ck.instructions))
      /\ InlinedLoaded(t, ck, Len(ck.inlined))
  BY <1>1 DEF Complete
<1>4. \A id \in DOMAIN c.constants : SameConstant(ck.constants[id], c.constants[id])
  BY <1>3 DEF ConstantsLoaded
<1>5. ck.instructions \in Seq(Instructions) /\ ck.inlined \in Seq(Literal)
  BY <1>1 DEF IsChunk
<1>6. t = ck.inlined
  <2>1. t \in Seq(Literal) /\ Len(t) = Len(ck.inlined)
        /\ \A j \in 1..Len(ck.inlined) : t[j] = ck.inlined[j]
    BY <1>3 DEF InlinedLoaded
  <2> HIDE DEF t
  <2> QED
    BY <1>5, <2>1, SeqEqual
<1>7. /\ DOMAIN s = DOMAIN ck.instructions
      /\ \A i \in DOMAIN ck.instructions : SameInstruction(ck.instructions[i], s[i])
  <2>1. s \in Seq(Instructions) /\ Len(s) = Len(ck.instructions)
        /\ \A j \in 1..Len(ck.instructions) : SameInstruction(ck.instructions[j], s[j])
    BY <1>3 DEF InstructionsLoaded
  <2>2. DOMAIN s = 1..Len(s) /\ DOMAIN ck.instructions = 1..Len(ck.instructions)
    BY <1>5, <2>1, LenProperties
  <2> QED
    BY <2>1, <2>2
<1> QED
  BY <1>1, <1>2, <1>4, <1>6, <1>7 DEF LoadedAsSaved

(* The constants of an environment are those of the one it was loaded from. *)
LEMMA SameValues ==
  ASSUME NEW env, NEW loaded, SameEnvironment(env, loaded)
  PROVE  EnvironmentValues(loaded) = EnvironmentValues(env)
BY DEF SameEnvironment, EnvironmentValues

LEMMA LiveIs ==
  ASSUME NEW ck \in Chunk, NEW i \in DOMAIN ck.instructions
  PROVE  ConstantId \cap (ToSet(ck.instructions[i].inputs)
                            \cup EnvironmentValues(ck.instructions[i].env)
                            \cup EnvironmentValues(ck.instructions[i].deferred))
           \subseteq LiveConstants(ck)
<1> DEFINE instr == ck.instructions[i]
<1>1. ASSUME NEW j \in DOMAIN ck.instructions
      PROVE  ConstantId \cap (ToSet(ck.instructions[j].inputs)
                                \cup EnvironmentValues(ck.instructions[j].env))
               \subseteq LiveConstants(ck)
  <2>1. ck.instructions[j] \in ToSet(ck.instructions)
    BY DEF ToSet
  <2> QED
    BY <2>1, Zenon DEF LiveConstants
<1>2. instr.deferred = <<>> \/ \E k \in DOMAIN ck.instructions :
                                 ck.instructions[k].env = instr.deferred
  BY ChunkAssumption
<1>3. CASE instr.deferred = <<>>
  <2>1. EnvironmentValues(instr.deferred) = {}
    BY <1>3 DEF EnvironmentValues
  <2> QED
    BY <1>1, <2>1
<1>4. CASE \E k \in DOMAIN ck.instructions : ck.instructions[k].env = instr.deferred
  <2>1. PICK k \in DOMAIN ck.instructions : ck.instructions[k].env = instr.deferred
    BY <1>4
  <2>2. ConstantId \cap EnvironmentValues(instr.deferred) \subseteq LiveConstants(ck)
    BY <1>1, <2>1
  <2> QED
    BY <1>1, <2>2
<1> QED
  BY <1>2, <1>3, <1>4

LEMMA AllConstantsLoaded == CacheInv => EveryConstantLoaded
<1> SUFFICES ASSUME CacheInv, loader.step = "loaded",
                    NEW instr \in ToSet(loader.chunk.instructions)
             PROVE  ConstantId \cap (ToSet(instr.inputs) \cup EnvironmentValues(instr.env)
                                       \cup EnvironmentValues(instr.deferred))
                      \subseteq DOMAIN loader.chunk.constants
  BY DEF EveryConstantLoaded
<1>1. PICK ck \in Chunk : Source = ck /\ IsChunk(ck) /\ Complete(loader, ck)
  BY LoadedFacts
<1> DEFINE s == loader.chunk.instructions
           m == loader.chunk.constants
<1>2. /\ ConstantsLoaded(m, ck, Len(LiveIds(ck)))
      /\ InstructionsLoaded(s, ck, Len(ck.instructions))
  BY <1>1 DEF Complete
<1>3. LiveConstants(ck) \subseteq DOMAIN m
  <2>1. DOMAIN m = {LiveIds(ck)[j] : j \in 1..Len(LiveIds(ck))}
    BY <1>2 DEF ConstantsLoaded
  <2>2. \A id \in LiveConstants(ck) : \E i \in 1..Len(LiveIds(ck)) : LiveIds(ck)[i] = id
    BY LiveIdsAre
  <2> HIDE DEF m
  <2> QED
    BY <2>1, <2>2
<1>4. PICK i \in DOMAIN s : s[i] = instr
  BY DEF ToSet
<1>5. i \in DOMAIN ck.instructions /\ SameInstruction(ck.instructions[i], instr)
  <2>1. s \in Seq(Instructions) /\ Len(s) = Len(ck.instructions)
        /\ \A j \in 1..Len(ck.instructions) : SameInstruction(ck.instructions[j], s[j])
    BY <1>2 DEF InstructionsLoaded
  <2>2. DOMAIN s = 1..Len(s) /\ DOMAIN ck.instructions = 1..Len(ck.instructions)
    BY <1>1, <2>1, LenProperties DEF IsChunk
  <2> QED
    BY <1>4, <2>1, <2>2
<1> HIDE DEF m
<1>6. /\ instr.inputs = ck.instructions[i].inputs
      /\ EnvironmentValues(instr.env) = EnvironmentValues(ck.instructions[i].env)
      /\ EnvironmentValues(instr.deferred) = EnvironmentValues(ck.instructions[i].deferred)
  BY <1>5, SameValues DEF SameInstruction
<1>7. ConstantId \cap (ToSet(instr.inputs) \cup EnvironmentValues(instr.env)
                         \cup EnvironmentValues(instr.deferred)) \subseteq DOMAIN m
  BY <1>3, <1>5, <1>6, LiveIs
<1> QED
  BY <1>7 DEF m

(* A chunk that LChunkLoader::Load completes is the chunk that was saved     *)
(* last, for any script, any chunks and any order of events in the saving    *)
(* and in the loading process.                                               *)
THEOREM LoadsWhatWasSaved == CacheSpec => []LoadedAsSaved
<1>1. CacheInit => CacheInv
  BY CacheInitial
<1>2. CacheInv /\ [CacheNext]_cacheVars => CacheInv'
  BY CacheStep
<1>3. CacheInv => LoadedAsSaved
  BY LoadedIsSaved
<1> QED
  BY <1>1, <1>2, <1>3, PTL DEF CacheSpec

(* SaveConstants writes down every constant that LookupConstant is asked for *)
(* when the code of the loaded chunk is generated.                           *)
THEOREM ConstantsComplete == CacheSpec => []EveryConstantLoaded
<1>1. CacheInit => CacheInv
  BY CacheInitial
<1>2. CacheInv /\ [CacheNext]_cacheVars => CacheInv'
  BY CacheStep
<1>3. CacheInv => EveryConstantLoaded
  BY AllConstantsLoaded
<1> QED
  BY <1>1, <1>2, <1>3, PTL DEF CacheSpec

(* LoadConstants and LoadInstructions fail only where a top-level function   *)
(* the chunk refers to does not exist yet.                                   *)
THEOREM FailuresHaveCause == CacheSpec => FailureHasCause
<1>1. CacheInit => CacheInv
  BY CacheInitial
<1>2. CacheInv /\ [CacheNext]_cacheVars => CacheInv'
  BY CacheStep
<1>3. CacheInv /\ [CacheNext]_cacheVars =>
        [loader.step \in {"constants", "instructions"} /\ loader'.step = "failed" =>
           \E fn \in FunctionsOf(Source) : Outer(fn) = Root /\ fn \notin made]_cacheVars
  BY CacheStep DEF CauseStep, Cause
<1> QED
  BY <1>1, <1>2, <1>3, PTL DEF CacheSpec, FailureHasCause

(* The CHECK of Synchronize can fail at the end of an instruction only, and  *)
(* only where a top-level function the chunk refers to does not exist yet:   *)
(* the loader is in step after the header, the blocks and the constants.     *)
THEOREM AbortsHaveCause ==
  CacheSpec => [][loader'.step = "aborted" =>
                    \/ loader.step = "aborted"
                    \/ /\ loader.step = "instructions"
                       /\ \E fn \in FunctionsOf(Source) :
                            Outer(fn) = Root /\ fn \notin made]_cacheVars
<1>1. CacheInit => CacheInv
  BY CacheInitial
<1>2. CacheInv /\ [CacheNext]_cacheVars => CacheInv'
  BY CacheStep
<1>3. CacheInv /\ [CacheNext]_cacheVars =>
        [loader'.step = "aborted" =>
           \/ loader.step = "aborted"
           \/ /\ loader.step = "instructions"
              /\ \E fn \in FunctionsOf(Source) :
                   Outer(fn) = Root /\ fn \notin made]_cacheVars
  BY CacheStep DEF CauseStep, Cause
<1> QED
  BY <1>1, <1>2, <1>3, PTL DEF CacheSpec

(* The database steps of the two processes are steps of the database: the    *)
(* cache is one of its clients, and what is proved of it holds here.         *)
LEMMA CacheUsesDatabase == CacheInv /\ [CacheNext]_cacheVars => [Next]_vars
<1> SUFFICES ASSUME CacheInv, [CacheNext]_cacheVars
             PROVE  [Next]_vars
  OBVIOUS
<1>1. CASE \E ck \in Chunk : SaveOptimizedCode(ck)
  <2>1. PICK ck \in Chunk : SaveOptimizedCode(ck)
    BY <1>1
  <2>2. SetCode(ck.owner, Save(ck, Saver(ck.owner)))
    BY <2>1 DEF SaveOptimizedCode
  <2>3. binding \in Bindings /\ Saver(ck.owner) = [owner |-> ck.owner, binding |-> binding]
    BY DEF CacheInv, Saver
  <2>4. \A b \in Bindings : Save(ck, [owner |-> ck.owner, binding |-> b]) \in Code
    BY ChunkAssumption
  <2>5. Save(ck, Saver(ck.owner)) \in Code /\ ck.owner \in Position
    BY <2>3, <2>4, ChunkFacts
  <2> QED
    BY <2>2, <2>5 DEF Next
<1>2. CASE \E p \in Position : DiscardSavedOptimizedCode(p)
  BY <1>2 DEF DiscardSavedOptimizedCode, Next
<1>3. CASE Finalize \/ Initialize \/ InitializeBlock
  BY <1>3 DEF Finalize, Initialize, InitializeBlock, Next
<1>4. CASE \E l \in Literal \ {Root} : MakeFunction(l) \/ Assign(l) \/ CompileLazy(l)
  BY <1>4 DEF MakeFunction, Assign, CompileLazy
<1>5. CASE \/ \E p \in Position : LoadBegin(p)
           \/ LoadConstant \/ LoadConstantsEnd \/ LoadInstructionStep
           \/ LoadInstructionsEnd \/ LoadInlined \/ LoadEnd
  BY <1>5 DEF LoadBegin, LoadConstant, LoadConstantsEnd, LoadInstructionStep,
              LoadInstructionsEnd, LoadInlined, LoadEnd
<1>6. CASE UNCHANGED cacheVars
  BY <1>6 DEF cacheVars
<1> QED
  BY <1>1, <1>2, <1>3, <1>4, <1>5, <1>6 DEF CacheNext

(* With the two processes around it the database still implements the map    *)
(* from positions to code.                                                   *)
THEOREM CacheImplementsMap == CacheSpec => ImplementsMap
<1>1. CacheInit => CacheInv /\ DbInv /\ Map!Init
  BY CacheInitial, DbInit DEF CacheInit
<1>2. CacheInv /\ [CacheNext]_cacheVars => CacheInv' /\ [Next]_vars
  BY CacheStep, CacheUsesDatabase
<1>3. DbInv /\ [Next]_vars => DbInv' /\ [Map!Next]_(Map!mapVars)
  BY DbStep DEF MapStep
<1> QED
  BY <1>1, <1>2, <1>3, PTL DEF CacheSpec, ImplementsMap, Map!Spec

(* ... and Read stays inside its buffer, whatever chunks were saved. *)
THEOREM CacheReadsInBounds == CacheSpec => []ReadInBounds
<1>1. CacheInit => CacheInv
  BY CacheInitial
<1>2. CacheInv /\ [CacheNext]_cacheVars => CacheInv'
  BY CacheStep
<1>3. CacheInv => ReadInBounds
  BY InBounds DEF CacheInv
<1> QED
  BY <1>1, <1>2, <1>3, PTL DEF CacheSpec
=============================================================================
