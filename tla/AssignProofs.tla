---------------------------- MODULE AssignProofs ----------------------------
(***************************************************************************)
(* In every program, the records and payloads keep their types, each       *)
(* payload belongs to one record of its kind (or was lost by a record with *)
(* reference set), and typed and readonly variables keep what TypedStays   *)
(* says.  The comparisons of whatever values come up are those of one      *)
(* order.                                                                  *)
(***************************************************************************)
EXTENDS Assign, TLAPS, FiniteSetTheorems, SequenceTheorems, WellFoundedInduction

-----------------------------------------------------------------------------
(* What the table of plans holds. *)
Rules == {"ignored", "refused", "marked_undefined", "marked_nan", "marked_null", "only_marked_null",
          "refused_or_reference", "checked"}

PlanIs(l, r, plan) ==
  /\ plan.typed \in Rules
  /\ plan.old \in {"overwritten", "realloc", "freed", "freed_if_owned", "destroyed", "none", "kept"}
  /\ plan.old = "overwritten" => /\ l \in Numbers /\ r \in Numbers
                                 /\ l = "int" => r # "float"
                                 /\ l = "char" => r = "char"
  /\ plan.old = "realloc" => l \in {"int", "float", "string"} /\ r \in Numbers \union {"string"}
  /\ plan.old = "kept" => plan.typed = "only_marked_null"
  /\ plan.old = "none" <=> l \in Pointerless
  /\ l = "char" => \/ plan.old \in {"overwritten", "freed_if_owned"}
                   \/ plan.typed = "refused_or_reference"
  /\ plan.typed = "checked" => l \in {"object", "tuple", "struct"} /\ r = l /\ plan.old = "destroyed"
  /\ plan.typed = "ignored" /\ l \notin Pointerless =>
       /\ l \notin {"object", "tuple", "struct"}
       /\ plan.old = "overwritten" \/ r = l

LEMMA PlanFacts ==
  ASSUME NEW l \in Kinds, NEW r \in Kinds
  PROVE  PlanIs(l, r, PlanFor(l, r))
<1>1. CASE l = "int"
  BY <1>1 DEF PlanFor, Row, IntFromScalar, IntFromContainer, IntFromRest, PlanIs, Rules, Plan,
     InPlace, Ignoring, Refusing, Marking, Checking, Kinds, Numbers, Containers, Pointerless
<1>2. CASE l = "float"
  BY <1>2 DEF PlanFor, Row, FloatFromScalar, FloatFromContainer, FloatFromRest, PlanIs, Rules, Plan,
     InPlace, Ignoring, Refusing, Marking, Checking, Kinds, Numbers, Containers, Pointerless
<1>3. CASE l = "char"
  BY <1>3 DEF PlanFor, Row, CharFromScalar, CharFromContainer, CharFromRest, PlanIs, Rules, Plan,
     InPlace, Ignoring, Refusing, Marking, Checking, Kinds, Numbers, Containers, Pointerless
<1>4. CASE l = "string"
  BY <1>4 DEF PlanFor, Row, StringFromScalar, StringFromContainer, StringFromRest, PlanIs, Rules, Plan,
     InPlace, Ignoring, Refusing, Marking, Checking, Kinds, Numbers, Containers, Pointerless
<1>5. CASE l = "object"
  BY <1>5 DEF PlanFor, Row, ObjectFromScalar, ObjectFromContainer, ObjectFromRest, PlanIs, Rules, Plan,
     InPlace, Ignoring, Refusing, Marking, Checking, Kinds, Numbers, Containers, Pointerless
<1>6. CASE l = "tuple"
  BY <1>6 DEF PlanFor, Row, TupleFromScalar, TupleFromContainer, TupleFromRest, PlanIs, Rules, Plan,
     InPlace, Ignoring, Refusing, Marking, Checking, Kinds, Numbers, Containers, Pointerless
<1>7. CASE l = "type"
  BY <1>7 DEF PlanFor, Row, TypeFromScalar, TypeFromContainer, TypeFromRest, PlanIs, Rules, Plan,
     InPlace, Ignoring, Refusing, Marking, Checking, Kinds, Numbers, Containers, Pointerless
<1>8. CASE l = "struct"
  BY <1>8 DEF PlanFor, Row, StructFromScalar, StructFromContainer, StructFromRest, PlanIs, Rules, Plan,
     InPlace, Ignoring, Refusing, Marking, Checking, Kinds, Numbers, Containers, Pointerless
<1>9. CASE l = "null"
  BY <1>9 DEF PlanFor, Row, NullFromScalar, NullFromContainer, NullFromRest, PlanIs, Rules, Plan,
     InPlace, Ignoring, Refusing, Marking, Checking, Kinds, Numbers, Containers, Pointerless
<1>10. CASE l = "undefined"
  BY <1>10 DEF PlanFor, Row, UndefinedFromScalar, UndefinedFromContainer, UndefinedFromRest, PlanIs, Rules, Plan,
     InPlace, Ignoring, Refusing, Marking, Checking, Kinds, Numbers, Containers, Pointerless
<1>11. CASE l = "nan"
  BY <1>11 DEF PlanFor, Row, NanFromScalar, NanFromContainer, NanFromRest, PlanIs, Rules, Plan,
     InPlace, Ignoring, Refusing, Marking, Checking, Kinds, Numbers, Containers, Pointerless
<1>12. CASE l = "proc"
  BY <1>12 DEF PlanFor, Row, ProcFromScalar, ProcFromContainer, ProcFromRest, PlanIs, Rules, Plan,
     InPlace, Ignoring, Refusing, Marking, Checking, Kinds, Numbers, Containers, Pointerless
<1>13. CASE l = "builtin"
  BY <1>13 DEF PlanFor, Row, BuiltinFromScalar, BuiltinFromContainer, BuiltinFromRest, PlanIs, Rules, Plan,
     InPlace, Ignoring, Refusing, Marking, Checking, Kinds, Numbers, Containers, Pointerless
<1> QED
  BY <1>1, <1>2, <1>3, <1>4, <1>5, <1>6, <1>7, <1>8, <1>9, <1>10, <1>11, <1>12, <1>13
     DEF Kinds, Numbers, Containers, Pointerless

-----------------------------------------------------------------------------
(* What the data of values is. *)
IsValue(v) == v.kind \in Kinds /\ v.data \in Data(v.kind) /\ v.flags \subseteq {"null", "undefined", "nan"}


LEMMA DataFacts ==
  ASSUME NEW kind \in Kinds, NEW data \in Data(kind)
  PROVE  /\ data \in Seq(Int)
         /\ kind \in Numbers => Len(data) = 1 /\ data[1] \in Int
         /\ kind = "char" => data[1] \in -128..127
         /\ kind \in {"char", "string"} => \A i \in 1..Len(data) : data[i] \in -128..127
<1>1. data \in Seq(Int)
  BY DEF Data
<1>2. kind \in Numbers => Len(data) = 1
  BY DEF Data
<1>3. kind \in {"char", "string"} => \A i \in 1..Len(data) : data[i] \in -128..127
  BY DEF Data
<1> QED
  BY <1>1, <1>2, <1>3 DEF Numbers

LEMMA OneNumber ==
  /\ \A n \in Int : <<n>> \in Data("int") /\ <<n>> \in Data("float")
  /\ \A n \in -128..127 : <<n>> \in Data("char") /\ <<n>> \in Data("string")
  /\ <<>> \in Data("string")
<1>1. \A n \in Int : <<n>> \in Seq(Int) /\ Len(<<n>>) = 1 /\ <<n>>[1] = n
  OBVIOUS
<1>2. <<>> \in Seq(Int) /\ Len(<<>>) = 0
  OBVIOUS
<1>3. ASSUME NEW n \in Int
      PROVE  <<n>> \in Data("int") /\ <<n>> \in Data("float")
  BY <1>1 DEF Data
<1>4. ASSUME NEW n \in -128..127
      PROVE  <<n>> \in Data("char") /\ <<n>> \in Data("string")
  <2>1. /\ <<n>> \in Seq(Int) /\ Len(<<n>>) = 1
        /\ \A i \in 1..1 : <<n>>[i] \in -128..127
    BY <1>1
  <2> QED
    BY <2>1 DEF Data, Numbers
<1>5. <<>> \in Data("string")
  BY <1>2 DEF Data, Numbers
<1> QED
  BY <1>3, <1>4, <1>5

LEMMA Bytewise ==
  ASSUME NEW data \in Seq(Int), \A i \in 1..Len(data) : data[i] \in -128..127
  PROVE  data \in Data("string")
  BY DEF Data, Numbers

\* The C library sees a part of a string.
LEMMA TextFacts ==
  ASSUME NEW data \in Data("string")
  PROVE  Text(data) \in Data("string") /\ Len(Text(data)) <= Len(data)
<1> DEFINE seen == {i \in DOMAIN data : \A j \in 1..i : data[j] # 0}
           m == Cardinality(seen)
<1>1. /\ data \in Seq(Int) /\ Len(data) \in Nat /\ DOMAIN data = 1..Len(data)
      /\ \A i \in 1..Len(data) : data[i] \in -128..127
  BY DEF Data
<1>2. m \in 0..Len(data)
  <2>1. IsFiniteSet(1..Len(data)) /\ Cardinality(1..Len(data)) = Len(data)
    <3>1. ASSUME NEW n \in Nat
          PROVE  IsFiniteSet(1..n) /\ Cardinality(1..n) = n
      BY FS_Interval
    <3> QED
      BY <1>1, <3>1
  <2>2. seen \in SUBSET (1..Len(data))
    BY <1>1
  <2>3. IsFiniteSet(seen) /\ Cardinality(seen) <= Cardinality(1..Len(data))
    BY <2>1, <2>2, FS_Subset
  <2>4. Cardinality(seen) \in Nat
    BY <2>3, FS_CardinalityType
  <2> HIDE DEF seen
  <2> QED
    BY <1>1, <2>1, <2>3, <2>4
<1> HIDE DEF m
<1>3. /\ SubSeq(data, 1, m) \in Seq(Int)
      /\ Len(SubSeq(data, 1, m)) = m
      /\ \A i \in 1..m : SubSeq(data, 1, m)[i] = data[i]
  <2>1. /\ m \in Nat
        /\ \A i \in 1..m : data[i] \in Int
    BY <1>1, <1>2
  <2>2. /\ SubSeq(data, 1, m) \in Seq(Int)
        /\ Len(SubSeq(data, 1, m)) = IF 1 <= m THEN m - 1 + 1 ELSE 0
        /\ \A i \in 1..m - 1 + 1 : SubSeq(data, 1, m)[i] = data[1 + i - 1]
    BY <2>1, SubSeqProperties
  <2>3. m - 1 + 1 = m /\ (1 <= m \/ m = 0) /\ \A i \in 1..m : 1 + i - 1 = i
    BY <2>1
  <2> QED
    BY <2>1, <2>2, <2>3
<1>4. Text(data) = SubSeq(data, 1, m)
  BY DEF Text, m
<1> DEFINE t == Text(data)
<1>5. t \in Seq(Int) /\ Len(t) <= Len(data) /\ \A i \in 1..Len(t) : t[i] \in -128..127
  BY <1>1, <1>2, <1>3, <1>4
<1> HIDE DEF t
<1>6. t \in Data("string")
  BY <1>5, Bytewise
<1> QED
  BY <1>5, <1>6 DEF t

-----------------------------------------------------------------------------
(* The heap. *)
LEMMA HeapFacts ==
  ASSUME NEW h, IsHeap(h), NEW c \in Cells
  PROVE  /\ h[c].kind = "free" => h[c] = Free
         /\ h[c].kind \in Kinds <=> h[c] \notin Ownerless
         /\ h[c].kind \in Kinds => /\ h[c].kind \in Kinds \ Pointerless
                                  /\ h[c].data \in Data(h[c].kind)
                                  /\ h[c] = Cell(h[c].kind, h[c].data)
<1>1. h[c] \in {Free, Lost} \/ \E k \in Kinds \ Pointerless : h[c] \in [kind : {k}, data : Data(k)]
  BY DEF IsHeap, Ownerless
<1>2. Free.kind = "free" /\ Lost.kind = "lost"
  BY DEF Free, Lost
<1>3. \A k \in Kinds : k # "free" /\ k # "lost"
  BY DEF Kinds, Numbers, Containers, Pointerless
<1>4. ASSUME NEW k \in Kinds \ Pointerless, h[c] \in [kind : {k}, data : Data(k)]
      PROVE  h[c].kind = k /\ h[c].data \in Data(k) /\ h[c] = Cell(h[c].kind, h[c].data)
  BY <1>4 DEF Cell
<1>5. CASE h[c] \in {Free, Lost}
  BY <1>2, <1>3, <1>5 DEF Ownerless
<1>6. CASE \E k \in Kinds \ Pointerless : h[c] \in [kind : {k}, data : Data(k)]
  <2>1. PICK k \in Kinds \ Pointerless : h[c] \in [kind : {k}, data : Data(k)]
    BY <1>6
  <2>2. h[c].kind = k /\ h[c].data \in Data(k) /\ h[c] = Cell(h[c].kind, h[c].data)
    BY <1>4, <2>1
  <2>3. k # "free" /\ k # "lost"
    BY <1>3
  <2> QED
    BY <1>2, <2>2, <2>3 DEF Ownerless
<1> QED
  BY <1>1, <1>5, <1>6

LEMMA HeapStores ==
  ASSUME NEW h, IsHeap(h), NEW c \in Cells, NEW k \in Kinds \ Pointerless, NEW d \in Data(k)
  PROVE  LET g == [h EXCEPT ![c] = Cell(k, d)]
         IN  /\ IsHeap(g)
             /\ g[c].kind = k /\ g[c].data = d /\ g[c] \notin Ownerless
             /\ \A x \in Cells \ {c} : g[x] = h[x]
<1> DEFINE g == [h EXCEPT ![c] = Cell(k, d)]
<1>1. DOMAIN h = Cells /\ DOMAIN g = Cells
  BY DEF IsHeap
<1>2. g[c] = Cell(k, d) /\ \A x \in Cells \ {c} : g[x] = h[x]
  BY <1>1
<1>3. Cell(k, d).kind = k /\ Cell(k, d).data = d /\ Cell(k, d) \in [kind : {k}, data : Data(k)]
  BY DEF Cell
<1>4. k # "free" /\ k # "lost" /\ Free.kind = "free" /\ Lost.kind = "lost"
  BY DEF Kinds, Numbers, Containers, Pointerless, Free, Lost
<1> HIDE DEF g
<1>5. ASSUME NEW x \in Cells
      PROVE  g[x] \in Ownerless \/ \E kk \in Kinds \ Pointerless : g[x] \in [kind : {kk}, data : Data(kk)]
  <2>1. CASE x = c
    BY <1>2, <1>3, <2>1
  <2>2. CASE x # c
    BY <1>2, <2>2 DEF IsHeap
  <2> QED
    BY <2>1, <2>2
<1>6. IsHeap(g)
  BY <1>1, <1>5 DEF IsHeap
<1> QED
  BY <1>2, <1>3, <1>4, <1>6 DEF g, Ownerless

LEMMA HeapFrees ==
  ASSUME NEW h, IsHeap(h), NEW c
  PROVE  LET g == [h EXCEPT ![c] = Free]
         IN  /\ IsHeap(g)
             /\ \A x \in Cells : g[x] = IF x = c THEN Free ELSE h[x]
<1> DEFINE g == [h EXCEPT ![c] = Free]
<1>1. DOMAIN h = Cells /\ DOMAIN g = Cells
  BY DEF IsHeap
<1>2. \A x \in Cells : g[x] = IF x = c THEN Free ELSE h[x]
  BY <1>1
<1> HIDE DEF g
<1>3. IsHeap(g)
  BY <1>1, <1>2 DEF IsHeap, Ownerless
<1> QED
  BY <1>2, <1>3 DEF g

\* A payload gets other data of its kind.
LEMMA HeapWrites ==
  ASSUME NEW h, IsHeap(h), NEW c \in Cells, h[c].kind \in Kinds, NEW d \in Data(h[c].kind)
  PROVE  LET g == [h EXCEPT ![c].data = d]
         IN  /\ IsHeap(g)
             /\ g[c].kind = h[c].kind /\ g[c].data = d /\ g[c] \notin Ownerless
             /\ \A x \in Cells \ {c} : g[x] = h[x]
<1> DEFINE k == h[c].kind
<1>1. k \in Kinds \ Pointerless /\ h[c] = Cell(k, h[c].data)
  BY HeapFacts
<1>2. [h[c] EXCEPT !.data = d] = Cell(k, d)
  <2>1. \A e : [Cell(k, e) EXCEPT !.data = d] = Cell(k, d)
    BY DEF Cell
  <2> QED
    BY <1>1, <2>1
<1>3. [h EXCEPT ![c].data = d] = [h EXCEPT ![c] = Cell(k, d)]
  BY <1>2
<1> HIDE DEF k
<1> QED
  BY <1>1, <1>3, HeapStores DEF k

-----------------------------------------------------------------------------
(* What an assignment may do to the left record and the heap. *)
Fates == {"runs", "aborted", "hung", "corrupted"}

IsLeft(left, h) ==
  /\ left \in Records
  /\ left.kind \in Pointerless => left.cell = 0
  /\ left.off = 0 /\ left.kind \notin Pointerless => left.cell \in Cells /\ h[left.cell].kind = left.kind
  /\ left.off > 0 => left.kind = "char" /\ left.reference /\ left.cell # 0

Owned(left, c) == c = left.cell /\ left.off = 0

\* The record points to what it pointed to, whose data may have changed.
Stays(left, h, o) ==
  /\ o.rec.kind = left.kind /\ o.rec.cell = left.cell /\ o.rec.off = left.off
  /\ \A c \in Cells :
       \/ o.heap[c] = h[c]
       \/ /\ c = left.cell /\ h[c] \notin Ownerless
          /\ o.heap[c] \notin Ownerless /\ o.heap[c].kind = h[c].kind
          /\ left.off > 0 => h[c].kind = "string" /\ Len(o.heap[c].data) = Len(h[c].data)

\* A cell the record has not got any more: what it owned is freed or lost, or
\* forgotten there if reference is set.
Parted(left, h, g, c) ==
  \/ Owned(left, c) /\ g[c] \in Ownerless
  \/ g[c] = h[c] /\ (Owned(left, c) => left.reference)

\* The record owns another payload, its old one under another kind, or none.
Moves(left, h, o) ==
  /\ o.rec.off = 0
  /\ o.rec.kind \in Pointerless => o.rec.cell = 0
  /\ o.rec.kind \notin Pointerless =>
       /\ o.rec.cell \in Cells /\ o.heap[o.rec.cell] \notin Ownerless
       /\ o.heap[o.rec.cell].kind = o.rec.kind
       /\ h[o.rec.cell] = Free \/ Owned(left, o.rec.cell)
  /\ \A c \in Cells \ {o.rec.cell} : Parted(left, h, o.heap, c)

IsOutcome(left, h, o) ==
  /\ o.rec \in Records /\ IsHeap(o.heap) /\ o.fate \in Fates
  /\ o.rec.typed = left.typed /\ o.rec.readonly = left.readonly
  /\ o.rec.reference = left.reference
  /\ Stays(left, h, o) \/ Moves(left, h, o)

LEMMA Unchanged ==
  ASSUME NEW h, IsHeap(h), NEW left, IsLeft(left, h), NEW how \in Fates, NEW ok,
         NEW marks \in SUBSET {"null", "undefined", "nan"}
  PROVE  /\ IsOutcome(left, h, [ok |-> ok, rec |-> left, heap |-> h, fate |-> how])
         /\ LET rec == [left EXCEPT !.flags = marks]
            IN  /\ IsOutcome(left, h, [ok |-> ok, rec |-> rec, heap |-> h, fate |-> how])
                /\ rec.kind = left.kind /\ rec.cell = left.cell /\ rec.off = left.off
                /\ rec.typed = left.typed
<1>1. left \in Records
  BY DEF IsLeft
<1> DEFINE rec == [left EXCEPT !.flags = marks]
<1>2. /\ rec \in Records
      /\ rec.kind = left.kind /\ rec.cell = left.cell /\ rec.off = left.off
      /\ rec.typed = left.typed /\ rec.readonly = left.readonly /\ rec.reference = left.reference
  BY <1>1 DEF Records
<1> HIDE DEF rec
<1> QED
  BY <1>1, <1>2 DEF IsOutcome, Stays, rec

LEMMA NumberFacts ==
  ASSUME NEW r, IsValue(r), r.kind \in Numbers
  PROVE  /\ Halves(r) \in Int
         /\ r.kind \in {"int", "char"} => r.data \in Data("int")
         /\ r.kind = "char" => r.data[1] \in -128..127
<1>1. r.kind \in Kinds /\ r.data \in Data(r.kind)
  BY DEF IsValue
<1>2. r.data \in Seq(Int) /\ Len(r.data) = 1 /\ r.data[1] \in Int
  BY <1>1, DataFacts
<1>3. r.data \in Data("int")
  BY <1>2 DEF Data
<1>4. Halves(r) \in Int
  BY <1>2 DEF Halves
<1>5. r.kind = "char" => r.data[1] \in -128..127
  BY <1>1, DataFacts
<1> QED
  BY <1>3, <1>4, <1>5

LEMMA OverwriteFacts ==
  ASSUME NEW h, IsHeap(h), NEW left, IsLeft(left, h), NEW r, IsValue(r),
         left.kind \in Numbers, r.kind \in Numbers,
         left.kind = "int" => r.kind # "float",
         left.kind = "char" => r.kind = "char",
         NEW o \in Overwrite(left, r, h)
  PROVE  IsOutcome(left, h, o) /\ o.rec.kind = left.kind
<1> DEFINE data == IF left.kind = "float" THEN <<Halves(r)>> ELSE Copied(r)
           rec == [left EXCEPT !.flags = r.flags]
           g == [h EXCEPT ![left.cell].data = data]
           k == [h EXCEPT ![left.cell].data[left.off] = data[1]]
<1>1. left \in Records /\ r.flags \in SUBSET {"null", "undefined", "nan"}
  BY DEF IsLeft, IsValue
<1>2. /\ rec \in Records
      /\ rec.kind = left.kind /\ rec.cell = left.cell /\ rec.off = left.off
      /\ rec.typed = left.typed /\ rec.readonly = left.readonly /\ rec.reference = left.reference
  BY <1>1 DEF Records
<1>3. data \in Data(left.kind)
  <2>1. CASE left.kind = "float"
    BY <2>1, NumberFacts, OneNumber
  <2>2. CASE left.kind = "int"
    <3>1. r.kind \in {"int", "char"} /\ data = r.data
      BY <2>2 DEF Numbers, Copied
    <3> QED
      BY <2>2, <3>1, NumberFacts
  <2>3. CASE left.kind = "char"
    BY <2>3 DEF IsValue, Copied
  <2> QED
    BY <2>1, <2>2, <2>3 DEF Numbers
<1>4. left.off \in Nat /\ left.kind \notin Pointerless
  BY <1>1 DEF Records, Numbers, Pointerless
<1>5. CASE left.off = 0
  <2>1. o = Done(rec, g)
    BY <1>5 DEF Overwrite
  <2>2. left.cell \in Cells /\ h[left.cell].kind = left.kind /\ left.kind \in Kinds
    BY <1>1, <1>4, <1>5 DEF IsLeft, Records
  <2> HIDE DEF data
  <2>3. /\ IsHeap(g)
        /\ g[left.cell].kind = left.kind /\ g[left.cell] \notin Ownerless
        /\ \A x \in Cells \ {left.cell} : g[x] = h[x]
    BY <1>3, <2>2, HeapWrites
  <2>4. h[left.cell] \notin Ownerless
    BY <2>2, HeapFacts
  <2> HIDE DEF rec, g
  <2>5. o.rec = rec /\ o.heap = g /\ o.fate = "runs"
    BY <2>1 DEF Done
  <2>6. Stays(left, h, o)
    BY <1>2, <1>5, <2>2, <2>3, <2>4, <2>5 DEF Stays
  <2> QED
    BY <1>2, <2>3, <2>5, <2>6 DEF IsOutcome, Fates
<1>6. CASE left.off > 0
  <2>1. CASE h[left.cell].kind = "string" /\ left.off <= Len(h[left.cell].data)
    <3>1. o = Done(rec, k)
      BY <1>4, <1>6, <2>1 DEF Overwrite
    <3> HIDE DEF rec
    <3>2. o.rec = rec /\ o.heap = k /\ o.fate = "runs"
      BY <3>1 DEF Done
    <3>0. left.cell \in Cells
      BY <1>1, <1>6 DEF IsLeft, Records
    <3>3. CASE left.cell \in Cells
      <4> DEFINE c == left.cell
                 d == [h[c].data EXCEPT ![left.off] = data[1]]
      <4>1. data[1] \in -128..127
        <5>1. left.kind = "char" /\ r.kind = "char"
          BY <1>6 DEF IsLeft
        <5>2. data = r.data
          BY <5>1 DEF Copied
        <5> QED
          BY <5>1, <5>2, NumberFacts DEF Numbers
      <4>0. "string" \in Kinds
        BY DEF Kinds
      <4>2. h[c].data \in Data("string")
        BY <2>1, <3>3, <4>0, HeapFacts
      <4>3. /\ h[c].data \in Seq(Int) /\ left.off \in 1..Len(h[c].data)
            /\ \A i \in 1..Len(h[c].data) : h[c].data[i] \in -128..127
        BY <1>4, <1>6, <2>1, <4>2, DataFacts DEF Kinds
      <4> DEFINE b == data[1]
      <4> HIDE DEF data, b
      <4>4. d \in Data("string") /\ Len(d) = Len(h[c].data)
        <5>1. b \in -128..127
          BY <4>1 DEF b
        <5>2. ASSUME NEW s \in Seq(Int), NEW i \in 1..Len(s), \A j \in 1..Len(s) : s[j] \in -128..127
              PROVE  LET t == [s EXCEPT ![i] = b]
                     IN  /\ t \in Seq(Int) /\ Len(t) = Len(s)
                         /\ \A j \in 1..Len(t) : t[j] \in -128..127
          BY <5>1, <5>2
        <5>3. d = [h[c].data EXCEPT ![left.off] = b]
          BY DEF b
        <5> HIDE DEF d
        <5>4. d \in Seq(Int) /\ Len(d) = Len(h[c].data) /\ \A j \in 1..Len(d) : d[j] \in -128..127
          BY <4>3, <5>2, <5>3
        <5> QED
          BY <5>4, Bytewise
      <4>5. k = [h EXCEPT ![c].data = d]
        OBVIOUS
      <4> HIDE DEF d, k
      <4>6. /\ IsHeap(k)
            /\ k[c].kind = "string" /\ k[c].data = d /\ k[c] \notin Ownerless
            /\ \A x \in Cells \ {c} : k[x] = h[x]
        <5>1. c \in Cells /\ h[c].kind \in Kinds /\ d \in Data(h[c].kind)
          BY <2>1, <3>3, <4>0, <4>4
        <5>3. h[c].kind = "string"
          BY <2>1
        <5> HIDE DEF c
        <5>2. LET m == [h EXCEPT ![c].data = d]
              IN  /\ IsHeap(m)
                  /\ m[c].kind = h[c].kind /\ m[c].data = d /\ m[c] \notin Ownerless
                  /\ \A x \in Cells \ {c} : m[x] = h[x]
          BY ONLY IsHeap(h), <5>1, HeapWrites
        <5> QED
          BY <4>5, <5>2, <5>3
      <4>7. h[c] \notin Ownerless
        BY <2>1, <3>3, <4>0, HeapFacts
      <4>8. Stays(left, h, o)
        BY <1>2, <2>1, <3>2, <3>3, <4>4, <4>6, <4>7 DEF Stays
      <4> QED
        BY <1>2, <3>2, <4>6, <4>8 DEF IsOutcome, Fates
    <3> QED
      BY <3>0, <3>3
  <2>2. CASE ~(h[left.cell].kind = "string" /\ left.off <= Len(h[left.cell].data))
    <3>1. o = Stopped(left, h, "corrupted")
      BY <1>4, <1>6, <2>2 DEF Overwrite
    <3>2. o = [ok |-> FALSE, rec |-> left, heap |-> h, fate |-> "corrupted"]
      BY <3>1 DEF Stopped
    <3>3. o.rec = left
      BY <3>2
    <3> QED
      BY <3>2, <3>3, Unchanged DEF Fates
  <2> QED
    BY <2>1, <2>2
<1> QED
  BY <1>4, <1>5, <1>6

LEMMA CopiedFacts ==
  ASSUME NEW r, IsValue(r)
  PROVE  Copied(r) \in Data(r.kind)
  BY TextFacts DEF Copied, IsValue

LEMMA ReadLateFacts ==
  ASSUME NEW left, NEW r, IsValue(r), r.kind \in Numbers \union {"string"}, NEW moved,
         NEW d \in ReadLate(left, r, moved)
  PROVE  d \in Data(r.kind)
<1>1. CASE d = Copied(r)
  BY <1>1, CopiedFacts
<1>2. CASE \E g \in Garbage : d = <<g>>
  <2>1. PICK g \in Garbage : d = <<g>>
    BY <1>2
  <2>2. g \in -128..127 /\ g \in Int
    BY AssignAssumption, ValuesAssumption
  <2> QED
    BY <2>1, <2>2, OneNumber DEF Numbers
<1>3. CASE r.kind = "string" /\ d = <<>>
  BY <1>3, OneNumber
<1> QED
  BY <1>1, <1>2, <1>3 DEF ReadLate

LEMMA ReallocateFacts ==
  ASSUME NEW h, IsHeap(h), NEW left, IsLeft(left, h), NEW r, IsValue(r),
         left.kind \in {"int", "float", "string"}, r.kind \in Numbers \union {"string"},
         NEW o \in Reallocate(left, r, h)
  PROVE  IsOutcome(left, h, o) /\ o.rec.kind = r.kind
<1> DEFINE rec(c) == [left EXCEPT !.kind = r.kind, !.cell = c, !.off = 0, !.flags = r.flags]
<1>1. /\ left \in Records /\ r.flags \in SUBSET {"null", "undefined", "nan"} /\ r.kind \in Kinds
      /\ r.kind \notin Pointerless /\ left.kind \notin Pointerless
  BY DEF IsLeft, IsValue, Numbers, Pointerless
<1>2. left.off = 0 /\ left.cell \in Cells /\ h[left.cell].kind = left.kind
  BY <1>1 DEF IsLeft, Records
<1>3. ASSUME NEW c \in Cells
      PROVE  /\ rec(c) \in Records
             /\ rec(c).kind = r.kind /\ rec(c).cell = c /\ rec(c).off = 0
             /\ rec(c).typed = left.typed /\ rec(c).readonly = left.readonly
             /\ rec(c).reference = left.reference
  BY <1>1 DEF Records
<1>4. CASE \E d \in ReadLate(left, r, FALSE) :
             o = Done(rec(left.cell), [h EXCEPT ![left.cell] = Cell(r.kind, d)])
  <2>1. PICK d \in ReadLate(left, r, FALSE) :
             o = Done(rec(left.cell), [h EXCEPT ![left.cell] = Cell(r.kind, d)])
    BY <1>4
  <2> DEFINE g == [h EXCEPT ![left.cell] = Cell(r.kind, d)]
  <2>2. d \in Data(r.kind)
    BY ReadLateFacts
  <2>3. /\ IsHeap(g)
        /\ g[left.cell].kind = r.kind /\ g[left.cell] \notin Ownerless
        /\ \A x \in Cells \ {left.cell} : g[x] = h[x]
    BY <1>1, <1>2, <2>2, HeapStores
  <2> HIDE DEF g, rec
  <2>4. o.rec = rec(left.cell) /\ o.heap = g /\ o.fate = "runs"
    BY <2>1 DEF Done, g
  <2>5. Moves(left, h, o)
    BY <1>1, <1>2, <1>3, <2>3, <2>4 DEF Moves, Parted, Owned
  <2> QED
    BY <1>2, <1>3, <2>3, <2>4, <2>5 DEF IsOutcome, Fates
<1>5. CASE \E c \in Fresh(h) : \E d \in ReadLate(left, r, TRUE) :
             o = Done(rec(c), [h EXCEPT ![left.cell] = Free, ![c] = Cell(r.kind, d)])
  <2>1. PICK c \in Fresh(h), d \in ReadLate(left, r, TRUE) :
             o = Done(rec(c), [h EXCEPT ![left.cell] = Free, ![c] = Cell(r.kind, d)])
    BY <1>5
  <2> DEFINE f == [h EXCEPT ![left.cell] = Free]
             g == [f EXCEPT ![c] = Cell(r.kind, d)]
  <2>2. d \in Data(r.kind)
    BY ReadLateFacts
  <2>3. c \in Cells /\ h[c] = Free
    BY HeapFacts DEF Fresh
  <2>4. IsHeap(f) /\ \A x \in Cells : f[x] = IF x = left.cell THEN Free ELSE h[x]
    BY HeapFrees
  <2>6. o = Done(rec(c), g)
    BY <2>1
  <2> HIDE DEF f
  <2>5. /\ IsHeap(g)
        /\ g[c].kind = r.kind /\ g[c] \notin Ownerless
        /\ \A x \in Cells \ {c} : g[x] = f[x]
    BY <1>1, <2>2, <2>3, <2>4, HeapStores
  <2> HIDE DEF g, rec
  <2>7. o.rec = rec(c) /\ o.heap = g /\ o.fate = "runs"
    BY <2>6 DEF Done
  <2>8. Moves(left, h, o)
    BY <1>1, <1>2, <1>3, <2>3, <2>4, <2>5, <2>7 DEF Moves, Parted, Owned, Ownerless
  <2> QED
    BY <1>3, <2>3, <2>5, <2>7, <2>8 DEF IsOutcome, Fates
<1> QED
  BY <1>4, <1>5 DEF Reallocate

\* How a payload may be released: a reference's only if nothing is.
MayRelease(left, old) ==
  /\ old \in {"freed", "freed_if_owned", "destroyed", "none"}
  /\ old = "none" => left.kind \in Pointerless
  /\ left.kind \in Pointerless => old = "none"
  /\ left.off > 0 => old = "freed_if_owned"

LEMMA ReleaseFacts ==
  ASSUME NEW h, IsHeap(h), NEW left, IsLeft(left, h),
         NEW old, MayRelease(left, old)
  PROVE  /\ IsHeap(Release(left, old, h))
         /\ \A x \in Cells : Parted(left, h, Release(left, old, h), x)
<1>1. left.off \in Nat
  BY DEF IsLeft, Records
<1>2. CASE old = "none"
  <2>1. left.cell \notin Cells
    BY <1>2, AssignAssumption DEF IsLeft, MayRelease
  <2>2. Release(left, old, h) = h
    BY <1>2 DEF Release
  <2> QED
    BY <2>1, <2>2 DEF Parted, Owned
<1>3. CASE old = "freed_if_owned" /\ left.reference
  <2>1. Release(left, old, h) = h
    BY <1>3 DEF Release
  <2> QED
    BY <1>3, <2>1 DEF Parted
<1>4. CASE ~(old = "none" \/ (old = "freed_if_owned" /\ left.reference))
  <2>0. left.off > 0 => left.reference
    BY DEF IsLeft
  <2>1. left.off = 0
    <3>1. ~(left.off > 0)
      BY <1>4, <2>0, Zenon DEF MayRelease
    <3> QED
      BY <1>1, <3>1
  <2>2. Release(left, old, h) = [h EXCEPT ![left.cell] = Free]
    BY <1>4 DEF Release
  <2> DEFINE g == [h EXCEPT ![left.cell] = Free]
  <2>3. IsHeap(g) /\ \A x \in Cells : g[x] = IF x = left.cell THEN Free ELSE h[x]
    BY HeapFrees
  <2> HIDE DEF g
  <2>4. \A x \in Cells : Parted(left, h, g, x)
    BY <2>1, <2>3 DEF Parted, Owned, Ownerless
  <2> QED
    BY <2>2, <2>3, <2>4 DEF g
<1> QED
  BY <1>2, <1>3, <1>4

LEMMA ReplaceFacts ==
  ASSUME NEW h, IsHeap(h), NEW left, IsLeft(left, h), NEW r, IsValue(r), NEW plan,
         MayRelease(left, plan.old),
         NEW o \in Replace(left, r, plan, h)
  PROVE  /\ IsOutcome(left, h, o) /\ o.rec.kind = r.kind
         /\ r.kind \notin Pointerless => o.heap[o.rec.cell].data = Copied(r)
<1> DEFINE flags == IF plan.flags = "kept" THEN left.flags ELSE r.flags
           rec(c) == [left EXCEPT !.kind = r.kind, !.cell = c, !.off = 0, !.flags = flags]
           f == Release(left, plan.old, h)
<1>1. left \in Records /\ flags \in SUBSET {"null", "undefined", "nan"} /\ r.kind \in Kinds
  BY DEF IsLeft, IsValue, Records
<1>2. IsHeap(f) /\ \A x \in Cells : Parted(left, h, f, x)
  BY ReleaseFacts
<1> HIDE DEF flags
<1>3. ASSUME NEW c \in Cells \union {0}
      PROVE  /\ rec(c) \in Records
             /\ rec(c).kind = r.kind /\ rec(c).cell = c /\ rec(c).off = 0
             /\ rec(c).typed = left.typed /\ rec(c).readonly = left.readonly
             /\ rec(c).reference = left.reference
  BY <1>1 DEF Records
<1>4. CASE r.kind \in Pointerless
  <2>1. o = Done(rec(0), f)
    BY <1>4 DEF Replace, flags
  <2> HIDE DEF f, rec
  <2>2. o.rec = rec(0) /\ o.heap = f /\ o.fate = "runs"
    BY <2>1 DEF Done
  <2>3. Moves(left, h, o)
    BY <1>2, <1>3, <1>4, <2>2 DEF Moves
  <2> QED
    BY <1>2, <1>3, <1>4, <2>2, <2>3 DEF IsOutcome, Fates
<1>5. CASE r.kind \notin Pointerless
  <2>1. PICK c \in Fresh(h) : o = Done(rec(c), [f EXCEPT ![c] = Cell(r.kind, Copied(r))])
    BY <1>5 DEF Replace, flags
  <2> DEFINE g == [f EXCEPT ![c] = Cell(r.kind, Copied(r))]
  <2>2. Copied(r) \in Data(r.kind)
    BY CopiedFacts
  <2>3. c \in Cells /\ h[c] = Free
    BY HeapFacts DEF Fresh
  <2>4. o = Done(rec(c), g)
    BY <2>1
  <2> HIDE DEF f
  <2>5. /\ IsHeap(g)
        /\ g[c].kind = r.kind /\ g[c].data = Copied(r) /\ g[c] \notin Ownerless
        /\ \A x \in Cells \ {c} : g[x] = f[x]
    BY <1>1, <1>2, <1>5, <2>2, <2>3, HeapStores
  <2> HIDE DEF g, rec
  <2>6. o.rec = rec(c) /\ o.heap = g /\ o.fate = "runs"
    BY <2>4 DEF Done
  <2>7. Moves(left, h, o)
    BY <1>2, <1>3, <1>5, <2>3, <2>5, <2>6 DEF Moves, Parted
  <2> QED
    BY <1>3, <2>3, <2>5, <2>6, <2>7 DEF IsOutcome, Fates
<1> QED
  BY <1>4, <1>5

LEMMA StoreFacts ==
  ASSUME NEW h, IsHeap(h), NEW left, IsLeft(left, h), NEW r, IsValue(r), NEW plan,
         PlanIs(left.kind, r.kind, plan), plan.typed # "only_marked_null",
         left.off = 0 \/ plan.typed # "refused_or_reference",
         NEW o \in Store(left, r, plan, h)
  PROVE  /\ IsOutcome(left, h, o)
         /\ o.rec.kind = IF plan.old = "overwritten" THEN left.kind ELSE r.kind
         /\ plan.old = "destroyed" /\ r.kind \notin Pointerless =>
              o.heap[o.rec.cell].data = Copied(r)
<1>1. CASE plan.old = "overwritten"
  <2>1. o \in Overwrite(left, r, h)
    BY <1>1 DEF Store
  <2>2. /\ left.kind \in Numbers /\ r.kind \in Numbers
        /\ left.kind = "int" => r.kind # "float"
        /\ left.kind = "char" => r.kind = "char"
    BY <1>1 DEF PlanIs
  <2>3. IsOutcome(left, h, o) /\ o.rec.kind = left.kind
    BY <2>1, <2>2, OverwriteFacts
  <2> QED
    BY <1>1, <2>3
<1>2. CASE plan.old = "realloc"
  <2>1. o \in Reallocate(left, r, h)
    BY <1>2 DEF Store
  <2>2. left.kind \in {"int", "float", "string"} /\ r.kind \in Numbers \union {"string"}
    BY <1>2 DEF PlanIs
  <2>3. IsOutcome(left, h, o) /\ o.rec.kind = r.kind
    BY <2>1, <2>2, ReallocateFacts
  <2> QED
    BY <1>2, <2>3
<1>3. CASE plan.old \notin {"overwritten", "realloc"}
  <2>1. o \in Replace(left, r, plan, h)
    BY <1>3 DEF Store
  <2>2. MayRelease(left, plan.old)
    <3>0. ASSUME left.off > 0
          PROVE  left.off # 0
      <4>1. left.off \in Nat
        BY DEF IsLeft, Records
      <4> QED
        BY <3>0, <4>1
    <3>1. left.off > 0 => left.kind = "char" /\ left.off # 0
      BY <3>0, Zenon DEF IsLeft
    <3>2. left.off > 0 => plan.old = "freed_if_owned"
      BY <1>3, <3>1, Zenon DEF PlanIs
    <3>3. /\ plan.old \in {"freed", "freed_if_owned", "destroyed", "none"}
          /\ plan.old = "none" => left.kind \in Pointerless
          /\ left.kind \in Pointerless => plan.old = "none"
      BY <1>3 DEF PlanIs
    <3> QED
      BY <3>2, <3>3, Zenon DEF MayRelease
  <2>3. /\ IsOutcome(left, h, o) /\ o.rec.kind = r.kind
        /\ r.kind \notin Pointerless => o.heap[o.rec.cell].data = Copied(r)
    BY <2>1, <2>2, ReplaceFacts
  <2> QED
    BY <1>3, <2>3
<1> QED
  BY <1>1, <1>2, <1>3

\* A typed record stays what it is, a readonly one altogether.
Keeps(left, h, o) ==
  /\ left.typed /\ left.kind \notin Pointerless =>
       /\ o.rec.kind = left.kind
       /\ left.kind \in {"object", "tuple", "struct"} =>
            SameShape(left.kind, h[left.cell].data, o.heap[o.rec.cell].data)
  /\ left.readonly => o.rec = left /\ o.heap = h

LEMMA SetValueFacts ==
  ASSUME NEW h, IsHeap(h), NEW left, IsLeft(left, h), NEW r, IsValue(r),
         NEW o \in SetValue(left, r, h)
  PROVE  IsOutcome(left, h, o) /\ Keeps(left, h, o)
<1> DEFINE plan == PlanFor(left.kind, r.kind)
           rule == plan.typed
<1>1. /\ left \in Records /\ left.kind \in Kinds /\ r.kind \in Kinds
      /\ left.flags \in SUBSET {"null", "undefined", "nan"}
      /\ r.flags \in SUBSET {"null", "undefined", "nan"}
  BY DEF IsLeft, Records, IsValue
<1>2. PlanIs(left.kind, r.kind, plan)
  BY <1>1, PlanFacts
<1>3. \A kind, d : SameShape(kind, d, d)
  BY DEF SameShape
<1> HIDE DEF plan
<1>4. ASSUME o = Refused(left, h)
      PROVE  IsOutcome(left, h, o) /\ Keeps(left, h, o)
  <2>1. o = [ok |-> FALSE, rec |-> left, heap |-> h, fate |-> "runs"]
    BY <1>4 DEF Refused
  <2>2. IsOutcome(left, h, o)
    BY <2>1, Unchanged DEF Fates
  <2>3. o.rec = left /\ o.heap = h
    BY <2>1
  <2> QED
    BY <1>3, <2>2, <2>3 DEF Keeps
<1>5. ASSUME NEW marks \in SUBSET {"null", "undefined", "nan"}, o \in Marked(left, marks, h),
             ~left.readonly
      PROVE  IsOutcome(left, h, o) /\ Keeps(left, h, o)
  <2> DEFINE rec == [left EXCEPT !.flags = marks]
  <2>1. o = [ok |-> TRUE, rec |-> rec, heap |-> h, fate |-> "runs"]
    BY <1>5 DEF Marked, Done
  <2>2. IsOutcome(left, h, o) /\ rec.kind = left.kind /\ rec.cell = left.cell
    BY <1>1, <2>1, Unchanged DEF Fates
  <2>3. o.rec = rec /\ o.heap = h
    BY <2>1
  <2> HIDE DEF rec
  <2> QED
    BY <1>3, <1>5, <2>2, <2>3 DEF Keeps
<1>6. ASSUME o \in Store(left, r, plan, h), ~left.readonly, rule # "only_marked_null",
             ~(rule = "refused_or_reference" /\ (left.typed \/ left.reference)),
             left.typed => \/ rule = "ignored"
                           \/ rule = "checked" /\ SameShape(left.kind, h[left.cell].data, r.data)
      PROVE  IsOutcome(left, h, o) /\ Keeps(left, h, o)
  <2>1. left.off = 0 \/ rule # "refused_or_reference"
    <3>1. left.off = 0 \/ left.off > 0
      BY <1>1 DEF Records
    <3> QED
      BY <1>6, <3>1, Zenon DEF IsLeft
  <2>2. /\ IsOutcome(left, h, o)
        /\ o.rec.kind = IF plan.old = "overwritten" THEN left.kind ELSE r.kind
        /\ plan.old = "destroyed" /\ r.kind \notin Pointerless =>
             o.heap[o.rec.cell].data = Copied(r)
    <3>1. o \in Store(left, r, plan, h) /\ rule # "only_marked_null"
      BY <1>6
    <3> QED
      BY <1>2, <2>1, <3>1, StoreFacts
  <2>3. ASSUME left.typed, left.kind \notin Pointerless
        PROVE  /\ o.rec.kind = left.kind
               /\ left.kind \in {"object", "tuple", "struct"} =>
                    SameShape(left.kind, h[left.cell].data, o.heap[o.rec.cell].data)
    <3>1. CASE rule = "ignored"
      <4>1. /\ left.kind \notin {"object", "tuple", "struct"}
            /\ plan.old = "overwritten" \/ r.kind = left.kind
        BY <1>2, <2>3, <3>1, Zenon DEF PlanIs
      <4> QED
        BY <2>2, <4>1
    <3>2. CASE rule = "checked" /\ SameShape(left.kind, h[left.cell].data, r.data)
      <4>1. left.kind \in {"object", "tuple", "struct"} /\ r.kind = left.kind /\ plan.old = "destroyed"
        BY <1>2, <3>2 DEF PlanIs
      <4>2. r.kind # "string" /\ r.kind \notin Pointerless
        BY <4>1 DEF Pointerless
      <4>3. o.heap[o.rec.cell].data = r.data /\ o.rec.kind = left.kind
        BY <2>2, <4>1, <4>2 DEF Copied
      <4> QED
        BY <3>2, <4>3, Zenon
    <3> QED
      BY <1>6, <2>3, <3>1, <3>2, Zenon
  <2> QED
    BY <1>6, <2>2, <2>3, Zenon DEF Keeps
<1>7. CASE left.readonly
  <2>1. SetValue(left, r, h) = {Refused(left, h)}
    BY <1>7 DEF SetValue
  <2>2. o = Refused(left, h)
    BY <2>1
  <2> QED
    BY <1>4, <2>2
<1>8. CASE ~left.readonly
  <2>1. CASE rule = "only_marked_null"
    <3>1. o \in Marked(left, left.flags \union {"null"}, h)
      BY <1>8, <2>1 DEF SetValue, plan
    <3>2. left.flags \union {"null"} \in SUBSET {"null", "undefined", "nan"}
      BY <1>1
    <3> QED
      BY <1>5, <1>8, <3>1, <3>2
  <2>2. CASE rule = "refused_or_reference" /\ (left.typed \/ left.reference)
    <3>1. o = Refused(left, h)
      BY <1>8, <2>2 DEF SetValue, plan
    <3> QED
      BY <1>4, <3>1
  <2>3. CASE rule = "refused" /\ left.typed
    <3>1. o = Refused(left, h)
      BY <1>8, <2>3 DEF SetValue, plan
    <3> QED
      BY <1>4, <3>1
  <2>4. CASE rule = "checked" /\ left.typed /\ ~SameShape(left.kind, h[left.cell].data, r.data)
    <3>1. o = Refused(left, h)
      BY <1>8, <2>4 DEF SetValue, plan
    <3> QED
      BY <1>4, <3>1
  <2>5. CASE rule = "marked_undefined" /\ left.typed
    <3>1. o \in Marked(left, r.flags \union {"undefined"}, h)
      BY <1>8, <2>5 DEF SetValue, plan
    <3>2. r.flags \union {"undefined"} \in SUBSET {"null", "undefined", "nan"}
      BY <1>1
    <3> QED
      BY <1>5, <1>8, <3>1, <3>2
  <2>6. CASE rule = "marked_nan" /\ left.typed
    <3>1. o \in Marked(left, left.flags \union {"nan"}, h)
      BY <1>8, <2>6 DEF SetValue, plan
    <3>2. left.flags \union {"nan"} \in SUBSET {"null", "undefined", "nan"}
      BY <1>1
    <3> QED
      BY <1>5, <1>8, <3>1, <3>2
  <2>7. CASE rule = "marked_null" /\ left.typed
    <3>1. o \in Marked(left, left.flags \union {"null"}, h)
      BY <1>8, <2>7 DEF SetValue, plan
    <3>2. left.flags \union {"null"} \in SUBSET {"null", "undefined", "nan"}
      BY <1>1
    <3> QED
      BY <1>5, <1>8, <3>1, <3>2
  <2>8. CASE /\ rule # "only_marked_null"
             /\ ~(rule = "refused_or_reference" /\ (left.typed \/ left.reference))
             /\ ~(rule = "refused" /\ left.typed)
             /\ ~(rule = "checked" /\ left.typed /\ ~SameShape(left.kind, h[left.cell].data, r.data))
             /\ ~(rule = "marked_undefined" /\ left.typed)
             /\ ~(rule = "marked_nan" /\ left.typed)
             /\ ~(rule = "marked_null" /\ left.typed)
    <3>1. o \in Store(left, r, plan, h)
      BY <1>8, <2>8 DEF SetValue, plan
    <3>2. left.typed => \/ rule = "ignored"
                        \/ rule = "checked" /\ SameShape(left.kind, h[left.cell].data, r.data)
      BY <1>2, <2>8, Zenon DEF PlanIs, Rules
    <3> QED
      BY <1>6, <1>8, <2>8, <3>1, <3>2
  <2> QED
    BY <2>1, <2>2, <2>3, <2>4, <2>5, <2>6, <2>7, <2>8
<1> QED
  BY <1>7, <1>8

\* What a step may do to a variable whose record is rec: TypedStays, for one
\* variable.
OneKept(rec, new, h, g) ==
  /\ rec.typed /\ rec.kind \notin Pointerless =>
       /\ new.kind = rec.kind /\ new.typed
       /\ rec.kind \in {"object", "tuple", "struct"} =>
            SameShape(rec.kind, h[rec.cell].data, g[new.cell].data)
  /\ rec.readonly =>
       /\ new = rec
       /\ rec.cell # 0 /\ rec.off = 0 => SameOutside(h[rec.cell], g[rec.cell])

\* Nothing stays allocated that the record has dropped.
Settled(left, o) == \A c \in Cells \ {o.rec.cell} : Owned(left, c) => o.heap[c] \in Ownerless

\* The outcome with what is lost made out.
Final(left, o) == [ok |-> o.ok, rec |-> o.rec, heap |-> After(left, o), fate |-> o.fate]

LEMMA AfterFacts ==
  ASSUME NEW h, IsHeap(h), NEW left, IsLeft(left, h), NEW o, IsOutcome(left, h, o), Keeps(left, h, o)
  PROVE  LET a == Final(left, o)
         IN  IsOutcome(left, h, a) /\ OneKept(left, a.rec, h, a.heap)
             /\ (Stays(left, h, a) \/ (Moves(left, h, a) /\ Settled(left, a)))
<1> DEFINE a == Final(left, o)
           g == After(left, o)
<1>1. a.rec = o.rec /\ a.heap = g /\ a.fate = o.fate
  BY DEF Final
<1>2. \A c \in Cells :
        /\ g[c] \in {o.heap[c], Lost}
        /\ g[c] # o.heap[c] => left.reference /\ Owned(left, c) /\ c # o.rec.cell
        /\ left.reference /\ Owned(left, c) /\ c # o.rec.cell => g[c] \in Ownerless
  BY DEF After, Owned, Ownerless
<1>3. DOMAIN g = Cells
  BY DEF After
<1> HIDE DEF a, g
<1>4. IsHeap(g)
  BY <1>2, <1>3 DEF IsHeap, IsOutcome, Ownerless
<1>5. ASSUME Stays(left, h, o)
      PROVE  Stays(left, h, a)
  <2>1. \A c \in Cells : g[c] = o.heap[c]
    BY <1>2, <1>5 DEF Stays, Owned
  <2> QED
    BY <1>1, <1>5, <2>1 DEF Stays
<1>6. ASSUME Moves(left, h, o)
      PROVE  Moves(left, h, a) /\ Settled(left, a)
  <2>1. \A c \in Cells \ {o.rec.cell} : Parted(left, h, o.heap, c)
    BY <1>6 DEF Moves
  <2>2. \A c \in Cells \ {o.rec.cell} : Parted(left, h, g, c) /\ (Owned(left, c) => g[c] \in Ownerless)
    BY <1>2, <2>1 DEF Parted, Ownerless
  <2>3. o.rec.cell \in Cells => g[o.rec.cell] = o.heap[o.rec.cell]
    BY <1>2
  <2>4. /\ o.rec.off = 0
        /\ o.rec.kind \in Pointerless => o.rec.cell = 0
        /\ o.rec.kind \notin Pointerless =>
             /\ o.rec.cell \in Cells /\ o.heap[o.rec.cell] \notin Ownerless
             /\ o.heap[o.rec.cell].kind = o.rec.kind
             /\ h[o.rec.cell] = Free \/ Owned(left, o.rec.cell)
    BY <1>6, Zenon DEF Moves
  <2> QED
    BY <1>1, <2>2, <2>3, <2>4 DEF Moves, Settled
<1>7. IsOutcome(left, h, a)
  BY <1>1, <1>4, <1>5, <1>6, Zenon DEF IsOutcome
<1>8. OneKept(left, a.rec, h, a.heap)
  <2>1. left.typed => o.rec.typed
    BY Zenon DEF IsOutcome
  <2>2. o.rec.cell \in Cells => g[o.rec.cell] = o.heap[o.rec.cell]
    BY <1>2
  <2>3. o.rec.cell \in Cells \union {0} /\ left.cell \in Cells \union {0}
    BY DEF IsOutcome, IsLeft, Records
  <2>4. left.readonly => o.rec = left /\ (left.cell # 0 => g[left.cell] = h[left.cell])
    BY <2>2, <2>3 DEF Keeps
  <2>5. ASSUME left.typed, left.kind \notin Pointerless, left.kind \in {"object", "tuple", "struct"}
        PROVE  SameShape(left.kind, h[left.cell].data, g[o.rec.cell].data)
    <3>1. /\ o.rec.kind = left.kind
          /\ SameShape(left.kind, h[left.cell].data, o.heap[o.rec.cell].data)
      BY <2>5 DEF Keeps
    <3>2. o.rec.cell \in Cells
      <4>1. left.kind # "char"
        BY <2>5
      <4>2. left.cell \in Cells
        BY <2>3, <2>5, <4>1 DEF IsLeft, Records
      <4> QED
        BY <2>5, <3>1, <4>2 DEF IsOutcome, Stays, Moves
    <3> QED
      BY <2>2, <3>1, <3>2
  <2>6. /\ left.typed /\ left.kind \notin Pointerless => o.rec.kind = left.kind
    BY Zenon DEF Keeps
  <2>7. left.readonly => o.rec = left
    BY Zenon DEF Keeps
  <2>8. left.readonly /\ left.cell # 0 => SameOutside(h[left.cell], g[left.cell])
    BY <2>4 DEF SameOutside
  <2> QED
    BY <1>1, <2>1, <2>5, <2>6, <2>7, <2>8, Zenon DEF OneKept
<1>9. Stays(left, h, a) \/ (Moves(left, h, a) /\ Settled(left, a))
  BY <1>5, <1>6, Zenon DEF IsOutcome
<1> QED
  BY <1>7, <1>8, <1>9 DEF a

-----------------------------------------------------------------------------
(* What becomes of all the records when one of them is assigned to. *)
LEMMA LeftFacts ==
  ASSUME NEW rs, NEW h, \A w \in DOMAIN rs : rs[w] \in Records, Sound(rs, h), NEW v \in DOMAIN rs
  PROVE  IsLeft(rs[v], h)
<1>1. rs[v] \in Records
  OBVIOUS
<1>2. rs[v].cell \in Cells \union {0}
  BY <1>1 DEF Records
<1>3. /\ rs[v].kind \in Pointerless => rs[v].cell = 0
      /\ rs[v].off = 0 /\ rs[v].kind \notin Pointerless =>
           rs[v].cell # 0 /\ h[rs[v].cell].kind = rs[v].kind
      /\ rs[v].off > 0 => rs[v].kind = "char" /\ rs[v].reference /\ rs[v].cell # 0
  BY Zenon DEF Sound
<1>4. rs[v].off = 0 /\ rs[v].kind \notin Pointerless =>
           rs[v].cell \in Cells /\ h[rs[v].cell].kind = rs[v].kind
  BY <1>2, <1>3, Zenon
<1> QED
  BY <1>1, <1>3, <1>4, Zenon DEF IsLeft

\* Another record's payload is left alone, but for what is inside.
Spared(h, g, c) == SameOutside(h[c], g[c])

\* An owner is one record, with a payload of its kind.
LEMMA OwnerFacts ==
  ASSUME NEW rs, NEW h, \A w \in DOMAIN rs : rs[w] \in Records, Sound(rs, h),
         NEW w \in DOMAIN rs, rs[w].off = 0, rs[w].cell \in Cells
  PROVE  /\ h[rs[w].cell] \notin Ownerless /\ h[rs[w].cell].kind = rs[w].kind
         /\ Owners(rs, rs[w].cell) = {w}
<1>1. w \in Owners(rs, rs[w].cell)
  BY DEF Owners
<1>2. rs[w].cell # 0
  BY AssignAssumption
<1>3. h[rs[w].cell].kind = rs[w].kind
  BY <1>2 DEF Sound
<1>4. IF h[rs[w].cell] \in Ownerless THEN Owners(rs, rs[w].cell) = {}
      ELSE \E x \in DOMAIN rs : Owners(rs, rs[w].cell) = {x}
  BY DEF Sound
<1>5. h[rs[w].cell] \notin Ownerless
  BY <1>1, <1>4
<1>6. PICK x \in DOMAIN rs : Owners(rs, rs[w].cell) = {x}
  BY <1>4, <1>5
<1> QED
  BY <1>1, <1>3, <1>5, <1>6

LEMMA OwnersAfter ==
  ASSUME NEW rs, NEW v \in DOMAIN rs, NEW rec, NEW c
  PROVE  LET ns == [rs EXCEPT ![v] = rec]
         IN  Owners(ns, c) = (Owners(rs, c) \ {v})
                             \union (IF rec.cell = c /\ rec.off = 0 THEN {v} ELSE {})
<1> DEFINE ns == [rs EXCEPT ![v] = rec]
<1>1. DOMAIN ns = DOMAIN rs /\ ns[v] = rec /\ \A w \in DOMAIN rs \ {v} : ns[w] = rs[w]
  OBVIOUS
<1> HIDE DEF ns
<1>2. \A w : w \in Owners(ns, c) <=> w \in DOMAIN rs /\ ns[w].cell = c /\ ns[w].off = 0
  BY <1>1 DEF Owners
<1>3. \A w : w \in Owners(rs, c) <=> w \in DOMAIN rs /\ rs[w].cell = c /\ rs[w].off = 0
  BY DEF Owners
<1>4. \A w : w \in Owners(ns, c) <=> w \in (Owners(rs, c) \ {v})
                             \union (IF rec.cell = c /\ rec.off = 0 THEN {v} ELSE {})
  BY <1>1, <1>2, <1>3
<1> QED
  BY <1>4 DEF ns

LEMMA StaysSound ==
  ASSUME NEW rs, NEW h, \A w \in DOMAIN rs : rs[w] \in Records, IsHeap(h), Sound(rs, h),
         NEW v \in DOMAIN rs, NEW o, IsOutcome(rs[v], h, o), Stays(rs[v], h, o)
  PROVE  LET ns == [rs EXCEPT ![v] = o.rec]
         IN  /\ Sound(ns, o.heap)
             /\ \A w \in DOMAIN rs \ {v} :
                  rs[w].off = 0 /\ rs[w].cell \in Cells => Spared(h, o.heap, rs[w].cell)
<1> DEFINE left == rs[v]
           rec == o.rec
           g == o.heap
           ns == [rs EXCEPT ![v] = rec]
<1>1. /\ rec.kind = left.kind /\ rec.cell = left.cell /\ rec.off = left.off
      /\ rec.reference = left.reference
  BY DEF Stays, IsOutcome
<1>2. \A c \in Cells : /\ (g[c] \in Ownerless <=> h[c] \in Ownerless) /\ g[c].kind = h[c].kind
                       /\ g[c] = h[c] \/ c = left.cell
                       /\ g[c] = h[c] \/ left.off = 0 \/
                            (h[c].kind = "string" /\ Len(g[c].data) = Len(h[c].data))
  <2>1. left.off = 0 \/ left.off > 0
    BY DEF Records
  <2> QED
    BY <2>1 DEF Stays
<1>3. DOMAIN ns = DOMAIN rs /\ ns[v] = rec /\ \A w \in DOMAIN rs \ {v} : ns[w] = rs[w]
  OBVIOUS
<1>4. ASSUME NEW c
      PROVE  Owners(ns, c) = Owners(rs, c)
  <2>1. Owners(ns, c) = (Owners(rs, c) \ {v})
                        \union (IF rec.cell = c /\ rec.off = 0 THEN {v} ELSE {})
    BY OwnersAfter
  <2>2. v \in Owners(rs, c) <=> left.cell = c /\ left.off = 0
    BY DEF Owners
  <2> HIDE DEF ns, left, rec
  <2> QED
    BY <1>1, <2>1, <2>2
<1>5. ASSUME NEW w \in DOMAIN rs
      PROVE  ns[w].kind = rs[w].kind /\ ns[w].cell = rs[w].cell /\ ns[w].off = rs[w].off
             /\ ns[w].reference = rs[w].reference
  <2>1. CASE w = v
    BY <1>1, <1>3, <2>1
  <2>2. CASE w # v
    BY <1>3, <2>2
  <2> QED
    BY <2>1, <2>2
<1> HIDE DEF ns, g, rec
<1>6. ASSUME NEW w \in DOMAIN rs
      PROVE  /\ ns[w].kind \in Pointerless => ns[w].cell = 0
             /\ ns[w].off = 0 /\ ns[w].kind \notin Pointerless =>
                  ns[w].cell # 0 /\ g[ns[w].cell].kind = ns[w].kind
             /\ ns[w].off > 0 => ns[w].kind = "char" /\ ns[w].reference /\ ns[w].cell # 0
  <2>1. IsLeft(rs[w], h)
    BY LeftFacts
  <2>2. ASSUME rs[w].off = 0, rs[w].kind \notin Pointerless
        PROVE  rs[w].cell # 0 /\ g[rs[w].cell].kind = rs[w].kind
    <3>1. rs[w].cell \in Cells /\ h[rs[w].cell].kind = rs[w].kind
      BY <2>1, <2>2, Zenon DEF IsLeft
    <3> QED
      BY <1>2, <3>1, AssignAssumption
  <2>3. /\ rs[w].kind \in Pointerless => rs[w].cell = 0
        /\ rs[w].off > 0 => rs[w].kind = "char" /\ rs[w].reference /\ rs[w].cell # 0
    BY <2>1, Zenon DEF IsLeft
  <2> QED
    BY <1>5, <2>2, <2>3, Zenon
<1>7. \A c \in Cells : IF g[c] \in Ownerless THEN Owners(ns, c) = {}
                       ELSE \E w \in DOMAIN ns : Owners(ns, c) = {w}
  BY <1>2, <1>3, <1>4 DEF Sound
<1>8. Sound(ns, g)
  BY <1>3, <1>6, <1>7, Zenon DEF Sound
<1>9. ASSUME NEW w \in DOMAIN rs \ {v}, rs[w].off = 0, rs[w].cell \in Cells
      PROVE  Spared(h, g, rs[w].cell)
  <2>1. Owners(rs, rs[w].cell) = {w}
    BY <1>9, OwnerFacts
  <2>2. ~(left.cell = rs[w].cell /\ left.off = 0)
    BY <2>1 DEF Owners
  <2> QED
    BY <1>2, <1>9, <2>2 DEF Spared, SameOutside
<1> QED
  BY <1>8, <1>9 DEF ns, g, rec

LEMMA MovesSound ==
  ASSUME NEW rs, NEW h, \A w \in DOMAIN rs : rs[w] \in Records, IsHeap(h), Sound(rs, h),
         NEW v \in DOMAIN rs, NEW o, IsOutcome(rs[v], h, o), Moves(rs[v], h, o), Settled(rs[v], o)
  PROVE  LET ns == [rs EXCEPT ![v] = o.rec]
         IN  /\ Sound(ns, o.heap)
             /\ \A w \in DOMAIN rs \ {v} :
                  rs[w].off = 0 /\ rs[w].cell \in Cells => Spared(h, o.heap, rs[w].cell)
<1> DEFINE left == rs[v]
           rec == o.rec
           g == o.heap
           ns == [rs EXCEPT ![v] = rec]
           owned(c) == Owned(left, c)
           taken(c) == c = rec.cell /\ rec.kind \notin Pointerless
<1>1. /\ rec.off = 0 /\ rec \in Records
      /\ rec.kind \in Pointerless => rec.cell = 0
      /\ rec.kind \notin Pointerless =>
           /\ rec.cell \in Cells /\ g[rec.cell] \notin Ownerless /\ g[rec.cell].kind = rec.kind
           /\ h[rec.cell] = Free \/ owned(rec.cell)
  BY DEF Moves, IsOutcome
<1>2. \A c \in Cells : ~taken(c) => IF owned(c) THEN g[c] \in Ownerless ELSE g[c] = h[c]
  <2>1. 0 \notin Cells
    BY AssignAssumption
  <2> QED
    BY <1>1, <2>1 DEF Moves, Parted, Settled
<1>3. DOMAIN ns = DOMAIN rs /\ ns[v] = rec /\ \A w \in DOMAIN rs \ {v} : ns[w] = rs[w]
  OBVIOUS
<1>4. ASSUME NEW c \in Cells
      PROVE  /\ owned(c) => Owners(rs, c) = {v}
             /\ ~owned(c) => v \notin Owners(rs, c)
             /\ taken(c) => Owners(rs, c) \subseteq {v}
             /\ Owners(ns, c) = (Owners(rs, c) \ {v}) \union (IF taken(c) THEN {v} ELSE {})
  <2>1. owned(c) => Owners(rs, c) = {v}
    BY OwnerFacts DEF Owned
  <2>2. ~owned(c) => v \notin Owners(rs, c)
    BY DEF Owners, Owned
  <2>3. h[c] = Free => Owners(rs, c) = {}
    BY DEF Sound, Ownerless
  <2>4. taken(c) => h[c] = Free \/ owned(c)
    BY <1>1
  <2>5. Owners(ns, c) = (Owners(rs, c) \ {v})
                        \union (IF rec.cell = c /\ rec.off = 0 THEN {v} ELSE {})
    BY OwnersAfter
  <2>6. rec.cell = c /\ rec.off = 0 <=> taken(c)
    <3>1. 0 \notin Cells
      BY AssignAssumption
    <3> QED
      BY <1>1, <3>1
  <2> HIDE DEF ns, owned, taken
  <2> QED
    BY <2>1, <2>2, <2>3, <2>4, <2>5, <2>6
<1> HIDE DEF ns, g, rec
<1>5. ASSUME NEW c \in Cells
      PROVE  IF g[c] \in Ownerless THEN Owners(ns, c) = {} ELSE \E w \in DOMAIN ns : Owners(ns, c) = {w}
  <2>1. CASE taken(c)
    <3>1. Owners(ns, c) = {v} /\ g[c] \notin Ownerless
      BY <1>1, <1>4, <2>1
    <3> QED
      BY <1>3, <3>1
  <2>2. CASE ~taken(c) /\ owned(c)
    <3>1. g[c] \in Ownerless
      BY <1>2, <2>2
    <3>2. Owners(ns, c) = {}
      BY <1>4, <2>2
    <3> QED
      BY <3>1, <3>2
  <2>3. CASE ~taken(c) /\ ~owned(c)
    <3>1. g[c] = h[c]
      BY <1>2, <2>3
    <3>2. Owners(ns, c) = Owners(rs, c)
      BY <1>4, <2>3
    <3>3. IF h[c] \in Ownerless THEN Owners(rs, c) = {} ELSE \E w \in DOMAIN rs : Owners(rs, c) = {w}
      BY DEF Sound
    <3> QED
      BY <1>3, <3>1, <3>2, <3>3
  <2> QED
    BY <2>1, <2>2, <2>3
<1>6. ASSUME NEW w \in DOMAIN rs \ {v}, rs[w].off = 0, rs[w].cell \in Cells
      PROVE  g[rs[w].cell] = h[rs[w].cell]
  <2>1. Owners(rs, rs[w].cell) = {w}
    BY <1>6, OwnerFacts
  <2>2. ~taken(rs[w].cell) /\ ~owned(rs[w].cell)
    BY <1>4, <1>6, <2>1
  <2> QED
    BY <1>2, <1>6, <2>2
<1>7. ASSUME NEW w \in DOMAIN rs
      PROVE  /\ ns[w].kind \in Pointerless => ns[w].cell = 0
             /\ ns[w].off = 0 /\ ns[w].kind \notin Pointerless =>
                  ns[w].cell # 0 /\ g[ns[w].cell].kind = ns[w].kind
             /\ ns[w].off > 0 => ns[w].kind = "char" /\ ns[w].reference /\ ns[w].cell # 0
  <2>1. CASE w = v
    <3>1. ns[w] = rec
      BY <1>3, <2>1
    <3>2. rec.kind \notin Pointerless => rec.cell # 0
      BY <1>1, AssignAssumption
    <3>3. ~(rec.off > 0)
      BY <1>1
    <3> QED
      BY <1>1, <3>1, <3>2, <3>3, Zenon
  <2>2. CASE w # v
    <3>1. ns[w] = rs[w]
      BY <1>3, <2>2
    <3>2. IsLeft(rs[w], h)
      BY LeftFacts
    <3>3. ASSUME rs[w].off = 0, rs[w].kind \notin Pointerless
          PROVE  rs[w].cell # 0 /\ g[rs[w].cell].kind = rs[w].kind
      <4>1. rs[w].cell \in Cells /\ h[rs[w].cell].kind = rs[w].kind
        BY <3>2, <3>3, Zenon DEF IsLeft
      <4> QED
        BY <1>6, <2>2, <3>3, <4>1, AssignAssumption
    <3> QED
      BY <3>1, <3>2, <3>3, Zenon DEF IsLeft
  <2> QED
    BY <2>1, <2>2
<1>8. Sound(ns, g)
  BY <1>3, <1>5, <1>7, Zenon DEF Sound
<1> QED
  BY <1>6, <1>8 DEF ns, g, rec, Spared, SameOutside

\* What an assignment to v may make of everything.
LEMMA OutcomeSound ==
  ASSUME NEW rs, NEW h, \A w \in DOMAIN rs : rs[w] \in Records, IsHeap(h), Sound(rs, h),
         NEW v \in DOMAIN rs, NEW o, IsOutcome(rs[v], h, o),
         Stays(rs[v], h, o) \/ (Moves(rs[v], h, o) /\ Settled(rs[v], o))
  PROVE  LET ns == [rs EXCEPT ![v] = o.rec]
         IN  /\ DOMAIN ns = DOMAIN rs /\ \A w \in DOMAIN ns : ns[w] \in Records
             /\ ns[v] = o.rec /\ \A w \in DOMAIN rs \ {v} : ns[w] = rs[w]
             /\ Sound(ns, o.heap)
             /\ \A w \in DOMAIN rs \ {v} :
                  rs[w].off = 0 /\ rs[w].cell \in Cells => Spared(h, o.heap, rs[w].cell)
<1> DEFINE ns == [rs EXCEPT ![v] = o.rec]
<1>1. DOMAIN ns = DOMAIN rs /\ ns[v] = o.rec /\ \A w \in DOMAIN rs \ {v} : ns[w] = rs[w]
  OBVIOUS
<1>2. o.rec \in Records
  BY DEF IsOutcome
<1>3. /\ Sound(ns, o.heap)
      /\ \A w \in DOMAIN rs \ {v} :
                  rs[w].off = 0 /\ rs[w].cell \in Cells => Spared(h, o.heap, rs[w].cell)
  BY StaysSound, MovesSound
<1> HIDE DEF ns
<1>4. \A w \in DOMAIN ns : ns[w] \in Records
  BY <1>1, <1>2
<1> QED
  BY <1>1, <1>3, <1>4 DEF ns

\* What is inside may change whatever else is there, and a cell may be lost.
LEMMA SparedSound ==
  ASSUME NEW rs, NEW h, NEW g, \A w \in DOMAIN rs : rs[w] \in Records, Sound(rs, h),
         \A c \in Cells : Spared(h, g, c) \/ (h[c] = Free /\ g[c] = Lost)
  PROVE  Sound(rs, g)
<1>1. ASSUME NEW c \in Cells
      PROVE  /\ g[c] \in Ownerless <=> h[c] \in Ownerless
             /\ h[c].kind \in Kinds => g[c].kind = h[c].kind
  BY DEF Spared, SameOutside, Free, Lost, Ownerless, Kinds, Numbers, Containers, Pointerless
<1>2. \A c \in Cells : IF g[c] \in Ownerless THEN Owners(rs, c) = {}
                       ELSE \E w \in DOMAIN rs : Owners(rs, c) = {w}
  BY <1>1 DEF Sound
<1>3. ASSUME NEW w \in DOMAIN rs
      PROVE  /\ rs[w].kind \in Pointerless => rs[w].cell = 0
             /\ rs[w].off = 0 /\ rs[w].kind \notin Pointerless =>
                  rs[w].cell # 0 /\ g[rs[w].cell].kind = rs[w].kind
             /\ rs[w].off > 0 => rs[w].kind = "char" /\ rs[w].reference /\ rs[w].cell # 0
  <2>1. IsLeft(rs[w], h)
    BY LeftFacts
  <2>2. ASSUME rs[w].off = 0, rs[w].kind \notin Pointerless
        PROVE  rs[w].cell # 0 /\ g[rs[w].cell].kind = rs[w].kind
    <3>1. rs[w].cell \in Cells /\ h[rs[w].cell].kind = rs[w].kind
      BY <2>1, <2>2, Zenon DEF IsLeft
    <3>2. rs[w].kind \in Kinds
      BY DEF Records
    <3> QED
      BY <1>1, <3>1, <3>2, AssignAssumption
  <2> QED
    BY <2>1, <2>2, Zenon DEF IsLeft
<1> QED
  BY <1>2, <1>3, Zenon DEF Sound

-----------------------------------------------------------------------------
(* TypedStays, for all the variables. *)
Kept == \A v \in Names : OneKept(recs[v], recs'[v], heap, heap')

LEMMA OtherKept ==
  ASSUME NEW rec, NEW h, NEW g, IsLeft(rec, h),
         rec.off = 0 /\ rec.cell \in Cells => Spared(h, g, rec.cell)
  PROVE  OneKept(rec, rec, h, g)
<1>1. rec.cell \in Cells \union {0} /\ rec.off \in Nat
  BY DEF IsLeft, Records
<1>2. ASSUME rec.kind \in {"object", "tuple", "struct"}
      PROVE  SameShape(rec.kind, h[rec.cell].data, g[rec.cell].data)
  <2>1. rec.kind \notin Pointerless /\ rec.kind # "string" /\ rec.kind # "char"
    BY <1>2 DEF Pointerless
  <2>2. ~(rec.off > 0)
    BY <2>1, Zenon DEF IsLeft
  <2>3. rec.off = 0
    BY <1>1, <2>2
  <2>4. rec.cell \in Cells /\ h[rec.cell].kind = rec.kind
    BY <2>1, <2>3, Zenon DEF IsLeft
  <2>5. \A kind, d : SameShape(kind, d, d)
    BY DEF SameShape
  <2> QED
    BY <2>1, <2>3, <2>4, <2>5 DEF Spared, SameOutside
<1>3. rec.cell # 0 /\ rec.off = 0 => Spared(h, g, rec.cell)
  BY <1>1
<1> QED
  BY <1>2, <1>3, Zenon DEF OneKept, Spared

-----------------------------------------------------------------------------
(* The steps. *)
Good == TypeOK /\ PayloadsSound

LEMMA GoodFacts ==
  ASSUME Good
  PROVE  /\ \A w \in DOMAIN recs : recs[w] \in Records
         /\ IsHeap(heap) /\ Sound(recs, heap)
BY DEF Good, TypeOK, PayloadsSound, Names

LEMMA BecomesFacts ==
  ASSUME Good, NEW v \in Names, NEW r, IsValue(r), Becomes(v, SetValue(recs[v], r, heap))
  PROVE  Good' /\ Kept
<1>1. /\ \A w \in DOMAIN recs : recs[w] \in Records
      /\ IsHeap(heap) /\ Sound(recs, heap) /\ v \in DOMAIN recs
  BY GoodFacts DEF Names
<1>2. PICK o \in SetValue(recs[v], r, heap) :
        recs' = [recs EXCEPT ![v] = o.rec] /\ heap' = After(recs[v], o) /\ fate' = o.fate
  BY Zenon DEF Becomes
<1>3. IsLeft(recs[v], heap)
  BY <1>1, LeftFacts
<1> DEFINE a == Final(recs[v], o)
<1>4. /\ IsOutcome(recs[v], heap, a) /\ OneKept(recs[v], a.rec, heap, a.heap)
      /\ Stays(recs[v], heap, a) \/ (Moves(recs[v], heap, a) /\ Settled(recs[v], a))
  <2>1. IsOutcome(recs[v], heap, o) /\ Keeps(recs[v], heap, o)
    BY <1>1, <1>3, SetValueFacts
  <2> QED
    BY <1>1, <1>3, <2>1, AfterFacts
<1>9. recs' = [recs EXCEPT ![v] = a.rec] /\ heap' = a.heap /\ fate' = a.fate
  BY <1>2 DEF Final
<1> HIDE DEF a
<1>5. /\ DOMAIN recs' = DOMAIN recs /\ \A w \in DOMAIN recs' : recs'[w] \in Records
      /\ recs'[v] = a.rec /\ \A w \in DOMAIN recs \ {v} : recs'[w] = recs[w]
      /\ Sound(recs', heap')
      /\ \A w \in DOMAIN recs \ {v} :
           recs[w].off = 0 /\ recs[w].cell \in Cells => Spared(heap, heap', recs[w].cell)
  BY <1>1, <1>4, <1>9, OutcomeSound
<1>6. IsHeap(heap') /\ fate' \in Fates
  BY <1>4, <1>9, Zenon DEF IsOutcome
<1>7. Good'
  BY <1>5, <1>6 DEF Good, TypeOK, PayloadsSound, Names, Fates
<1>8. ASSUME NEW w \in Names
      PROVE  OneKept(recs[w], recs'[w], heap, heap')
  <2>1. CASE w = v
    BY <1>4, <1>5, <1>9, <2>1
  <2>2. CASE w # v
    <3>1. w \in DOMAIN recs \ {v} /\ IsLeft(recs[w], heap)
      BY <1>1, <2>2, LeftFacts DEF Names
    <3> QED
      BY <1>5, <3>1, OtherKept
  <2> QED
    BY <2>1, <2>2
<1> QED
  BY <1>7, <1>8 DEF Kept

LEMMA StandsStill ==
  ASSUME Good, UNCHANGED <<recs, heap>>, fate' \in Fates
  PROVE  Good' /\ Kept
<1>1. /\ \A w \in DOMAIN recs : recs[w] \in Records
      /\ IsHeap(heap) /\ Sound(recs, heap)
  BY GoodFacts
<1>2. Good'
  BY <1>1 DEF Good, TypeOK, PayloadsSound, Names, Fates
<1>3. ASSUME NEW w \in Names
      PROVE  OneKept(recs[w], recs'[w], heap, heap')
  <2>1. IsLeft(recs[w], heap)
    BY <1>1, LeftFacts DEF Names
  <2> QED
    BY <2>1, OtherKept DEF Spared, SameOutside
<1> QED
  BY <1>2, <1>3 DEF Kept

\* What an operator may come to: no value, or one that is not explored, or
\* a proper one.
IsResult(outcome) ==
  \/ outcome \in {Raises, Aborts, Hangs}
  \/ Explored(outcome) => IsValue(Temporary(outcome))

LEMMA YieldsFacts ==
  ASSUME Good, fate \in Fates, NEW v \in Names, NEW outcome, IsResult(outcome), Yields(v, outcome)
  PROVE  Good' /\ Kept
<1>1. CASE outcome = Raises
  <2>1. Yields(v, Raises) <=> UNCHANGED vars
    BY DEF Yields, Raises, Aborts, Hangs, Value
  <2>2. UNCHANGED <<recs, heap>> /\ fate' = fate
    BY <1>1, <2>1 DEF vars
  <2> QED
    BY <2>2, StandsStill
<1>2. CASE outcome = Aborts
  <2>1. outcome # Raises
    BY <1>2 DEF Raises, Aborts, Value
  <2> QED
    BY <1>2, <2>1, StandsStill DEF Yields, Fates
<1>3. CASE outcome = Hangs
  <2>1. outcome # Raises /\ outcome # Aborts
    BY <1>3 DEF Raises, Aborts, Hangs, Value
  <2> QED
    BY <1>3, <2>1, StandsStill DEF Yields, Fates
<1>4. CASE outcome \notin {Raises, Aborts, Hangs}
  <2>1. Explored(outcome) /\ Becomes(v, SetValue(recs[v], Temporary(outcome), heap))
    BY <1>4 DEF Yields
  <2>2. IsValue(Temporary(outcome))
    BY <1>4, <2>1 DEF IsResult
  <2> QED
    BY <2>1, <2>2, BecomesFacts
<1> QED
  BY <1>1, <1>2, <1>3, <1>4

-----------------------------------------------------------------------------
(* What can stand on the right. *)
LEMMA AtFacts ==
  ASSUME NEW n \in Nat, NEW i \in Int, NEW q \in At(n, i), q.kind = "positions"
  PROVE  q.data[1] \in 0..n - 1
<1>1. Raises.kind # "positions" /\ Hangs.kind # "positions"
  BY DEF Raises, Hangs, Value
<1>2. CASE i >= n
  BY <1>1, <1>2 DEF At
<1>3. CASE i < n /\ i < 0 /\ n = 0
  <2>1. ~(i >= n)
    BY <1>3
  <2> QED
    BY <1>1, <1>3, <2>1 DEF At
<1>4. CASE i < n /\ ~(i < 0 /\ n = 0)
  <2>1. n > 0 /\ i % n \in 0..n - 1
    BY <1>4
  <2>2. At(n, i) = {Value("positions", <<i % n>>)}
    BY <1>4 DEF At
  <2> QED
    BY <2>1, <2>2 DEF Value
<1> QED
  BY <1>2, <1>3, <1>4

LEMMA PositionFacts ==
  ASSUME NEW rec, NEW h, LengthOf(rec, h) \in Nat, NEW p \in Positions(rec, h)
  PROVE  p \in 0..LengthOf(rec, h) - 1
<1>1. PICK i \in Indexes : \E q \in At(LengthOf(rec, h), i) : q.kind = "positions" /\ p = q.data[1]
  BY Zenon DEF Positions
<1>2. i \in Int
  BY AssignAssumption
<1> QED
  BY <1>1, <1>2, AtFacts

LEMMA ByteFacts ==
  ASSUME NEW h, IsHeap(h), NEW rec, rec.cell \in Cells, rec.off \in Nat \ {0}, NEW b \in ByteAt(rec, h)
  PROVE  <<b>> \in Data("char")
<1>1. CASE b \in Garbage
  BY <1>1, AssignAssumption, ValuesAssumption, OneNumber
<1>2. CASE b \notin Garbage
  <2>1. /\ h[rec.cell].kind = "string" /\ ~(rec.off > Len(h[rec.cell].data))
        /\ b = h[rec.cell].data[rec.off]
    BY <1>2 DEF ByteAt
  <2>2. h[rec.cell].data \in Data("string")
    BY <2>1, HeapFacts DEF Kinds
  <2>3. /\ \A i \in 1..Len(h[rec.cell].data) : h[rec.cell].data[i] \in -128..127
        /\ Len(h[rec.cell].data) \in Nat
    BY <2>2 DEF Data
  <2>4. rec.off \in 1..Len(h[rec.cell].data)
    BY <2>1, <2>3
  <2>5. b \in -128..127
    BY <2>1, <2>3, <2>4
  <2> QED
    BY <2>5, OneNumber
<1> QED
  BY <1>1, <1>2

LEMMA OperandFacts ==
  ASSUME NEW h, IsHeap(h), NEW rec, IsLeft(rec, h), NEW r \in Operands(rec, h)
  PROVE  IsValue(r) /\ r.kind = rec.kind
<1>1. rec \in Records /\ rec.kind \in Kinds /\ rec.off \in Nat /\ rec.cell \in Cells \union {0}
      /\ rec.flags \in SUBSET {"null", "undefined", "nan"}
  BY DEF IsLeft, Records
<1>2. PICK d \in Reads(rec, h) :
        r = [kind |-> rec.kind, flags |-> rec.flags, data |-> d, cell |-> rec.cell, off |-> rec.off]
  BY DEF Operands
<1>3. d \in Data(rec.kind)
  <2>1. CASE rec.kind \in Pointerless
    <3>1. d = <<>>
      BY <2>1 DEF Reads
    <3>2. <<>> \in Seq(Int) /\ rec.kind \notin Numbers /\ rec.kind \notin {"char", "string"}
      BY <2>1 DEF Pointerless, Numbers
    <3> QED
      BY <3>1, <3>2 DEF Data
  <2>2. CASE rec.kind \notin Pointerless /\ rec.off > 0
    <3>1. PICK b \in ByteAt(rec, h) : d = <<b>>
      BY <2>2 DEF Reads
    <3>2. rec.cell \in Cells /\ rec.off \in Nat \ {0} /\ rec.kind = "char"
      BY <1>1, <2>2 DEF IsLeft
    <3> QED
      BY <3>1, <3>2, ByteFacts
  <2>3. CASE rec.kind \notin Pointerless /\ ~(rec.off > 0)
    <3>1. d = h[rec.cell].data
      BY <2>3 DEF Reads
    <3>2. rec.off = 0
      BY <1>1, <2>3
    <3>3. rec.cell \in Cells /\ h[rec.cell].kind = rec.kind
      BY <2>3, <3>2, Zenon DEF IsLeft
    <3> QED
      BY <1>1, <3>1, <3>3, HeapFacts
  <2> QED
    BY <2>1, <2>2, <2>3
<1> QED
  BY <1>1, <1>2, <1>3 DEF IsValue

\* A variable that holds a string or a container has a payload.
LEMMA HolderFacts ==
  ASSUME Good, NEW v \in Names, recs[v].kind \in {"string"} \union Containers
  PROVE  /\ recs[v].cell \in Cells /\ recs[v].off = 0 /\ heap[recs[v].cell].kind = recs[v].kind
         /\ heap[recs[v].cell].data \in Data(recs[v].kind)
         /\ LengthOf(recs[v], heap) \in Nat
         /\ LengthOf(recs[v], heap) <= Len(heap[recs[v].cell].data)
<1> DEFINE rec == recs[v]
           data == heap[rec.cell].data
<1>1. IsHeap(heap) /\ IsLeft(rec, heap) /\ rec \in Records
  BY GoodFacts, LeftFacts DEF Names
<1>2. rec.kind \notin Pointerless /\ rec.kind # "char" /\ rec.kind \in Kinds
  BY DEF Pointerless, Containers, Kinds
<1>3. rec.off \in Nat /\ ~(rec.off > 0)
  BY <1>1, <1>2, Zenon DEF IsLeft, Records
<1>4. rec.off = 0
  BY <1>3
<1>5. rec.cell \in Cells /\ heap[rec.cell].kind = rec.kind
  BY <1>1, <1>2, <1>4, Zenon DEF IsLeft
<1>6. data \in Data(rec.kind)
  BY <1>1, <1>2, <1>5, HeapFacts
<1> HIDE DEF rec, data
<1>7. data \in Seq(Int) /\ Len(data) \in Nat
  BY <1>2, <1>6, DataFacts
<1>8. CASE rec.kind = "string"
  <2>1. Text(data) \in Data("string") /\ Len(Text(data)) <= Len(data)
    BY <1>6, <1>8, TextFacts
  <2>2. Len(Text(data)) \in Nat
    BY <2>1, DataFacts DEF Kinds
  <2>3. LengthOf(rec, heap) = Len(Text(data))
    BY <1>8 DEF LengthOf, data
  <2> QED
    BY <1>4, <1>5, <1>6, <2>1, <2>2, <2>3 DEF rec, data
<1>9. CASE rec.kind # "string"
  <2>1. LengthOf(rec, heap) = Len(data)
    BY <1>9 DEF LengthOf, data
  <2> QED
    BY <1>4, <1>5, <1>6, <1>7, <2>1 DEF rec, data
<1> QED
  BY <1>8, <1>9

\* s[i] of a string
LEMMA CharFacts ==
  ASSUME Good, NEW v \in Names, recs[v].kind = "string", NEW p \in Positions(recs[v], heap)
  PROVE  IsLeft(CharAt(recs[v], p), heap)
<1>1. /\ LengthOf(recs[v], heap) \in Nat /\ recs[v].cell \in Cells
  BY HolderFacts
<1>2. p \in Nat
  BY <1>1, PositionFacts
<1>3. p + 1 \in Nat /\ p + 1 # 0 /\ recs[v].cell # 0
  BY <1>1, <1>2, AssignAssumption
<1>4. CharAt(recs[v], p) \in Records
  BY <1>1, <1>3 DEF CharAt, Records, Kinds, Numbers
<1>5. "char" \notin Pointerless
  BY DEF Pointerless
<1> QED
  BY <1>3, <1>4, <1>5 DEF CharAt, IsLeft

\* t[i] of a tuple and o[key] of an object
LEMMA SlotFacts ==
  ASSUME Good, NEW v \in Names, NEW i \in Slots(recs[v], heap)
  PROVE  LET data == heap[recs[v].cell].data
         IN  /\ recs[v].kind \in {"tuple", "object"} /\ recs[v].cell \in Cells
             /\ heap[recs[v].cell].kind = recs[v].kind
             /\ data \in Seq(Int) /\ i \in 1..Len(data)
             /\ recs[v].kind = "object" => i % 2 = 0
<1> DEFINE rec == recs[v]
           data == heap[rec.cell].data
<1>1. rec.kind \in {"tuple", "object"}
  BY DEF Slots
<1>2. /\ rec.cell \in Cells /\ heap[rec.cell].kind = rec.kind /\ data \in Data(rec.kind)
      /\ LengthOf(rec, heap) \in Nat /\ LengthOf(rec, heap) <= Len(data)
  BY <1>1, HolderFacts DEF Containers
<1>3. data \in Seq(Int) /\ Len(data) \in Nat
  BY <1>1, <1>2, DataFacts DEF Kinds, Containers
<1>4. CASE rec.kind = "tuple"
  <2>1. PICK p \in Positions(rec, heap) : i = p + 1
    BY <1>4 DEF Slots
  <2>2. p \in 0..LengthOf(rec, heap) - 1
    BY <1>2, PositionFacts
  <2> HIDE DEF rec, data
  <2> QED
    BY <1>2, <1>3, <1>4, <2>1, <2>2 DEF rec, data
<1>5. CASE rec.kind = "object"
  <2>1. PICK j \in 1..Len(data) - 1 : i = j + 1 /\ j % 2 = 1
    BY <1>5 DEF Slots
  <2> HIDE DEF rec, data
  <2>2. i \in 1..Len(data) /\ i % 2 = 0
    BY <1>3, <2>1
  <2> QED
    BY <1>2, <1>3, <1>5, <2>2 DEF rec, data
<1> QED
  BY <1>1, <1>4, <1>5

LEMMA ElementFacts ==
  ASSUME Good, NEW v \in Names, NEW r \in Elements(recs[v], heap)
  PROVE  IsValue(r)
<1>1. CASE recs[v].kind = "string"
  <2>1. PICK p \in Positions(recs[v], heap) : r \in Operands(CharAt(recs[v], p), heap)
    BY <1>1 DEF Elements
  <2> QED
    BY <1>1, <2>1, CharFacts, GoodFacts, OperandFacts
<1>2. CASE recs[v].kind # "string"
  <2>1. PICK i \in Slots(recs[v], heap) : r = Temporary(MakeInt(heap[recs[v].cell].data[i]))
    BY <1>2 DEF Elements
  <2> DEFINE data == heap[recs[v].cell].data
  <2>2. data \in Seq(Int) /\ i \in 1..Len(data)
    BY SlotFacts
  <2> HIDE DEF data
  <2>3. data[i] \in Int
    BY <2>2
  <2>4. <<data[i]>> \in Data("int")
    BY <2>3, OneNumber
  <2> QED
    BY <2>1, <2>4 DEF IsValue, Temporary, MakeInt, Value, Kinds, Numbers, data
<1> QED
  BY <1>1, <1>2

LEMMA VariableFacts ==
  ASSUME Good, NEW r \in Variables
  PROVE  IsValue(r)
<1>1. PICK v \in Names : r \in Operands(recs[v], heap)
  BY DEF Variables
<1> QED
  BY <1>1, GoodFacts, LeftFacts, OperandFacts DEF Names

LEMMA RightFacts ==
  ASSUME Good, NEW r \in Rights
  PROVE  IsValue(r)
<1>1. CASE r \in Variables
  BY <1>1, VariableFacts
<1>2. CASE r \in Constants
  BY <1>2, AssignAssumption DEF Constants, Temporary, IsValue
<1>3. CASE r \in UNION {Elements(recs[v], heap) : v \in Names}
  BY <1>3, ElementFacts
<1> QED
  BY <1>1, <1>2, <1>3 DEF Rights

-----------------------------------------------------------------------------
(* What the operators come to. *)
LEMMA IntResult ==
  ASSUME NEW n
  PROVE  IsResult(MakeInt(n))
<1>1. Explored(MakeInt(n)) => n \in Int
  BY ValuesAssumption DEF Explored, MakeInt, Value
<1>2. n \in Int => <<n>> \in Data("int")
  BY OneNumber
<1>3. <<n>> \in Data("int") => IsValue(Temporary(MakeInt(n)))
  BY DEF IsValue, Temporary, MakeInt, Value, Kinds, Numbers
<1> QED
  BY <1>1, <1>2, <1>3 DEF IsResult

LEMMA FloatResult ==
  ASSUME NEW n
  PROVE  IsResult(MakeFloat(n))
<1>1. Explored(MakeFloat(n)) => n \in Int
  BY ValuesAssumption DEF Explored, MakeFloat, Value
<1>2. n \in Int => <<n>> \in Data("float")
  BY OneNumber
<1>3. <<n>> \in Data("float") => IsValue(Temporary(MakeFloat(n)))
  BY DEF IsValue, Temporary, MakeFloat, Value, Kinds, Numbers
<1> QED
  BY <1>1, <1>2, <1>3 DEF IsResult

LEMMA CharResult ==
  ASSUME NEW n \in Int
  PROVE  IsResult(MakeChar(n))
<1>1. Signed8(n) \in -128..127
  BY DEF Signed8
<1>2. <<Signed8(n)>> \in Data("char")
  BY <1>1, OneNumber
<1>3. IsValue(Temporary(MakeChar(n)))
  BY <1>2 DEF IsValue, Temporary, MakeChar, Value, Kinds, Numbers
<1> QED
  BY <1>3 DEF IsResult

LEMMA StringResult ==
  ASSUME NEW s
  PROVE  IsResult(MakeString(s))
<1>1. Explored(MakeString(s)) => s \in Seq(Bytes)
  BY DEF Explored, MakeString, Value
<1>2. ASSUME s \in Seq(Bytes)
      PROVE  s \in Data("string")
  <2>1. s \in Seq(Int) /\ \A i \in 1..Len(s) : s[i] \in -128..127
    <3>1. Bytes \subseteq -128..127 /\ Bytes \subseteq Int
      BY ValuesAssumption
    <3>2. /\ Len(s) \in Nat /\ \A i \in 1..Len(s) : s[i] \in Bytes
          /\ s = [i \in 1..Len(s) |-> s[i]]
      BY <1>2
    <3>3. s \in Seq(Int)
      BY <3>1, <3>2
    <3> QED
      BY <3>1, <3>2, <3>3
  <2> QED
    BY <2>1, Bytewise
<1>3. s \in Data("string") => IsValue(Temporary(MakeString(s)))
  BY DEF IsValue, Temporary, MakeString, Value, Kinds, Numbers
<1> QED
  BY <1>1, <1>2, <1>3 DEF IsResult

LEMMA PlainResults ==
  /\ IsResult(Raises) /\ IsResult(Aborts) /\ IsResult(Hangs)
  /\ IsResult(Nan) /\ IsResult(Undefined)
  /\ \A o \in Overloaded : IsResult(o)
  /\ \A b : \A o \in Truth(b) : IsResult(o)
<1>1. IsResult(Raises) /\ IsResult(Aborts) /\ IsResult(Hangs)
  BY DEF IsResult
<1>2. <<>> \in Data("nan") /\ <<>> \in Data("undefined")
  BY DEF Data, Numbers
<1>3. IsResult(Nan) /\ IsResult(Undefined)
  BY <1>2 DEF IsResult, IsValue, Temporary, Nan, Undefined, Value, Kinds, Pointerless
<1> QED
  BY <1>1, <1>3, IntResult DEF Overloaded, Truth

LEMMA SumResult ==
  ASSUME NEW l, NEW n
  PROVE  IsResult(SumOf(l, n))
BY IntResult, CharResult DEF SumOf

LEMMA AsIntegerResult ==
  ASSUME NEW v, IsValue(v)
  PROVE  IsResult(AsInteger(v))
<1>1. IsValue(Temporary(Value(v.kind, v.data)))
  BY DEF IsValue, Temporary, Value
<1>2. IsResult(Value(v.kind, v.data))
  BY <1>1 DEF IsResult
<1> QED
  BY <1>2, IntResult DEF AsInteger

LEMMA ExactlyResult ==
  ASSUME NEW n, NEW d, NEW o \in Exactly(n, d)
  PROVE  IsResult(o)
BY FloatResult DEF Exactly

LEMMA PlusResult ==
  ASSUME NEW l, NEW r, NEW o \in Plus(l, r)
  PROVE  IsResult(o)
BY PlainResults, SumResult, FloatResult, StringResult DEF Plus, Arithmetic

LEMMA MinusResult ==
  ASSUME NEW l, NEW r, NEW o \in Minus(l, r)
  PROVE  IsResult(o)
BY PlainResults, SumResult, FloatResult DEF Minus, Arithmetic

LEMMA TimesResult ==
  ASSUME NEW l, NEW r, NEW o \in Times(l, r)
  PROVE  IsResult(o)
<1>1. \A s, n : \A x \in Repeat(s, n) : IsResult(x)
  BY PlainResults, StringResult DEF Repeat
<1> QED
  BY <1>1, PlainResults, IntResult, ExactlyResult DEF Times, Arithmetic

LEMMA DivideResult ==
  ASSUME NEW l, NEW r, NEW o \in Divide(l, r)
  PROVE  IsResult(o)
BY PlainResults, IntResult, ExactlyResult DEF Divide, Arithmetic

LEMMA ModuloResult ==
  ASSUME NEW l, NEW r, NEW o \in Modulo(l, r)
  PROVE  IsResult(o)
BY PlainResults, IntResult, FloatResult DEF Modulo, Arithmetic

LEMMA QuotientResult ==
  ASSUME NEW l, NEW r, NEW o \in Quotient(l, r)
  PROVE  IsResult(o)
BY PlainResults, IntResult, FloatResult DEF Quotient, Arithmetic

LEMMA PowerResult ==
  ASSUME NEW l, NEW r, NEW o \in Power(l, r)
  PROVE  IsResult(o)
<1>1. \A b, e : \A x \in PowerOf(b, e) : IsResult(x)
  BY FloatResult, ExactlyResult DEF PowerOf
<1> QED
  BY <1>1, PlainResults, IntResult, FloatResult DEF Power, Arithmetic

LEMMA ShiftResult ==
  ASSUME NEW l, NEW r, NEW o \in ShiftLeft(l, r) \union ShiftRight(l, r)
  PROVE  IsResult(o)
BY PlainResults, IntResult DEF ShiftLeft, ShiftRight, Shift

LEMMA ComparisonResult ==
  ASSUME NEW l, NEW r, NEW o \in Lt(l, r) \union Le(l, r) \union Gt(l, r) \union Ge(l, r)
  PROVE  IsResult(o)
BY PlainResults DEF Lt, Le, Gt, Ge, Strictly, OrEqual, Related, TuplesRelated, ObjectsRelated

LEMMA EqualityResult ==
  ASSUME NEW l, NEW r
  PROVE  /\ \A o \in Eq(l, r) : IsResult(o)
         /\ \A o \in Neq(l, r) : IsResult(o)
<1>1. \A x, y : \A o \in Eq(x, y) : IsResult(o)
  BY PlainResults DEF Eq
<1> QED
  BY <1>1, PlainResults DEF Neq

LEMMA BitsResult ==
  ASSUME NEW l, IsValue(l), NEW r, IsValue(r),
         NEW o \in BitOr(l, r) \union BitXor(l, r) \union BitAnd(l, r)
  PROVE  IsResult(o)
<1>1. CASE o \in BitOr(l, r)
  BY <1>1, PlainResults, IntResult, CharResult, AsIntegerResult DEF BitOr, Bitwise2, Bits
<1>2. CASE o \in BitXor(l, r)
  BY <1>2, PlainResults, IntResult, CharResult, AsIntegerResult DEF BitXor, Bitwise2, Bits
<1>3. CASE o \in BitAnd(l, r)
  BY <1>3, PlainResults, IntResult, CharResult, AsIntegerResult DEF BitAnd, Bitwise2, Bits
<1> QED
  BY <1>1, <1>2, <1>3

LEMMA BinaryResult ==
  ASSUME NEW l, IsValue(l), NEW r, IsValue(r), NEW op \in Operators, NEW o \in Binary(op, l, r)
  PROVE  IsResult(o)
<1>1. CASE op \in {"+", "-"}
  BY <1>1, PlusResult, MinusResult DEF Binary, Additive
<1>2. CASE op \in {"*", "/", "%", "\\"}
  <2>1. o \in Multiplicative(op, l, r)
    BY <1>2 DEF Binary
  <2> QED
    BY <1>2, <2>1, TimesResult, DivideResult, ModuloResult, QuotientResult DEF Multiplicative
<1>3. CASE op = "**"
  BY <1>3, PowerResult DEF Binary
<1>4. CASE op \in {">>", "<<"}
  BY <1>4, ShiftResult DEF Binary, Shifting
<1>5. CASE op \in {"<", "<=", ">", ">="}
  <2>1. o \in Relational(op, l, r)
    BY <1>5 DEF Binary
  <2> QED
    BY <1>5, <2>1, ComparisonResult DEF Relational
<1>6. CASE op \in {"==", "!="}
  BY <1>6, EqualityResult DEF Binary, Equality
<1>7. CASE op \in {"&", "^", "|"}
  BY <1>7, BitsResult DEF Binary
<1> QED
  BY <1>1, <1>2, <1>3, <1>4, <1>5, <1>6, <1>7 DEF Operators

LEMMA UnaryResult ==
  ASSUME NEW r, IsValue(r), NEW op \in UnaryOperators, NEW o \in Unary(op, r)
  PROVE  IsResult(o)
<1>1. CASE op = "~"
  <2>1. IsValue(MakeInt(-1))
    <3>1. <<-1>> \in Data("int")
      <4> DEFINE n == -1
      <4>1. n \in Int
        OBVIOUS
      <4> HIDE DEF n
      <4>2. <<n>> \in Data("int")
        BY <4>1, OneNumber
      <4> QED
        BY <4>2 DEF n
    <3>2. /\ MakeInt(-1).kind = "int" /\ MakeInt(-1).data = <<-1>> /\ MakeInt(-1).flags = {}
          /\ "int" \in Kinds
      BY DEF MakeInt, Value, Kinds, Numbers
    <3> QED
      BY <3>1, <3>2 DEF IsValue
  <2> QED
    BY <1>1, <2>1, BitsResult DEF Unary, Complement
<1>2. CASE op = "+"
  BY <1>2, PlusResult DEF Unary, Positive
<1>3. CASE op = "-"
  BY <1>3, MinusResult DEF Unary, Negative
<1>4. CASE op = "!"
  BY <1>4, EqualityResult DEF Unary, Not
<1>5. CASE op = "sizeof"
  BY <1>5, PlainResults, IntResult DEF Unary, SizeOf
<1> QED
  BY <1>1, <1>2, <1>3, <1>4, <1>5 DEF UnaryOperators

\* The positions of t[a, b, c] are positions of t.
LEMMA MultipleFacts ==
  ASSUME NEW gap \in Nat, NEW size \in Nat \ {0}, NEW k \in Nat, k <= gap \div size
  PROVE  k * size \in 0..gap
<1>1. gap \div size \in Nat /\ (gap \div size) * size <= gap
  OBVIOUS
<1>2. k * size \in Nat /\ k * size <= (gap \div size) * size
  <2>1. \A a, b \in Nat : a * b \in Nat
    OBVIOUS
  <2>2. gap \div size - k \in Nat
    BY <1>1
  <2>3. (gap \div size - k) * size \in Nat
    BY <2>1, <2>2
  <2>4. (gap \div size - k) * size = (gap \div size) * size - k * size
    BY <1>1
  <2>5. k * size \in Nat /\ (gap \div size) * size \in Nat
    BY <1>1, <2>1
  <2> QED
    BY <2>3, <2>4, <2>5
<1> QED
  BY <1>1, <1>2

LEMMA WalkFacts ==
  ASSUME NEW n \in Nat, NEW start \in 0..n - 1, NEW stop \in 0..n - 1, NEW step \in Int,
         NEW q \in Walk(start, stop, step)
  PROVE  \/ q = Hangs
         \/ /\ q.kind = "positions" /\ q.data \in Seq(Int)
            /\ \A i \in 1..Len(q.data) : q.data[i] \in 0..n - 1
<1>1. CASE step = 0
  BY <1>1 DEF Walk
<1>2. CASE step # 0
  <2> DEFINE towards == IF start <= stop THEN step > 0 ELSE step < 0
             taken   == IF towards THEN (Abs(stop - start) \div Abs(step)) + 1 ELSE 1
             at(i)   == start + (i - 1) * step
             s       == [i \in 1..taken |-> at(i)]
  <2>1. q = Value("positions", s)
    BY <1>2 DEF Walk
  <2>2. /\ Abs(stop - start) \in Nat /\ Abs(step) \in Nat \ {0}
        /\ start <= stop => Abs(stop - start) = stop - start
        /\ start > stop => Abs(stop - start) = start - stop
        /\ step > 0 => Abs(step) = step
        /\ step < 0 => Abs(step) = -step
    BY <1>2 DEF Abs
  <2>3. taken \in Nat
    <3>1. \A a \in Nat, b \in Nat \ {0} : a \div b \in Nat
      OBVIOUS
    <3> QED
      BY <2>2, <3>1
  <2>4. ASSUME NEW i \in 1..taken
        PROVE  at(i) \in 0..n - 1
    <3>1. CASE ~towards
      <4>1. i = 1
        BY <3>1
      <4> QED
        BY <4>1
    <3>2. CASE towards
      <4> DEFINE k == i - 1
                 gap == Abs(stop - start)
                 size == Abs(step)
      <4>1. k \in Nat /\ k <= gap \div size
        <5>1. gap \div size \in Int
          BY <2>2
        <5>2. taken = gap \div size + 1
          BY <3>2
        <5> HIDE DEF gap, size, taken
        <5> QED
          BY <5>1, <5>2, <2>3
      <4>2. gap \in Nat /\ size \in Nat \ {0}
        BY <2>2
      <4> HIDE DEF k, gap, size
      <4>3. k * size \in 0..gap
        BY <4>1, <4>2, MultipleFacts
      <4>4. CASE start <= stop
        <5>1. size = step /\ gap = stop - start
          BY <2>2, <3>2, <4>4 DEF gap, size
        <5>2. at(i) = start + k * size
          BY <5>1 DEF k
        <5> HIDE DEF at, s, taken
        <5>3. k * size \in 0..stop - start
          BY <4>3, <5>1
        <5> DEFINE m == k * size
        <5> HIDE DEF m
        <5> QED
          BY <5>2, <5>3, <4>4 DEF m
      <4>5. CASE start > stop
        <5>1. size = -step /\ gap = start - stop
          BY <2>2, <3>2, <4>5 DEF gap, size
        <5>2. k \in Int /\ size \in Int /\ step = -size
          BY <4>1, <4>2, <5>1
        <5>3. k * step = -(k * size)
          BY <5>2
        <5>4. at(i) = start - k * size
          <6>1. at(i) = start + k * step
            BY DEF k
          <6>2. k * size \in Int
            BY <4>3
          <6> HIDE DEF at
          <6> QED
            BY <5>3, <6>1, <6>2
        <5> DEFINE m == k * size
        <5>5. m \in 0..start - stop /\ at(i) = start - m
          BY <4>3, <5>1, <5>4
        <5> HIDE DEF at, s, taken, m
        <5> QED
          BY <5>5, <4>5
      <4> QED
        BY <4>4, <4>5
    <3> QED
      BY <3>1, <3>2
  <2> HIDE DEF taken, at
  <2>5. s \in Seq(Int) /\ Len(s) = taken /\ \A i \in 1..taken : s[i] = at(i)
    <3>1. \A i \in 1..taken : at(i) \in Int
      BY <2>4
    <3> QED
      BY <2>3, <3>1
  <2> HIDE DEF s
  <2>6. q.kind = "positions" /\ q.data = s
    BY <2>1 DEF Value
  <2> QED
    BY <2>4, <2>5, <2>6
<1> QED
  BY <1>1, <1>2

LEMMA SliceFacts ==
  ASSUME NEW n \in Nat, NEW start \in Int, NEW stop \in Int, NEW step \in Int,
         NEW q \in Slice(n, start, stop, step) \union SliceTo(n, start, stop)
  PROVE  \/ q \in {Raises, Hangs}
         \/ /\ q.kind = "positions" /\ q.data \in Seq(Int)
            /\ \A i \in 1..Len(q.data) : q.data[i] \in 0..n - 1
<1>1. PICK by \in Int : q \in Slice(n, start, stop, by)
  BY DEF SliceTo
<1>2. CASE start >= n \/ stop >= n \/ n = 0
  BY <1>1, <1>2 DEF Slice
<1>3. CASE ~(start >= n \/ stop >= n \/ n = 0)
  <2>1. start % n \in 0..n - 1 /\ stop % n \in 0..n - 1
    <3>1. n \in Nat \ {0}
      BY <1>3
    <3> QED
      BY <3>1
  <2>2. q \in Walk(start % n, stop % n, by)
    BY <1>1, <1>3 DEF Slice
  <2> QED
    BY <2>1, <2>2, WalkFacts
<1> QED
  BY <1>2, <1>3

LEMMA SliceResult ==
  ASSUME NEW t, IsValue(t), t.kind = "tuple", NEW a \in Int, NEW b \in Int, NEW c \in Int,
         NEW q \in Slice(Len(t.data), a, b, c) \union SliceTo(Len(t.data), a, b)
  PROVE  IsResult(IF q.kind = "positions"
                  THEN Value("tuple", [i \in DOMAIN q.data |-> t.data[q.data[i] + 1]])
                  ELSE q)
<1>1. t.data \in Seq(Int) /\ Len(t.data) \in Nat
  BY DataFacts DEF IsValue
<1>2. CASE q \in {Raises, Hangs}
  <2>1. q.kind # "positions"
    BY <1>2 DEF Raises, Hangs, Value
  <2> QED
    BY <1>2, <2>1, PlainResults
<1>3. CASE /\ q.kind = "positions" /\ q.data \in Seq(Int)
           /\ \A i \in 1..Len(q.data) : q.data[i] \in 0..Len(t.data) - 1
  <2> DEFINE s == [i \in DOMAIN q.data |-> t.data[q.data[i] + 1]]
  <2>1. \A i \in 1..Len(q.data) : t.data[q.data[i] + 1] \in Int
    BY <1>1, <1>3
  <2>2. DOMAIN q.data = 1..Len(q.data) /\ Len(q.data) \in Nat
    BY <1>3
  <2>3. s \in Seq(Int)
    BY <2>1, <2>2
  <2> HIDE DEF s
  <2>4. s \in Data("tuple")
    BY <2>3 DEF Data, Numbers
  <2>5. IsValue(Temporary(Value("tuple", s)))
    BY <2>4 DEF IsValue, Temporary, Value, Kinds, Containers
  <2>6. IsResult(Value("tuple", s))
    BY <2>5 DEF IsResult
  <2> QED
    BY <1>3, <2>6 DEF s
<1> QED
  BY <1>1, <1>2, <1>3, SliceFacts

-----------------------------------------------------------------------------
(* The steps, one lemma to each group. *)
LEMMA AssignFacts ==
  ASSUME Good, NEW v \in Names, Assign(v) \/ LogicalAssign(v) \/ ConditionalAssign(v)
  PROVE  Good' /\ Kept
<1>1. CASE Assign(v)
  <2>1. PICK r \in Rights : Becomes(v, SetValue(recs[v], r, heap))
    BY <1>1 DEF Assign
  <2> QED
    BY <2>1, RightFacts, BecomesFacts
<1>2. CASE LogicalAssign(v)
  <2>1. PICK l \in Variables, r \in Variables :
          \E chosen \in {IF LandTakesLeft(l) THEN l ELSE r, IF LorTakesLeft(l) THEN l ELSE r} :
            Becomes(v, SetValue(recs[v], chosen, heap))
    BY <1>2 DEF LogicalAssign
  <2>2. PICK chosen \in {l, r} : Becomes(v, SetValue(recs[v], chosen, heap))
    BY <2>1
  <2> QED
    BY <2>2, VariableFacts, BecomesFacts
<1>3. CASE ConditionalAssign(v)
  <2>1. PICK c \in Variables, l \in Variables, r \in Variables :
          Becomes(v, SetValue(recs[v], IF Truthy(c) THEN l ELSE r, heap))
    BY <1>3 DEF ConditionalAssign
  <2>2. IsValue(IF Truthy(c) THEN l ELSE r)
    BY VariableFacts
  <2> QED
    BY <2>1, <2>2, BecomesFacts
<1> QED
  BY <1>1, <1>2, <1>3

CompoundAssign(v) ==
  \/ AddAssign(v) \/ SubAssign(v) \/ MulAssign(v) \/ DivAssign(v) \/ EpiAssign(v) \/ ModAssign(v)
  \/ PowAssign(v) \/ ShlAssign(v) \/ ShrAssign(v) \/ AndAssign(v) \/ OrAssign(v)

LEMMA CompoundFacts ==
  ASSUME Good, NEW v \in Names, CompoundAssign(v)
  PROVE  Good' /\ Kept
<1>1. ASSUME NEW l \in Operands(recs[v], heap)
      PROVE  IsValue(l)
  BY GoodFacts, LeftFacts, OperandFacts DEF Names
<1>2. \A r \in Rights : IsValue(r)
  BY RightFacts
<1> SUFFICES \E outcome : IsResult(outcome) /\ Yields(v, outcome)
  <2>1. fate \in Fates
    BY DEF Good, TypeOK, Fates
  <2> QED
    BY <2>1, YieldsFacts
<1>3. CASE AddAssign(v)
  BY <1>3, PlusResult DEF AddAssign, Compound
<1>4. CASE SubAssign(v)
  BY <1>4, MinusResult DEF SubAssign, Compound
<1>5. CASE MulAssign(v)
  BY <1>5, TimesResult DEF MulAssign, Compound
<1>6. CASE DivAssign(v)
  BY <1>6, PlusResult DEF DivAssign, Compound
<1>7. CASE EpiAssign(v)
  BY <1>7, QuotientResult DEF EpiAssign, Compound
<1>8. CASE ModAssign(v)
  BY <1>8, ModuloResult DEF ModAssign, Compound
<1>9. CASE PowAssign(v)
  BY <1>9, PowerResult DEF PowAssign, Compound
<1>10. CASE ShlAssign(v)
  BY <1>10, ShiftResult DEF ShlAssign, Compound
<1>11. CASE ShrAssign(v)
  BY <1>11, ShiftResult DEF ShrAssign, Compound
<1>12. CASE AndAssign(v)
  BY <1>1, <1>2, <1>12, BitsResult DEF AndAssign, Compound
<1>13. CASE OrAssign(v)
  BY <1>1, <1>2, <1>13, BitsResult DEF OrAssign, Compound
<1> QED
  BY <1>3, <1>4, <1>5, <1>6, <1>7, <1>8, <1>9, <1>10, <1>11, <1>12, <1>13 DEF CompoundAssign

LEMMA ExpressionFacts ==
  ASSUME Good, BinaryAssign \/ UnaryAssign
  PROVE  Good' /\ Kept
<1>1. fate \in Fates
  BY DEF Good, TypeOK, Fates
<1>2. CASE BinaryAssign
  <2>1. PICK outcome \in UNION {Binary(op, l, r) : op \in Operators, l \in Variables, r \in Variables},
             v \in Names : Yields(v, outcome)
    BY <1>2 DEF BinaryAssign
  <2>2. PICK op \in Operators, l \in Variables, r \in Variables : outcome \in Binary(op, l, r)
    BY <2>1
  <2>3. IsResult(outcome)
    BY <2>2, VariableFacts, BinaryResult
  <2> QED
    BY <1>1, <2>1, <2>3, YieldsFacts
<1>3. CASE UnaryAssign
  <2>1. PICK outcome \in UNION {Unary(op, r) : op \in UnaryOperators, r \in Variables}, v \in Names :
             Yields(v, outcome)
    BY <1>3 DEF UnaryAssign
  <2>2. PICK op \in UnaryOperators, r \in Variables : outcome \in Unary(op, r)
    BY <2>1
  <2>3. IsResult(outcome)
    BY <2>2, VariableFacts, UnaryResult
  <2> QED
    BY <1>1, <2>1, <2>3, YieldsFacts
<1> QED
  BY <1>2, <1>3

\* What s[i] = right leaves: the bytes of s, and a record dropped.
LEMMA CharLeaves ==
  ASSUME NEW h, IsHeap(h), NEW left, left.off # 0, NEW o, IsOutcome(left, h, o),
         NEW end \in Ownerless, NEW g,
         g = [c \in Cells |-> IF c = o.rec.cell /\ o.rec.off = 0 THEN end ELSE o.heap[c]]
  PROVE  IsHeap(g) /\ \A c \in Cells : Spared(h, g, c) \/ (h[c] = Free /\ g[c] = Lost)
<1>1. IsHeap(o.heap) /\ o.rec \in Records
  BY DEF IsOutcome
<1>2. DOMAIN g = Cells
      /\ \A c \in Cells : g[c] = IF c = o.rec.cell /\ o.rec.off = 0 THEN end ELSE o.heap[c]
  OBVIOUS
<1>3. IsHeap(g)
  BY <1>1, <1>2 DEF IsHeap
<1>4. CASE Stays(left, h, o)
  <2>1. \A c \in Cells : g[c] = o.heap[c]
    BY <1>2, <1>4 DEF Stays
  <2>2. \A c \in Cells : \/ o.heap[c] = h[c]
                         \/ /\ o.heap[c].kind = h[c].kind
                            /\ left.off > 0 => h[c].kind = "string" /\ Len(o.heap[c].data) = Len(h[c].data)
    BY <1>4 DEF Stays
  <2>3. left.off > 0
    BY <1>1, <1>4 DEF Stays, Records
  <2> QED
    BY <1>3, <2>1, <2>2, <2>3 DEF Spared, SameOutside
<1>5. CASE Moves(left, h, o)
  <2>1. o.rec.off = 0 /\ \A c \in Cells \ {o.rec.cell} : o.heap[c] = h[c]
    BY <1>5 DEF Moves, Parted, Owned
  <2>2. o.rec.cell \in Cells => h[o.rec.cell] = Free
    <3>1. 0 \notin Cells
      BY AssignAssumption
    <3> QED
      BY <1>5, <3>1 DEF Moves, Owned
  <2> QED
    BY <1>2, <1>3, <2>1, <2>2 DEF Spared, SameOutside, Ownerless
<1> QED
  BY <1>4, <1>5 DEF IsOutcome

\* No record changes, and no payload but inside.
LEMMA InsideFacts ==
  ASSUME Good, UNCHANGED recs, IsHeap(heap'), fate' \in Fates,
         \A c \in Cells : Spared(heap, heap', c) \/ (heap[c] = Free /\ heap'[c] = Lost)
  PROVE  Good' /\ Kept
<1>1. /\ \A w \in DOMAIN recs : recs[w] \in Records
      /\ IsHeap(heap) /\ Sound(recs, heap)
  BY GoodFacts
<1>2. Sound(recs, heap')
  BY <1>1, SparedSound
<1>3. Good'
  BY <1>1, <1>2 DEF Good, TypeOK, PayloadsSound, Names, Fates
<1>4. ASSUME NEW w \in Names
      PROVE  OneKept(recs[w], recs'[w], heap, heap')
  <2>1. IsLeft(recs[w], heap)
    BY <1>1, LeftFacts DEF Names
  <2>2. ASSUME recs[w].off = 0, recs[w].cell \in Cells
        PROVE  Spared(heap, heap', recs[w].cell)
    <3>1. heap[recs[w].cell] \notin Ownerless
      BY <1>1, <2>2, OwnerFacts DEF Names
    <3> QED
      BY <2>2, <3>1 DEF Ownerless
  <2> QED
    BY <2>1, <2>2, OtherKept
<1> QED
  BY <1>3, <1>4 DEF Kept

LEMMA CharAssignFacts ==
  ASSUME Good, NEW s \in Names, CharAssign(s)
  PROVE  Good' /\ Kept
<1>1. /\ \A w \in DOMAIN recs : recs[w] \in Records
      /\ IsHeap(heap) /\ Sound(recs, heap)
  BY GoodFacts
<1>2. recs[s].kind = "string"
  BY DEF CharAssign
<1> DEFINE end(o) == IF o.rec.kind \in Numbers \union {"string"} THEN Lost ELSE Free
<1>3. PICK p \in Positions(recs[s], heap), r \in Rights :
        \E o \in SetValue(CharAt(recs[s], p), r, heap) :
          /\ heap' = [c \in Cells |-> IF c = o.rec.cell /\ o.rec.off = 0 THEN end(o) ELSE o.heap[c]]
          /\ fate' = o.fate
          /\ UNCHANGED recs
  BY DEF CharAssign
<1>4. PICK o \in SetValue(CharAt(recs[s], p), r, heap) :
        /\ heap' = [c \in Cells |-> IF c = o.rec.cell /\ o.rec.off = 0 THEN end(o) ELSE o.heap[c]]
        /\ fate' = o.fate
        /\ UNCHANGED recs
  BY <1>3
<1> DEFINE left == CharAt(recs[s], p)
<1>5. IsLeft(left, heap)
  BY <1>2, CharFacts
<1>6. left.off # 0
  <2>1. LengthOf(recs[s], heap) \in Nat
    BY <1>2, HolderFacts
  <2>2. p \in Nat
    BY <2>1, PositionFacts
  <2> QED
    BY <2>2 DEF CharAt
<1> HIDE DEF left
<1>7. IsOutcome(left, heap, o)
  BY <1>1, <1>4, <1>5, RightFacts, SetValueFacts DEF left
<1>8. end(o) \in Ownerless
  BY DEF Ownerless
<1> HIDE DEF end
<1>9. /\ IsHeap(heap')
      /\ \A c \in Cells : Spared(heap, heap', c) \/ (heap[c] = Free /\ heap'[c] = Lost)
  BY <1>1, <1>4, <1>6, <1>7, <1>8, CharLeaves
<1>10. fate' \in Fates
  BY <1>4, <1>7, Zenon DEF IsOutcome
<1> QED
  BY <1>4, <1>9, <1>10, InsideFacts

\* An element of a tuple, or one behind a key of an object, is replaced.
LEMMA ElementReplaced ==
  ASSUME NEW data \in Seq(Int), NEW i \in 1..Len(data), NEW n \in Int,
         NEW kind \in {"tuple", "object"}, kind = "object" => i % 2 = 0
  PROVE  LET d == [data EXCEPT ![i] = n]
         IN  d \in Data(kind) /\ SameShape(kind, data, d)
<1> DEFINE d == [data EXCEPT ![i] = n]
<1>1. /\ d \in Seq(Int) /\ Len(d) = Len(data) /\ DOMAIN d = DOMAIN data
      /\ \A j \in DOMAIN data : j # i => d[j] = data[j]
  OBVIOUS
<1> HIDE DEF d
<1>2. kind \notin Numbers /\ kind \notin {"char", "string"}
  BY DEF Numbers
<1>3. d \in Data(kind)
  BY <1>1, <1>2 DEF Data
<1>4. ASSUME kind = "tuple"
      PROVE  SameShape(kind, data, d)
  BY <1>1, <1>4, Zenon DEF SameShape
<1>5. ASSUME kind = "object"
      PROVE  SameShape(kind, data, d)
  <2>1. i % 2 # 1
    BY <1>5
  <2>2. Keys(d) = Keys(data)
    BY <1>1, <2>1 DEF Keys
  <2> QED
    BY <1>1, <1>5, <2>2, Zenon DEF SameShape
<1> QED
  BY <1>3, <1>4, <1>5 DEF d

LEMMA ElementAssignFacts ==
  ASSUME Good, NEW b \in Names, ElementAssign(b)
  PROVE  Good' /\ Kept
<1>1. PICK i \in Slots(recs[b], heap), r \in Rights :
        /\ r.data[1] \in Stored
        /\ heap' = [heap EXCEPT ![recs[b].cell].data[i] = r.data[1]]
        /\ UNCHANGED <<recs, fate>>
  BY DEF ElementAssign
<1> DEFINE c == recs[b].cell
           data == heap[c].data
           n == r.data[1]
           d == [data EXCEPT ![i] = n]
<1>2. /\ recs[b].kind \in {"tuple", "object"} /\ c \in Cells
      /\ heap[c].kind = recs[b].kind
      /\ data \in Seq(Int) /\ i \in 1..Len(data)
      /\ recs[b].kind = "object" => i % 2 = 0
  BY SlotFacts
<1>3. n \in Int
  BY <1>1, AssignAssumption
<1>4. heap' = [heap EXCEPT ![c].data = d]
  BY <1>1
<1> HIDE DEF c, n
<1>5. d \in Data(recs[b].kind) /\ SameShape(recs[b].kind, data, d)
  BY <1>2, <1>3, ElementReplaced
<1> HIDE DEF d
<1>6. IsHeap(heap) /\ heap[c].kind \in Kinds /\ c \in Cells /\ d \in Data(heap[c].kind)
  BY <1>2, <1>5, GoodFacts DEF Kinds, Containers
<1>7. /\ IsHeap(heap')
      /\ heap'[c].kind = heap[c].kind /\ heap'[c].data = d
      /\ \A x \in Cells \ {c} : heap'[x] = heap[x]
  <2>1. LET m == [heap EXCEPT ![c].data = d]
        IN  /\ IsHeap(m)
            /\ m[c].kind = heap[c].kind /\ m[c].data = d /\ m[c] \notin Ownerless
            /\ \A x \in Cells \ {c} : m[x] = heap[x]
    BY ONLY <1>6, HeapWrites
  <2> QED
    BY <1>4, <2>1, Zenon
<1>8. \A x \in Cells : Spared(heap, heap', x)
  BY <1>2, <1>5, <1>7 DEF Spared, SameOutside
<1>9. fate' \in Fates
  BY <1>1 DEF Good, TypeOK, Fates
<1> QED
  BY <1>1, <1>7, <1>8, <1>9, InsideFacts

LEMMA SliceAssignFacts ==
  ASSUME Good, NEW v \in Names, SliceAssign(v)
  PROVE  Good' /\ Kept
<1>1. PICK t \in Variables, a \in Indexes, b \in Indexes :
        /\ t.kind = "tuple"
        /\ \E outcome \in SliceTo(Len(t.data), a, b)
                   \union UNION {Slice(Len(t.data), a, b, c) : c \in Indexes} :
              Yields(v, IF outcome.kind = "positions"
                        THEN Value("tuple", [i \in DOMAIN outcome.data |-> t.data[outcome.data[i] + 1]])
                        ELSE outcome)
  BY DEF SliceAssign
<1>2. PICK q \in SliceTo(Len(t.data), a, b)
                   \union UNION {Slice(Len(t.data), a, b, c) : c \in Indexes} :
              Yields(v, IF q.kind = "positions"
                        THEN Value("tuple", [i \in DOMAIN q.data |-> t.data[q.data[i] + 1]])
                        ELSE q)
  BY <1>1
<1>3. PICK c \in Int : q \in Slice(Len(t.data), a, b, c) \union SliceTo(Len(t.data), a, b)
  BY <1>2, AssignAssumption
<1>4. a \in Int /\ b \in Int /\ IsValue(t) /\ t.kind = "tuple"
  BY <1>1, AssignAssumption, VariableFacts
<1> DEFINE outcome == IF q.kind = "positions"
                      THEN Value("tuple", [i \in DOMAIN q.data |-> t.data[q.data[i] + 1]])
                      ELSE q
<1>5. IsResult(outcome)
  BY <1>3, <1>4, SliceResult
<1>6. Yields(v, outcome)
  BY <1>2
<1> HIDE DEF outcome
<1>7. fate \in Fates
  BY DEF Good, TypeOK, Fates
<1> QED
  BY <1>5, <1>6, <1>7, YieldsFacts

LEMMA NextFacts ==
  ASSUME Good, [Next]_vars
  PROVE  Good' /\ Kept
<1>1. ASSUME NEW v \in Names, Step(v)
      PROVE  Good' /\ Kept
  BY <1>1, AssignFacts, CompoundFacts, CharAssignFacts, ElementAssignFacts,
     SliceAssignFacts DEF Step, CompoundAssign
<1>2. CASE IndexStatement
  BY <1>2, StandsStill DEF IndexStatement, Fates
<1>3. CASE UNCHANGED vars
  <2>1. fate \in Fates
    BY DEF Good, TypeOK, Fates
  <2> QED
    BY <1>3, <2>1, StandsStill DEF vars
<1> QED
  BY <1>1, <1>2, <1>3, ExpressionFacts DEF Next

-----------------------------------------------------------------------------
LEMMA InitFacts ==
  Init => Good
<1> SUFFICES ASSUME Init
             PROVE  Good
  OBVIOUS
<1>1. PICK p \in Programs : recs = p.recs /\ heap = p.heap /\ fate = "runs"
  BY DEF Init
<1> QED
  BY <1>1, ProgramsAssumption DEF Good, TypeOK, PayloadsSound, Names

LEMMA AlwaysGood ==
  Spec => []Good
<1>1. Good /\ [Next]_vars => Good'
  BY NextFacts
<1> QED
  BY <1>1, InitFacts, PTL DEF Spec

(* Whatever programs assign, compute and index, records and payloads are   *)
(* what their kinds say: a char and a string hold bytes after every        *)
(* operator of the language.                                               *)
THEOREM TypesHold == Spec => []TypeOK
<1>1. Good => TypeOK
  BY DEF Good
<1> QED
  BY <1>1, AlwaysGood, PTL

(* Whatever is assigned to whatever, each payload has one owner of its     *)
(* kind, and a payload without an owner is freed, but for what a record    *)
(* with reference set dropped: none of the 169 cases of                    *)
(* not_assign_set_value frees twice or shares a payload, and none loses    *)
(* that of an ordinary variable.                                           *)
THEOREM PayloadsStaySound == Spec => []PayloadsSound
<1>1. Good => PayloadsSound
  BY DEF Good
<1> QED
  BY <1>1, AlwaysGood, PTL

(* Typed variables keep their kind and shape, readonly ones their record   *)
(* and their payload, but for what is inside: the bytes of strings and the *)
(* elements of tuples and objects, whose records have no flag.             *)
THEOREM TypedStayTyped == Spec => TypedStays
<1>1. Good /\ [Next]_vars => Kept
  BY NextFacts
<1>2. Kept => \A v \in Names :
        /\ recs[v].typed /\ recs[v].kind \notin Pointerless =>
             /\ recs'[v].kind = recs[v].kind /\ recs'[v].typed
             /\ recs[v].kind \in {"object", "tuple", "struct"} =>
                  SameShape(recs[v].kind, heap[recs[v].cell].data, heap'[recs'[v].cell].data)
        /\ recs[v].readonly =>
             /\ recs'[v] = recs[v]
             /\ recs[v].cell # 0 /\ recs[v].off = 0 =>
                  SameOutside(heap[recs[v].cell], heap'[recs[v].cell])
  BY DEF Kept, OneKept
<1> QED
  BY <1>1, <1>2, AlwaysGood, PTL DEF TypedStays, Spec

-----------------------------------------------------------------------------
(* The order of values. *)
LEMMA Smallest ==
  ASSUME NEW ns \in SUBSET Nat, ns # {}
  PROVE  Min(ns) \in ns /\ \A n \in ns : Min(ns) <= n
<1>1. PICK m \in ns : \A n \in ns : <<n, m>> \notin OpToRel(<, Nat)
  BY NatLessThanWellFounded, WFMin
<1>2. \A n \in ns : ~(n < m)
  BY <1>1 DEF OpToRel
<1>3. \A n \in ns : m <= n
  BY <1>2
<1> QED
  BY <1>1, <1>3 DEF Min

Differ(s, t) == {i \in 1..Len(s) + 1 : i > Len(t) \/ i > Len(s) \/ s[i] # t[i]}

\* Two strings differ first at the same place, whichever is looked at first.
LEMMA FirstDifference ==
  ASSUME NEW s \in Data("string"), NEW t \in Data("string")
  PROVE  /\ Min(Differ(s, t)) \in Differ(s, t)
         /\ Min(Differ(s, t)) = Min(Differ(t, s))
         /\ s # t => ~(Min(Differ(s, t)) > Len(s) /\ Min(Differ(s, t)) > Len(t))
<1>1. /\ s \in Seq(Int) /\ t \in Seq(Int) /\ Len(s) \in Nat /\ Len(t) \in Nat
  BY DEF Data
<1>2. ASSUME NEW x \in Seq(Int), NEW y \in Seq(Int)
      PROVE  /\ Differ(x, y) \in SUBSET Nat
             /\ Min(Differ(x, y)) \in Differ(x, y)
             /\ \A n \in Differ(x, y) : Min(Differ(x, y)) <= n
             /\ Min(Differ(x, y)) \in Differ(y, x)
  <2>1. Len(x) \in Nat /\ Len(y) \in Nat
    OBVIOUS
  <2>2. Differ(x, y) \in SUBSET Nat /\ Len(x) + 1 \in Differ(x, y)
    BY <2>1 DEF Differ
  <2>3. /\ Min(Differ(x, y)) \in Differ(x, y)
        /\ \A n \in Differ(x, y) : Min(Differ(x, y)) <= n
    BY <2>2, Smallest
  <2>4. Len(y) < Len(x) => Len(y) + 1 \in Differ(x, y)
    BY <2>1 DEF Differ
  <2>5. Min(Differ(x, y)) <= Len(y) + 1
    BY <2>1, <2>2, <2>3, <2>4
  <2> DEFINE m == Min(Differ(x, y))
  <2>6. /\ m \in 1..Len(x) + 1 /\ m <= Len(y) + 1
        /\ m > Len(y) \/ m > Len(x) \/ x[m] # y[m]
    BY <2>3, <2>5 DEF Differ
  <2> HIDE DEF m
  <2>7. m \in Differ(y, x)
    BY <2>1, <2>6 DEF Differ
  <2> QED
    BY <2>2, <2>3, <2>7 DEF m
<1>3. Min(Differ(s, t)) = Min(Differ(t, s))
  <2> DEFINE m == Min(Differ(s, t))
             n == Min(Differ(t, s))
  <2>1. m \in Nat /\ n \in Nat /\ m <= n /\ n <= m
    BY <1>1, <1>2
  <2> HIDE DEF m, n
  <2>2. m = n
    BY <2>1
  <2> QED
    BY <2>2 DEF m, n
<1>4. ASSUME Min(Differ(s, t)) > Len(s), Min(Differ(s, t)) > Len(t)
      PROVE  s = t
  <2> DEFINE m == Min(Differ(s, t))
  <2>1. m \in 1..Len(s) + 1 /\ m \in 1..Len(t) + 1 /\ \A n \in Differ(s, t) : m <= n
    BY <1>1, <1>2, <1>3 DEF Differ
  <2>2. m > Len(s) /\ m > Len(t)
    BY <1>4
  <2> HIDE DEF m
  <2>3. Len(s) = Len(t) /\ m = Len(s) + 1
    BY <1>1, <2>1, <2>2
  <2>4. \A i \in 1..Len(s) : i \notin Differ(s, t)
    BY <1>1, <2>1, <2>3
  <2>5. \A i \in 1..Len(s) : s[i] = t[i]
    BY <1>1, <2>4 DEF Differ
  <2> QED
    BY <1>1, <2>3, <2>5, SeqEqual
<1> QED
  BY <1>1, <1>2, <1>3, <1>4

\* strcmp is 0 for equal strings only, and what it says the other way about
\* has the other sign.
LEMMA StrCmpFacts ==
  ASSUME NEW s \in Data("string"), NEW t \in Data("string")
  PROVE  /\ StrCmp(s, t) \in {-1, 0, 1}
         /\ StrCmp(s, t) = 0 <=> s = t
         /\ StrCmp(s, t) < 0 <=> StrCmp(t, s) > 0
<1>1. CASE s = t
  BY <1>1 DEF StrCmp
<1>2. CASE s # t
  <2> DEFINE m == Min(Differ(s, t))
  <2>1. /\ StrCmp(s, t) = IF m > Len(s) THEN -1 ELSE IF m > Len(t) THEN 1
                          ELSE IF s[m] % 256 < t[m] % 256 THEN -1 ELSE 1
        /\ StrCmp(t, s) = IF m > Len(t) THEN -1 ELSE IF m > Len(s) THEN 1
                          ELSE IF t[m] % 256 < s[m] % 256 THEN -1 ELSE 1
    <3>1. m = Min(Differ(t, s))
      BY FirstDifference
    <3> QED
      BY <1>2, <3>1 DEF StrCmp, Differ
  <2>2. m \in Differ(s, t) /\ ~(m > Len(s) /\ m > Len(t))
    BY <1>2, FirstDifference
  <2>3. /\ Len(s) \in Nat /\ Len(t) \in Nat /\ m \in 1..Len(s) + 1
        /\ m > Len(t) \/ m > Len(s) \/ s[m] # t[m]
        /\ \A i \in 1..Len(s) : s[i] \in -128..127
        /\ \A i \in 1..Len(t) : t[i] \in -128..127
    BY <2>2 DEF Differ, Data
  <2> HIDE DEF m
  <2>4. CASE m > Len(s) \/ m > Len(t)
    BY <1>2, <2>1, <2>2, <2>3, <2>4
  <2>5. CASE ~(m > Len(s)) /\ ~(m > Len(t))
    <3>1. m \in 1..Len(s) /\ m \in 1..Len(t)
      BY <2>3, <2>5
    <3>2. s[m] \in -128..127 /\ t[m] \in -128..127 /\ s[m] # t[m]
      BY <2>3, <2>5, <3>1
    <3>3. ASSUME NEW a \in -128..127, NEW b \in -128..127, a # b
          PROVE  a % 256 # b % 256 /\ a % 256 \in Int /\ b % 256 \in Int
      BY <3>3
    <3> DEFINE p == s[m] % 256
               q == t[m] % 256
    <3>4. p # q /\ p \in Int /\ q \in Int
      BY <3>2, <3>3
    <3>5. /\ StrCmp(s, t) = IF p < q THEN -1 ELSE 1
          /\ StrCmp(t, s) = IF q < p THEN -1 ELSE 1
      BY <2>1, <2>5
    <3> HIDE DEF p, q
    <3>6. p < q <=> ~(q < p)
      BY <3>4
    <3> QED
      BY <1>2, <3>5, <3>6
  <2> QED
    BY <2>4, <2>5
<1> QED
  BY <1>1, <1>2



\* A comparison that ends in a truth value holds when that is true.
LEMMA TrueIsNotFalse == MakeInt(1) # MakeInt(0)
BY DEF MakeInt, Value

\* The comparisons of two numbers, in halves.
LEMMA NumbersCompared ==
  ASSUME NEW l, NEW r, Present(l), Present(r), l.kind \in Numbers, r.kind \in Numbers
  PROVE  LET a == Halves(l)  b == Halves(r)
             across == l.kind = "char" /\ r.kind # "char"
         IN  /\ Holds(Lt(l, r)) <=> IF across THEN a <= b ELSE a < b
             /\ Holds(Le(l, r)) <=> IF across THEN a < b ELSE a <= b
             /\ Holds(Gt(l, r)) <=> IF across THEN a >= b ELSE a > b
             /\ Holds(Ge(l, r)) <=> IF across THEN a > b ELSE a >= b
             /\ Holds(Eq(l, r)) <=> a = b
<1> DEFINE a == Halves(l)
           b == Halves(r)
           across == l.kind = "char" /\ r.kind # "char"
<1>1. /\ l.kind \notin {"string", "object", "tuple", "struct", "undefined", "nan", "null"}
      /\ r.kind \notin Pointerless
  BY DEF Numbers, Pointerless
<1>2. ASSUME across
      PROVE  /\ Holds(Lt(l, r)) <=> a <= b
             /\ Holds(Le(l, r)) <=> a < b
             /\ Holds(Gt(l, r)) <=> a >= b
             /\ Holds(Ge(l, r)) <=> a > b
  BY <1>1, <1>2, TrueIsNotFalse
     DEF Holds, Truth, Lt, Le, Gt, Ge, Strictly, OrEqual, Related, Below, AtMost, Above, AtLeast
<1>3. ASSUME ~across
      PROVE  /\ Holds(Lt(l, r)) <=> a < b
             /\ Holds(Le(l, r)) <=> a <= b
             /\ Holds(Gt(l, r)) <=> a > b
             /\ Holds(Ge(l, r)) <=> a >= b
  <2>1. CASE l.kind # "char"
    <3>1. Holds(Lt(l, r)) <=> a < b
      BY <1>1, <2>1, TrueIsNotFalse DEF Holds, Truth, Lt, Strictly, Related, Below, AtMost
    <3>2. Holds(Le(l, r)) <=> a <= b
      BY <1>1, <2>1, TrueIsNotFalse DEF Holds, Truth, Le, OrEqual, Related, Below, AtMost
    <3>3. Holds(Gt(l, r)) <=> a > b
      BY <1>1, <2>1, TrueIsNotFalse DEF Holds, Truth, Gt, Strictly, Related, Above, AtLeast
    <3>4. Holds(Ge(l, r)) <=> a >= b
      BY <1>1, <2>1, TrueIsNotFalse DEF Holds, Truth, Ge, OrEqual, Related, Above, AtLeast
    <3> QED
      BY <3>1, <3>2, <3>3, <3>4
  <2>2. CASE r.kind = "char"
    BY <1>1, <2>2, TrueIsNotFalse
       DEF Holds, Truth, Lt, Le, Gt, Ge, Strictly, OrEqual, Related, Below, AtMost, Above, AtLeast
  <2> QED
    BY <1>3, <2>1, <2>2
<1>4. Holds(Eq(l, r)) <=> a = b
  BY <1>1, TrueIsNotFalse DEF Holds, Truth, Eq, EqualNumber
<1> QED
  BY <1>2, <1>3, <1>4

\* The comparisons of two strings, by what strcmp returns.
LEMMA StringsCompared ==
  ASSUME NEW l, NEW r, Present(l), Present(r), l.kind = "string", r.kind = "string"
  PROVE  LET n == StrCmp(Text(l.data), Text(r.data))
         IN  /\ Holds(Lt(l, r)) <=> n < 0
             /\ Holds(Le(l, r)) <=> n <= 0
             /\ Holds(Gt(l, r)) <=> n > 0
             /\ Holds(Ge(l, r)) <=> n >= 0
             /\ Holds(Eq(l, r)) <=> Text(l.data) = Text(r.data)
<1>1. l.kind \notin Numbers
  BY DEF Numbers
<1> QED
  BY <1>1, TrueIsNotFalse
     DEF Holds, Truth, Lt, Le, Gt, Ge, Eq, Strictly, OrEqual, Related, Below, AtMost, Above, AtLeast

\* No tuple is below and above another: their lengths differ one way.
LEMMA TuplesCompared ==
  ASSUME NEW l, NEW r, IsValue(l), IsValue(r), Present(l), l.kind = "tuple", r.kind = "tuple"
  PROVE  ~(Holds(Lt(l, r)) /\ Holds(Gt(l, r)))
<1>1. l.kind \notin Numbers
  BY DEF Numbers
<1>2. Len(l.data) \in Nat /\ Len(r.data) \in Nat
  BY DEF IsValue, Data
<1>3. Holds(Lt(l, r)) => Len(l.data) < Len(r.data)
  BY <1>1, TrueIsNotFalse DEF Holds, Truth, Lt, Strictly, Related, TuplesRelated, Below
<1>4. Holds(Gt(l, r)) => Len(l.data) > Len(r.data)
  BY <1>1, TrueIsNotFalse DEF Holds, Truth, Gt, Strictly, Related, TuplesRelated, Above
<1> QED
  BY <1>2, <1>3, <1>4

\* '!=' says the opposite of '=='.
LEMMA UnequalIsNotEqual ==
  ASSUME NEW l, NEW r, l.kind # "struct"
  PROVE  Holds(Eq(l, r)) # Holds(Neq(l, r))
<1>1. Eq(l, r) = {MakeInt(0)} \/ Eq(l, r) = {MakeInt(1)}
  BY DEF Eq, Truth
<1>2. /\ Eq(MakeInt(0), MakeInt(0)) = {MakeInt(1)}
      /\ Eq(MakeInt(0), MakeInt(1)) = {MakeInt(0)}
  <2>1. ASSUME NEW n \in Int
        PROVE  /\ MakeInt(n).kind = "int" /\ MakeInt(n).flags = {}
               /\ MakeInt(n).data[1] = n
    BY DEF MakeInt, Value
  <2>2. 2 * 0 # 2 * 1
    OBVIOUS
  <2> QED
    BY <2>1, <2>2 DEF Eq, Present, EqualNumber, Halves, Truth, Numbers, Pointerless
<1>3. MakeInt(0) # Raises /\ MakeInt(1) # Raises
  BY DEF MakeInt, Value, Raises
<1>4. ASSUME NEW e, e # Raises, Eq(l, r) = {e}
      PROVE  Neq(l, r) = Eq(MakeInt(0), e)
  BY <1>4 DEF Neq
<1>5. CASE Eq(l, r) = {MakeInt(0)}
  BY <1>2, <1>3, <1>4, <1>5, TrueIsNotFalse DEF Holds
<1>6. CASE Eq(l, r) = {MakeInt(1)}
  BY <1>2, <1>3, <1>4, <1>6, TrueIsNotFalse DEF Holds
<1> QED
  BY <1>1, <1>5, <1>6

\* For any two values that are present, whatever variables hold them.
Ordered(l, r) ==
  LET lt == Holds(Lt(l, r))  le == Holds(Le(l, r))  eq == Holds(Eq(l, r))
      gt == Holds(Gt(l, r))  ge == Holds(Ge(l, r))
      across == l.kind = "char" /\ r.kind # "char"
  IN  IF across /\ eq THEN lt /\ gt /\ ~le /\ ~ge
      ELSE /\ Cardinality({i \in 1..3 : <<lt, eq, gt>>[i]}) = 1
           /\ le = (lt \/ eq) /\ ge = (gt \/ eq)
           /\ lt = Holds(Gt(r, l)) \/ (r.kind = "char" /\ eq)

\* Of three things exactly one.
LEMMA OneOfThree ==
  ASSUME NEW p \in BOOLEAN, NEW q \in BOOLEAN, NEW o \in BOOLEAN,
         p \/ q \/ o, ~(p /\ q), ~(p /\ o), ~(q /\ o)
  PROVE  Cardinality({i \in 1..3 : <<p, q, o>>[i]}) = 1
<1> DEFINE f == <<p, q, o>>
           such == {i \in 1..3 : f[i]}
<1>1. f[1] = p /\ f[2] = q /\ f[3] = o
  OBVIOUS
<1> HIDE DEF f
<1>2. (p <=> 1 \in such) /\ (q <=> 2 \in such) /\ (o <=> 3 \in such)
  BY <1>1
<1>3. such \subseteq {1, 2, 3}
  OBVIOUS
<1> HIDE DEF such
<1>4. such = {1} \/ such = {2} \/ such = {3}
  <2>1. p => such = {1}
    BY <1>2, <1>3
  <2>2. q => such = {2}
    BY <1>2, <1>3
  <2>3. o => such = {3}
    BY <1>2, <1>3
  <2> QED
    BY <2>1, <2>2, <2>3
<1> QED
  BY <1>4, FS_Singleton DEF such, f

LEMMA NumbersOrdered ==
  ASSUME NEW l, NEW r, IsValue(l), IsValue(r), Present(l), Present(r),
         l.kind \in Numbers, r.kind \in Numbers
  PROVE  Ordered(l, r)
<1> DEFINE a == Halves(l)
           b == Halves(r)
           across == l.kind = "char" /\ r.kind # "char"
<1>1. a \in Int /\ b \in Int
  <2>1. l.data[1] \in Int /\ r.data[1] \in Int
    BY DataFacts DEF IsValue, Kinds
  <2> QED
    BY <2>1 DEF Halves
<1>2. /\ Holds(Lt(l, r)) <=> IF across THEN a <= b ELSE a < b
      /\ Holds(Le(l, r)) <=> IF across THEN a < b ELSE a <= b
      /\ Holds(Gt(l, r)) <=> IF across THEN a >= b ELSE a > b
      /\ Holds(Ge(l, r)) <=> IF across THEN a > b ELSE a >= b
      /\ Holds(Eq(l, r)) <=> a = b
      /\ Holds(Gt(r, l)) <=> IF r.kind = "char" /\ l.kind # "char" THEN b >= a ELSE b > a
  BY NumbersCompared
<1> DEFINE lt == Holds(Lt(l, r))
           le == Holds(Le(l, r))
           eq == Holds(Eq(l, r))
           gt == Holds(Gt(l, r))
           ge == Holds(Ge(l, r))
           back == Holds(Gt(r, l))
<1>3. lt \in BOOLEAN /\ le \in BOOLEAN /\ eq \in BOOLEAN /\ gt \in BOOLEAN /\ ge \in BOOLEAN
      /\ back \in BOOLEAN
  BY DEF Holds
<1>4. CASE across /\ eq
  BY <1>1, <1>2, <1>4 DEF Ordered
<1>5. CASE ~(across /\ eq)
  <2> HIDE DEF a, b, lt, le, eq, gt, ge, back
  <2>1. /\ lt \/ eq \/ gt
        /\ ~(lt /\ eq) /\ ~(lt /\ gt) /\ ~(eq /\ gt)
        /\ le = (lt \/ eq) /\ ge = (gt \/ eq)
        /\ lt = back \/ (r.kind = "char" /\ eq)
    BY <1>1, <1>2, <1>3, <1>5 DEF a, b, lt, le, eq, gt, ge, back
  <2>2. Cardinality({i \in 1..3 : <<lt, eq, gt>>[i]}) = 1
    BY <1>3, <2>1, OneOfThree
  <2> QED
    BY <1>5, <2>1, <2>2 DEF Ordered, lt, le, eq, gt, ge, back
<1> QED
  BY <1>4, <1>5

LEMMA StringsOrdered ==
  ASSUME NEW l, NEW r, IsValue(l), IsValue(r), Present(l), Present(r),
         l.kind = "string", r.kind = "string"
  PROVE  Ordered(l, r)
<1> DEFINE s == Text(l.data)
           t == Text(r.data)
           lt == Holds(Lt(l, r))
           le == Holds(Le(l, r))
           eq == Holds(Eq(l, r))
           gt == Holds(Gt(l, r))
           ge == Holds(Ge(l, r))
           back == Holds(Gt(r, l))
<1>1. s \in Data("string") /\ t \in Data("string")
  BY TextFacts DEF IsValue
<1>2. /\ lt <=> StrCmp(s, t) < 0
      /\ le <=> StrCmp(s, t) <= 0
      /\ gt <=> StrCmp(s, t) > 0
      /\ ge <=> StrCmp(s, t) >= 0
      /\ eq <=> s = t
      /\ back <=> StrCmp(t, s) > 0
  BY StringsCompared
<1>3. lt \in BOOLEAN /\ le \in BOOLEAN /\ eq \in BOOLEAN /\ gt \in BOOLEAN /\ ge \in BOOLEAN
      /\ back \in BOOLEAN
  BY DEF Holds
<1>4. /\ StrCmp(s, t) \in {-1, 0, 1}
      /\ StrCmp(s, t) = 0 <=> s = t
      /\ StrCmp(s, t) < 0 <=> StrCmp(t, s) > 0
  BY <1>1, StrCmpFacts
<1> HIDE DEF s, t, lt, le, eq, gt, ge, back
<1>5. /\ lt \/ eq \/ gt
      /\ ~(lt /\ eq) /\ ~(lt /\ gt) /\ ~(eq /\ gt)
      /\ le = (lt \/ eq) /\ ge = (gt \/ eq)
      /\ lt = back
  BY <1>2, <1>3, <1>4
<1>6. Cardinality({i \in 1..3 : <<lt, eq, gt>>[i]}) = 1
  BY <1>3, <1>5, OneOfThree
<1> QED
  BY <1>5, <1>6 DEF Ordered, lt, le, eq, gt, ge, back

(* For whatever values the variables come to hold, the six comparisons are *)
(* those of one order on numbers and on strings, with the exception that   *)
(* relational.c has for a char on the left; no tuple is below and above    *)
(* another, and '!=' is the opposite of '=='.                              *)
THEOREM ComparisonsOrder == Spec => []OrderConsistent
<1>1. Good => OrderConsistent
  <2> SUFFICES ASSUME Good, NEW l \in Variables, NEW r \in Variables, Present(l), Present(r)
               PROVE  /\ (l.kind \in Numbers /\ r.kind \in Numbers)
                           \/ (l.kind = "string" /\ r.kind = "string") => Ordered(l, r)
                      /\ l.kind = "tuple" /\ r.kind = "tuple" =>
                            ~(Holds(Lt(l, r)) /\ Holds(Gt(l, r)))
                      /\ l.kind # "struct" => Holds(Eq(l, r)) # Holds(Neq(l, r))
    BY DEF OrderConsistent, Ordered
  <2>1. IsValue(l) /\ IsValue(r)
    BY VariableFacts
  <2> QED
    BY <2>1, NumbersOrdered, StringsOrdered, TuplesCompared, UnequalIsNotEqual
<1> QED
  BY <1>1, AlwaysGood, PTL
=============================================================================
