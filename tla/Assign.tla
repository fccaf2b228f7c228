------------------------------- MODULE Assign -------------------------------
(***************************************************************************)
(* Assignment (interpreter/assign.c) over variables, their records and the *)
(* payloads the records point to, with the operators of Values and the     *)
(* elements of strings, tuples and objects (interpreter/array.c), which    *)
(* for tuples and objects are INT records.                                 *)
(*                                                                         *)
(* A record's value points to a cell of the heap, 0 being NULL.  The char  *)
(* record that s[i] makes points into the buffer of the string (off > 0)   *)
(* and has reference set; a variable declared 'reference' holds that very  *)
(* record. realloc may or may not move a payload.                          *)
(***************************************************************************)
EXTENDS Values, FiniteSets

CONSTANTS
    Programs,   \* sets of declarations: functions from names to Declared
    Literals,   \* values that stand on the right of an assignment
    Indexes,    \* what is written in brackets
    Stored,     \* the integers that an element of a tuple or an object is set to
    Cells,      \* the heap; with no cell left an allocation is not explored
    Garbage     \* what a read of freed memory, or past its end, may give

ASSUME AssignAssumption ==
    /\ 0 \notin Cells /\ Garbage \subseteq Bytes /\ Indexes \subseteq Int /\ Stored \subseteq Int
    /\ \A l \in Literals : l.kind \in Kinds /\ l.flags = {} /\ l.data \in Data(l.kind)

VARIABLES
    recs,   \* the record of each variable
    heap,   \* the payload in each cell
    fate    \* "runs", "aborted", "hung" or "corrupted"

vars == <<recs, heap, fate>>
-----------------------------------------------------------------------------
(* Memory.  A lost payload was dropped by a record that has reference set: *)
(* it is allocated, no record points to it, and what it was is forgotten.  *)
Free == [kind |-> "free", data |-> <<>>]
Lost == [kind |-> "lost", data |-> <<>>]
Ownerless == {Free, Lost}
Cell(kind, data) == [kind |-> kind, data |-> data]

Fresh(h) == {c \in Cells : h[c].kind = "free"}

Records  == [kind : Kinds, cell : Cells \union {0}, off : Nat,
             flags : SUBSET {"null", "undefined", "nan"},
             typed : BOOLEAN, readonly : BOOLEAN, reference : BOOLEAN]
IsHeap(h) == /\ DOMAIN h = Cells
             /\ \A c \in Cells : \/ h[c] \in Ownerless
                                \/ \E k \in Kinds \ Pointerless : h[c] \in [kind : {k}, data : Data(k)]

\* A payload is one record's, and of that record's kind, or lost; a reference
\* is a char that points into somebody else's.
Owners(rs, c) == {v \in DOMAIN rs : rs[v].cell = c /\ rs[v].off = 0}
Sound(rs, h) ==
    /\ \A c \in Cells : IF h[c] \in Ownerless THEN Owners(rs, c) = {}
                        ELSE \E v \in DOMAIN rs : Owners(rs, c) = {v}
    /\ \A v \in DOMAIN rs :
         /\ rs[v].kind \in Pointerless => rs[v].cell = 0
         /\ rs[v].off = 0 /\ rs[v].kind \notin Pointerless =>
              rs[v].cell # 0 /\ h[rs[v].cell].kind = rs[v].kind
         /\ rs[v].off > 0 => rs[v].kind = "char" /\ rs[v].reference /\ rs[v].cell # 0

\* A declaration gives a record a payload of its own, or makes it a reference.
ASSUME ProgramsAssumption ==
    \A p \in Programs :
        /\ \A v \in DOMAIN p.recs : p.recs[v] \in Records
        /\ IsHeap(p.heap)
        /\ Sound(p.recs, p.heap)

\* The byte behind a char that points into a string.
ByteAt(rec, h) ==
    IF h[rec.cell].kind # "string" \/ rec.off > Len(h[rec.cell].data) THEN Garbage
    ELSE {h[rec.cell].data[rec.off]}

Reads(rec, h) ==
    IF rec.kind \in Pointerless THEN {<<>>}
    ELSE IF rec.off > 0 THEN {<<b>> : b \in ByteAt(rec, h)}
    ELSE {h[rec.cell].data}

\* An operand: a value, and where a record of the program keeps it.
Operands(rec, h) ==
    {[kind |-> rec.kind, flags |-> rec.flags, data |-> d, cell |-> rec.cell, off |-> rec.off] :
        d \in Reads(rec, h)}
Temporary(v) == [kind |-> v.kind, flags |-> v.flags, data |-> v.data, cell |-> 0, off |-> 0]
-----------------------------------------------------------------------------
(* What not_assign_set_value does for a kind on the left and a kind on the *)
(* right: what it makes of a typed left record, and what becomes of the    *)
(* payload the left record had.                                            *)
Plan(typed, old) == [typed |-> typed, old |-> old, flags |-> "copied"]
InPlace       == Plan("ignored", "overwritten")
Ignoring(old) == Plan("ignored", old)
Refusing(old) == Plan("refused", old)
Marking(old)  == Plan("marked_undefined", old)
Checking(old) == Plan("checked", old)

\* INT on the left
IntFromScalarUntyped(r) == IF r \in {"int", "char"} THEN InPlace ELSE Ignoring("realloc")   \* mutant
IntFromScalar(r) == IF r \in {"int", "char"} THEN InPlace ELSE Refusing("realloc")
IntFromContainer(r) == Refusing("freed")
IntFromRest(r) ==
    CASE r = "undefined" -> Marking("freed")
      [] r = "nan"       -> Plan("marked_nan", "freed")
      [] OTHER           -> Refusing("freed")
\* FLOAT
FloatFromScalar(r) == IF r = "string" THEN Refusing("realloc") ELSE InPlace
FloatFromContainer(r) == Refusing("freed")
FloatFromRest(r) ==
    CASE r = "null"      -> Plan("only_marked_null", "kept")
      [] r = "undefined" -> Marking("freed")
      [] r = "nan"       -> Plan("marked_nan", "freed")
      [] OTHER           -> Refusing("freed")
\* CHAR
CharFromScalar(r) == IF r = "char" THEN InPlace ELSE Refusing("freed_if_owned")
CharFromContainer(r) ==
    IF r = "tuple" THEN Plan("refused_or_reference", "freed") ELSE Refusing("freed_if_owned")
CharFromRest(r) == IF r = "undefined" THEN Marking("freed_if_owned") ELSE Refusing("freed_if_owned")
\* STRING
StringFromScalar(r) == IF r = "string" THEN Ignoring("realloc") ELSE Refusing("realloc")
StringFromContainer(r) == Refusing("freed")
StringFromRest(r) ==
    CASE r = "undefined"           -> Marking("freed")
      [] r \in {"proc", "builtin"} -> Refusing("freed_if_owned")
      [] OTHER                     -> Refusing("freed")
\* OBJECT
ObjectFromScalar(r) == Refusing("destroyed")
ObjectFromContainer(r) == IF r = "object" THEN Checking("destroyed") ELSE Refusing("destroyed")
ObjectFromRest(r) ==
    CASE r = "undefined"           -> Marking("destroyed")
      [] r \in {"proc", "builtin"} -> [Refusing("destroyed") EXCEPT !.flags = "kept"]
      [] OTHER                     -> Refusing("destroyed")
\* TUPLE
TupleFromScalar(r) == Refusing("destroyed")
TupleFromContainer(r) == IF r = "tuple" THEN Checking("destroyed") ELSE Refusing("destroyed")
TupleFromRest(r) == IF r = "undefined" THEN Marking("destroyed") ELSE Refusing("destroyed")
\* TYPE
TypeFromScalar(r) == Refusing("destroyed")
TypeFromContainer(r) == Refusing("destroyed")
TypeFromRest(r) == IF r = "undefined" THEN Marking("destroyed") ELSE Refusing("destroyed")
\* STRUCT
StructFromScalar(r) == Refusing("destroyed")
StructFromContainer(r) == IF r = "struct" THEN Checking("destroyed") ELSE Refusing("destroyed")
StructFromRest(r) ==
    CASE r = "null"      -> Plan("marked_null", "destroyed")
      [] r = "undefined" -> Marking("destroyed")
      [] OTHER           -> Refusing("destroyed")
\* NULL, UNDEFINED and NAN have no payload
NullFromScalar(r) == Refusing("none")
NullFromContainer(r) == IF r = "struct" THEN Ignoring("none") ELSE Refusing("none")
NullFromRest(r) ==
    CASE r = "null"      -> Ignoring("none")
      [] r = "undefined" -> Marking("none")
      [] OTHER           -> Refusing("none")
UndefinedFromScalar(r) == Ignoring("none")
UndefinedFromContainer(r) == Ignoring("none")
UndefinedFromRest(r) == Ignoring("none")
NanFromScalar(r) == IF r \in {"int", "float"} THEN Ignoring("none") ELSE Refusing("none")
NanFromContainer(r) == Refusing("none")
NanFromRest(r) ==
    CASE r = "nan"       -> Ignoring("none")
      [] r = "undefined" -> Marking("none")
      [] OTHER           -> Refusing("none")
\* PROC and BUILTIN
ProcFromScalar(r) == Refusing("destroyed")
ProcFromContainer(r) == Refusing("destroyed")
ProcFromRest(r) ==
    CASE r = "proc"      -> Ignoring("destroyed")
      [] r = "undefined" -> Marking("destroyed")
      [] OTHER           -> Refusing("destroyed")
BuiltinFromScalar(r) == Refusing("destroyed")
BuiltinFromContainer(r) == Refusing("destroyed")
BuiltinFromRest(r) ==
    CASE r = "builtin"   -> Ignoring("destroyed")
      [] r = "undefined" -> Marking("destroyed")
      [] OTHER           -> Refusing("destroyed")

Row(r, FromScalar(_), FromContainer(_), FromRest(_)) ==
    CASE r \in Numbers \union {"string"}                 -> FromScalar(r)
      [] r \in {"object", "tuple", "type", "struct"}     -> FromContainer(r)
      [] OTHER                                           -> FromRest(r)

PlanFor(l, r) ==
    CASE l = "int"       -> Row(r, IntFromScalar, IntFromContainer, IntFromRest)
      [] l = "float"     -> Row(r, FloatFromScalar, FloatFromContainer, FloatFromRest)
      [] l = "char"      -> Row(r, CharFromScalar, CharFromContainer, CharFromRest)
      [] l = "string"    -> Row(r, StringFromScalar, StringFromContainer, StringFromRest)
      [] l = "object"    -> Row(r, ObjectFromScalar, ObjectFromContainer, ObjectFromRest)
      [] l = "tuple"     -> Row(r, TupleFromScalar, TupleFromContainer, TupleFromRest)
      [] l = "type"      -> Row(r, TypeFromScalar, TypeFromContainer, TypeFromRest)
      [] l = "struct"    -> Row(r, StructFromScalar, StructFromContainer, StructFromRest)
      [] l = "null"      -> Row(r, NullFromScalar, NullFromContainer, NullFromRest)
      [] l = "undefined" -> Row(r, UndefinedFromScalar, UndefinedFromContainer, UndefinedFromRest)
      [] l = "nan"       -> Row(r, NanFromScalar, NanFromContainer, NanFromRest)
      [] l = "proc"      -> Row(r, ProcFromScalar, ProcFromContainer, ProcFromRest)
      [] l = "builtin"   -> Row(r, BuiltinFromScalar, BuiltinFromContainer, BuiltinFromRest)

\* not_execute_value_check_by_value, for containers of integers: typed tuples
\* keep their length, objects their keys, structs their class.
SameShape(kind, old, new) ==
    CASE kind = "tuple"  -> Len(old) = Len(new)
      [] kind = "object" -> Keys(old) = Keys(new) /\ Len(old) = Len(new)
      [] OTHER           -> old = new
-----------------------------------------------------------------------------
(* Carrying a plan out.  An outcome is whether the assignment succeeded,   *)
(* and the left record, the heap and the fate of the program after it.     *)
Refused(rec, h) == [ok |-> FALSE, rec |-> rec, heap |-> h, fate |-> "runs"]
Done(rec, h)    == [ok |-> TRUE, rec |-> rec, heap |-> h, fate |-> "runs"]
Stopped(rec, h, how) == [ok |-> FALSE, rec |-> rec, heap |-> h, fate |-> how]

Marked(rec, marks, h) == {Done([rec EXCEPT !.flags = marks], h)}

\* strcpy stops at the NUL.
Copied(r) == IF r.kind = "string" THEN Text(r.data) ELSE r.data

\* An assignment into the payload of the left record, or, for a reference,
\* into the buffer of the string it was taken from.
Overwrite(left, r, h) ==
    LET data == IF left.kind = "float" THEN <<Halves(r)>> ELSE Copied(r)
        rec  == [left EXCEPT !.flags = r.flags]
        cell == h[left.cell]
    IN  IF left.off = 0 THEN {Done(rec, [h EXCEPT ![left.cell].data = data])}
        ELSE IF cell.kind = "string" /\ left.off <= Len(cell.data)
        THEN {Done(rec, [h EXCEPT ![left.cell].data[left.off] = data[1]])}
        ELSE {Stopped(left, h, "corrupted")}

\* The left record's payload is reallocated before the right value is read:
\* a right value in that payload survives only where the block stays.
ReadLate(left, r, moved) ==
    IF r.cell # left.cell \/ (~moved /\ r.off <= 1) THEN {Copied(r)}
    ELSE {<<g>> : g \in Garbage} \union (IF r.kind = "string" THEN {<<>>} ELSE {})

Reallocate(left, r, h) ==
    LET rec(c) == [left EXCEPT !.kind = r.kind, !.cell = c, !.off = 0, !.flags = r.flags]
    IN  {Done(rec(left.cell), [h EXCEPT ![left.cell] = Cell(r.kind, d)]) :
            d \in ReadLate(left, r, FALSE)}
        \union UNION {{Done(rec(c), [h EXCEPT ![left.cell] = Free, ![c] = Cell(r.kind, d)]) :
                          d \in ReadLate(left, r, TRUE)} : c \in Fresh(h)}

ReleaseNothing(left, old, h) ==   \* mutant
    IF old \in {"none", "freed_if_owned"} THEN h ELSE [h EXCEPT ![left.cell] = Free]

\* With reference set nothing is freed, whether the payload is the string's or
\* by now the record's own: nothing ever resets the flag.
Release(left, old, h) ==
    IF old = "none" \/ (old = "freed_if_owned" /\ left.reference) THEN h
    ELSE [h EXCEPT ![left.cell] = Free]

\* The copy of the right value is made before the old payload is released.
Replace(left, r, plan, h) ==
    LET flags  == IF plan.flags = "kept" THEN left.flags ELSE r.flags
        rec(c) == [left EXCEPT !.kind = r.kind, !.cell = c, !.off = 0, !.flags = flags]
    IN  IF r.kind \in Pointerless THEN {Done(rec(0), Release(left, plan.old, h))}
        ELSE {Done(rec(c), [Release(left, plan.old, h) EXCEPT ![c] = Cell(r.kind, Copied(r))]) :
                 c \in Fresh(h)}

Store(left, r, plan, h) ==
    CASE plan.old = "overwritten" -> Overwrite(left, r, h)
      [] plan.old = "realloc"     -> Reallocate(left, r, h)
      [] OTHER                    -> Replace(left, r, plan, h)

SetValue(left, r, h) ==
    LET plan == PlanFor(left.kind, r.kind)
        rule == plan.typed
    IN  IF left.readonly THEN {Refused(left, h)} ELSE
        CASE rule = "only_marked_null" -> Marked(left, left.flags \union {"null"}, h)
          [] rule = "refused_or_reference" /\ (left.typed \/ left.reference) -> {Refused(left, h)}
          [] rule = "refused" /\ left.typed -> {Refused(left, h)}
          [] rule = "checked" /\ left.typed /\ ~SameShape(left.kind, h[left.cell].data, r.data) ->
                {Refused(left, h)}
          [] rule = "marked_undefined" /\ left.typed -> Marked(left, r.flags \union {"undefined"}, h)
          [] rule = "marked_nan" /\ left.typed -> Marked(left, left.flags \union {"nan"}, h)
          [] rule = "marked_null" /\ left.typed -> Marked(left, left.flags \union {"null"}, h)
          [] OTHER -> Store(left, r, plan, h)
-----------------------------------------------------------------------------
(* Elements: base[i] of a string is a char record that points into it, and *)
(* of a tuple or an object the record of the element, which has no flag of *)
(* base's.                                                                 *)
CharAt(rec, position) ==
    [kind |-> "char", cell |-> rec.cell, off |-> position + 1, flags |-> {},
     typed |-> FALSE, readonly |-> FALSE, reference |-> TRUE]

LengthOf(rec, h) == IF rec.kind = "string" THEN Len(Text(h[rec.cell].data)) ELSE Len(h[rec.cell].data)

\* Positions that base[i] may be at, for every i that is in range.
Positions(rec, h) ==
    {p.data[1] : p \in {q \in UNION {At(LengthOf(rec, h), i) : i \in Indexes} : q.kind = "positions"}}

\* Where the data of a container has an element that base[i] or base[key]
\* may give: of an object the first with that key, for every key it has.
Slots(rec, h) ==
    LET data == h[rec.cell].data
    IN  CASE rec.kind = "tuple"  -> {p + 1 : p \in Positions(rec, h)}
          [] rec.kind = "object" -> {i + 1 : i \in {j \in 1..Len(data) - 1 :
                                        j % 2 = 1 /\ \A k \in 1..j - 1 : k % 2 = 1 => data[k] # data[j]}}
          [] OTHER               -> {}

Elements(rec, h) ==
    IF rec.kind = "string" THEN UNION {Operands(CharAt(rec, p), h) : p \in Positions(rec, h)}
    ELSE {Temporary(MakeInt(h[rec.cell].data[s])) : s \in Slots(rec, h)}
-----------------------------------------------------------------------------
Names     == DOMAIN recs
Variables == UNION {Operands(recs[v], heap) : v \in Names}
Constants == {Temporary(l) : l \in Literals}
Rights    == Variables \union Constants \union UNION {Elements(recs[v], heap) : v \in Names}

\* The heap after an outcome: lost is what the left record had, when it has
\* reference set and has dropped that without freeing it.
After(left, o) ==
    LET dropped(c) == /\ left.reference /\ left.off = 0
                      /\ c = left.cell /\ c # o.rec.cell /\ o.heap[c] # Free
    IN  [c \in Cells |-> IF dropped(c) THEN Lost ELSE o.heap[c]]

Becomes(v, outcomes) ==
    \E o \in outcomes :
        /\ recs' = [recs EXCEPT ![v] = o.rec]
        /\ heap' = After(recs[v], o)
        /\ fate' = o.fate

\* The program goes on with the value, or ends in the way the outcome says.
\* An exception leaves everything as it was.
Yields(v, outcome) ==
    CASE outcome = Raises -> UNCHANGED vars
      [] outcome = Aborts -> fate' = "aborted" /\ UNCHANGED <<recs, heap>>
      [] outcome = Hangs  -> fate' = "hung" /\ UNCHANGED <<recs, heap>>
      [] OTHER -> Explored(outcome) /\ Becomes(v, SetValue(recs[v], Temporary(outcome), heap))

\* v = right
Assign(v) == \E r \in Rights : Becomes(v, SetValue(recs[v], r, heap))

\* v op= right computes a record of its own and assigns that.  When the
\* assignment fails that record is never released.
Compound(v, Op(_, _)) ==
    \E outcome \in UNION {Op(l, r) : l \in Operands(recs[v], heap), r \in Rights} : Yields(v, outcome)
AddAssign(v) == Compound(v, Plus)
SubAssign(v) == Compound(v, Minus)
MulAssign(v) == Compound(v, Times)
DivAssign(v) == Compound(v, Plus)   \* not_addative_plus, at assign.c:4363
EpiAssign(v) == Compound(v, Quotient)
ModAssign(v) == Compound(v, Modulo)
PowAssign(v) == Compound(v, Power)
ShlAssign(v) == Compound(v, ShiftLeft)
ShrAssign(v) == Compound(v, ShiftRight)
AndAssign(v) == Compound(v, BitAnd)
OrAssign(v)  == Compound(v, BitOr)

\* v = a op b, v = op a, and the expressions alone, whose value is released:
\* what stops the program stops it before any assignment.
BinaryAssign ==
    \E outcome \in UNION {Binary(op, l, r) : op \in Operators, l, r \in Variables}, v \in Names :
        Yields(v, outcome)
UnaryAssign ==
    \E outcome \in UNION {Unary(op, r) : op \in UnaryOperators, r \in Variables}, v \in Names :
        Yields(v, outcome)

\* v = a && b and v = a || b assign from the very record of an operand.
LogicalAssign(v) ==
    \E l, r \in Variables : \E chosen \in {IF LandTakesLeft(l) THEN l ELSE r,
                                           IF LorTakesLeft(l) THEN l ELSE r} :
        Becomes(v, SetValue(recs[v], chosen, heap))

\* v = c ? a : b goes on to one branch only.
ConditionalAssign(v) ==
    \E c, l, r \in Variables : Becomes(v, SetValue(recs[v], IF Truthy(c) THEN l ELSE r, heap))

\* s[i] = right.  The char record is destroyed afterwards (not_record_destroy):
\* a payload of its own, which it got for anything but a char, is lost if it is
\* a number's or a string's, as reference is set, and the string is as it was.
CharAssign(s) ==
    /\ recs[s].kind = "string"
    /\ \E p \in Positions(recs[s], heap), r \in Rights :
         \E o \in SetValue(CharAt(recs[s], p), r, heap) :
            LET left == IF o.rec.kind \in Numbers \union {"string"} THEN Lost ELSE Free
            IN  /\ heap' = [c \in Cells |-> IF c = o.rec.cell /\ o.rec.off = 0 THEN left ELSE o.heap[c]]
                /\ fate' = o.fate
                /\ UNCHANGED recs

\* t[i] = right and o[key] = right write the element's own INT record, also of
\* a readonly container.  Not explored: right values that would make another
\* kind of it, and integers that are not in Stored.
ElementAssign(b) ==
    \E s \in Slots(recs[b], heap), r \in Rights :
        /\ PlanFor("int", r.kind) = InPlace /\ r.flags = {} /\ r.data[1] \in Stored
        /\ heap' = [heap EXCEPT ![recs[b].cell].data[s] = r.data[1]]
        /\ UNCHANGED <<recs, fate>>

\* v = t[a, b] and v = t[a, b, c] take records of t into a new tuple.
SliceAssign(v) ==
    \E t \in Variables : \E a, b \in Indexes :
        /\ t.kind = "tuple"
        /\ \E outcome \in SliceTo(Len(t.data), a, b)
                   \union UNION {Slice(Len(t.data), a, b, c) : c \in Indexes} :
              Yields(v, IF outcome.kind = "positions"
                        THEN Value("tuple", [i \in DOMAIN outcome.data |-> t.data[outcome.data[i] + 1]])
                        ELSE outcome)

\* base[i] beyond the end raises; before the start of an empty base it hangs.
IndexStatement ==
    \E v \in Names, i \in Indexes :
        /\ recs[v].kind \in {"string", "tuple"}
        /\ Hangs \in At(LengthOf(recs[v], heap), i)
        /\ fate' = "hung"
        /\ UNCHANGED <<recs, heap>>

Step(v) ==
    \/ Assign(v) \/ AddAssign(v) \/ SubAssign(v) \/ MulAssign(v) \/ DivAssign(v) \/ EpiAssign(v)
    \/ ModAssign(v) \/ PowAssign(v) \/ ShlAssign(v) \/ ShrAssign(v) \/ AndAssign(v) \/ OrAssign(v)
    \/ LogicalAssign(v) \/ ConditionalAssign(v) \/ CharAssign(v) \/ ElementAssign(v)
    \/ SliceAssign(v)

Init ==
    \E p \in Programs : recs = p.recs /\ heap = p.heap /\ fate = "runs"

Next ==
    /\ fate = "runs"
    /\ (\E v \in Names : Step(v)) \/ BinaryAssign \/ UnaryAssign \/ IndexStatement

Spec == Init /\ [][Next]_vars
-----------------------------------------------------------------------------
(* The records and cells have their types; a char and a string hold bytes. *)
TypeOK ==
    /\ \A v \in Names : recs[v] \in Records
    /\ IsHeap(heap)
    /\ fate \in {"runs", "aborted", "hung", "corrupted"}

(* Whatever is assigned to whatever, each payload belongs to one record    *)
(* and is of that record's kind, nothing that is freed is pointed to but   *)
(* by a reference char, and a payload that is no record's is freed         *)
(* (not_assign_set_value has 169 ways of handing a payload over).  It is   *)
(* lost instead, allocated and no record's for good, only if the record    *)
(* that had it has reference set: the code asks for that flag and not for  *)
(* whose payload it is (assign.c:588, record.c:1752), so a reference that  *)
(* came to own its payload leaks it, and s[i] = 65 leaks the 65.           *)
PayloadsSound == Sound(recs, heap)

\* What a readonly variable keeps of its payload.
SameOutside(old, new) ==
    \/ new = old
    \/ old.kind = "string" /\ new.kind = "string" /\ Len(new.data) = Len(old.data)
    \/ /\ old.kind \in {"tuple", "object"} /\ new.kind = old.kind
       /\ SameShape(old.kind, old.data, new.data)

(* A typed variable keeps its kind, and a typed container its shape,       *)
(* through every assignment, marks included; a readonly variable keeps its *)
(* record and its payload.  What it does not keep is what is inside: the   *)
(* bytes of a string and the elements of a tuple or an object, which       *)
(* s[i] = c, t[i] = x and o[key] = x change, since not_assign_set_value    *)
(* looks at the flags of the record that base[i] gave and only base has    *)
(* them (array.c:218, 563).  The length of a string or a tuple and the     *)
(* keys of an object stay.  That the elements stay integers is a bound of  *)
(* this model, for a typed container as well.  A typed variable without a  *)
(* payload is left out: the declaration's type is no part of the record,   *)
(* which takes a struct for null.                                          *)
TypedStays ==
    [][\A v \in Names :
        /\ recs[v].typed /\ recs[v].kind \notin Pointerless =>
             /\ recs'[v].kind = recs[v].kind /\ recs'[v].typed
             /\ recs[v].kind \in {"object", "tuple", "struct"} =>
                  SameShape(recs[v].kind, heap[recs[v].cell].data, heap'[recs'[v].cell].data)
        /\ recs[v].readonly =>
             /\ recs'[v] = recs[v]
             /\ recs[v].cell # 0 /\ recs[v].off = 0 =>
                  SameOutside(heap[recs[v].cell], heap'[recs[v].cell])]_vars

Holds(outcomes) == outcomes = {MakeInt(1)}

(* For the values the variables hold, the six comparisons are those of one *)
(* order on numbers and on strings.  The exception, which holds by the     *)
(* code: a char on the left that equals an int or float on the right is    *)
(* below and above it, and neither at most nor at least (relational.c:104, *)
(* 327, 557 and 780).  No tuple is below and above another.                *)
OrderConsistent ==
    \A l, r \in {x \in Variables : Present(x)} :
        LET lt == Holds(Lt(l, r))  le == Holds(Le(l, r))  eq == Holds(Eq(l, r))
            gt == Holds(Gt(l, r))  ge == Holds(Ge(l, r))
            across == l.kind = "char" /\ r.kind # "char"
        IN  /\ (l.kind \in Numbers /\ r.kind \in Numbers) \/ (l.kind = "string" /\ r.kind = "string") =>
                 IF across /\ eq THEN lt /\ gt /\ ~le /\ ~ge
                 ELSE /\ Cardinality({i \in 1..3 : <<lt, eq, gt>>[i]}) = 1
                      /\ le = (lt \/ eq) /\ ge = (gt \/ eq)
                      /\ lt = Holds(Gt(r, l)) \/ (r.kind = "char" /\ eq)
            /\ l.kind = "tuple" /\ r.kind = "tuple" => ~(lt /\ gt)
            /\ l.kind # "struct" => (eq # Holds(Neq(l, r)))
=============================================================================
