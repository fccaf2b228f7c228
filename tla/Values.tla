------------------------------- MODULE Values -------------------------------
(***************************************************************************)
(* What the operators of the language compute, from the kinds, the flags   *)
(* and the data of their operands.                                         *)
(*                                                                         *)
(* A value is [kind, data, flags]: data is a sequence of integers, flags   *)
(* the subset of {"null", "undefined", "nan"} set on the record.  An int,  *)
(* a char, and the identity of a type, struct, proc or builtin are         *)
(* sequences of one number, a float one number counting halves, a string   *)
(* its bytes up to and beyond the NUL, a tuple its elements and an object  *)
(* key, element, key, element; the elements are INT records.               *)
(*                                                                         *)
(* An operator is the set of its outcomes.  A result that is no multiple   *)
(* of a half, or that Explored excludes, is left out: that is a bound on   *)
(* what is explored, not behaviour.                                        *)
(***************************************************************************)
EXTENDS Integers, Sequences, FiniteSetsExt

CONSTANTS
    MaxInt,      \* numbers up to this size are explored, at most 255
    Bytes,       \* the chars and the bytes of strings that are explored
    MaxLength,   \* strings up to this length
    MaxExponent  \* exponents and shift amounts up to this size

ASSUME ValuesAssumption ==
    /\ MaxInt \in 1..255
    /\ Bytes \subseteq -128..127
    /\ MaxLength \in Nat
    /\ MaxExponent \in 0..8

Numbers     == {"int", "float", "char"}
Containers  == {"object", "tuple", "type", "struct", "proc", "builtin"}
Pointerless == {"null", "undefined", "nan"}
Kinds       == Numbers \union {"string"} \union Containers \union Pointerless

\* What the data of a value is: one number, bytes, or any numbers.
Data(kind) ==
    {s \in Seq(Int) : /\ kind \in Numbers => Len(s) = 1
                      /\ kind \in {"char", "string"} => \A i \in 1..Len(s) : s[i] \in -128..127}

Value(kind, data) == [kind |-> kind, data |-> data, flags |-> {}]

MakeInt(n)    == Value("int", <<n>>)
MakeFloat(h)  == Value("float", <<h>>)
MakeString(s)    == Value("string", s)
Nan       == Value("nan", <<>>)
Undefined == Value("undefined", <<>>)

\* A C char is signed; not_record_make_char gets the low byte.
Signed8(n)      == ((n + 128) % 256) - 128
MakeWideChar(n) == Value("char", <<n>>)   \* mutant
MakeChar(n)     == Value("char", <<Signed8(n)>>)

\* The outcomes that are no value: an exception, an abort inside GMP or a
\* fault, and a loop that never ends.
Raises == Value("raises", <<>>)
Aborts == Value("aborts", <<>>)
Hangs  == Value("hangs", <<>>)

Present(v)  == v.flags = {}
Zero(v)     == v.kind \in Numbers /\ v.data[1] = 0
Truth(b)    == {MakeInt(IF b THEN 1 ELSE 0)}
Abs(n)      == IF n < 0 THEN -n ELSE n
Truncate(h) == IF h < 0 THEN -((-h) \div 2) ELSE h \div 2
Halves(v)   == IF v.kind = "float" THEN v.data[1] ELSE 2 * v.data[1]
Whole(v)    == IF v.kind = "float" THEN Truncate(v.data[1]) ELSE v.data[1]

\* The bytes of a string that the C library sees.
Text(data) == SubSeq(data, 1, Cardinality({i \in DOMAIN data : \A j \in 1..i : data[j] # 0}))

Explored(v) ==
    CASE v.kind = "int"    -> v.data[1] \in -MaxInt..MaxInt
      [] v.kind = "float"  -> v.data[1] \in -2 * MaxInt..2 * MaxInt
      [] v.kind = "char"   -> Signed8(v.data[1]) \in Bytes
      [] v.kind = "string" -> Len(v.data) <= MaxLength /\ v.data \in Seq(Bytes)
      [] OTHER             -> TRUE

\* not_call_operator_by_one_arg runs a method of the program, which may
\* return or raise anything; these stand for all of it.
Overloaded == {Raises, MakeInt(1), Undefined}
-----------------------------------------------------------------------------
(* Text of a record: numbers of one digit are spelled, anything longer is  *)
(* a text that no bound explores.                                          *)
TextOf(v) ==
    IF Present(v) /\ v.kind \in {"char", "string"} THEN Text(v.data)
    ELSE IF Present(v) /\ v.kind = "int" /\ v.data[1] \in 0..9 THEN <<48 + v.data[1]>>
    ELSE IF Present(v) /\ v.kind = "int" /\ v.data[1] \in -9..-1 THEN <<45, 48 - v.data[1]>>
    ELSE [i \in 1..MaxLength + 1 |-> 1]
-----------------------------------------------------------------------------
(* Arithmetic.  OnInts gets integers, a float on the left cut down to one; *)
(* OnFloats gets halves.                                                   *)
Arithmetic(l, r, OnInts(_, _), OnFloats(_, _)) ==
    IF Present(l) /\ l.kind = "struct" THEN Overloaded
    ELSE IF ~(Present(l) /\ l.kind \in Numbers /\ Present(r) /\ r.kind \in Numbers) THEN {Nan}
    ELSE IF r.kind = "float" \/ (l.kind = "float" /\ r.kind = "char")
    THEN OnFloats(Halves(l), Halves(r))
    ELSE OnInts(Whole(l), Whole(r))

\* n/d halves, when that is a whole number of them
Exactly(n, d) ==
    LET s == IF d < 0 THEN -1 ELSE 1
    IN  IF (s * n) % (s * d) = 0 THEN {MakeFloat((s * n) \div (s * d))} ELSE {}

FloorDiv(a, b) == IF b < 0 THEN (-a) \div (-b) ELSE a \div b

\* A char plus or minus an int or a char stays a char up to 128.
SumOf(l, n) == IF l.kind = "char" /\ n \in -127..128 THEN MakeChar(n) ELSE MakeInt(n)

Plus(l, r) ==
    LET OnInts(a, b)   == {SumOf(l, a + b)}
        OnFloats(a, b) == {MakeFloat(a + b)}
    IN  IF Present(l) /\ l.kind = "string" THEN {MakeString(Text(l.data) \o TextOf(r))}
        ELSE Arithmetic(l, r, OnInts, OnFloats)

Minus(l, r) ==
    LET OnInts(a, b)   == {SumOf(l, a - b)}
        OnFloats(a, b) == {MakeFloat(IF l.kind = "int" THEN a + b ELSE a - b)}
    IN  Arithmetic(l, r, OnInts, OnFloats)

\* Copies of s until they are n bytes long or longer.
Repeat(s, n) ==
    IF n <= 0 THEN {MakeString(<<>>)}
    ELSE IF s = <<>> THEN {Hangs}
    ELSE LET copies == (n + Len(s) - 1) \div Len(s)
         IN  {MakeString([i \in 1..copies * Len(s) |-> s[((i - 1) % Len(s)) + 1]])}

Times(l, r) ==
    LET OnInts(a, b)   == {MakeInt(a * b)}
        OnFloats(a, b) == Exactly(a * b, 2)
    IN  IF Present(l) /\ l.kind = "string"
        THEN IF Present(r) /\ r.kind = "int" THEN Repeat(Text(l.data), r.data[1]) ELSE {Nan}
        ELSE Arithmetic(l, r, OnInts, OnFloats)

Divide(l, r) ==
    LET OnInts(a, b)   == IF b = 0 THEN {Raises} ELSE {MakeInt(FloorDiv(a, b))}
        OnFloats(a, b) == IF b = 0 THEN {Raises} ELSE Exactly(2 * a, b)
    IN  Arithmetic(l, r, OnInts, OnFloats)

\* mpz_mod is never negative; mpf_mod takes the quotient's floor.
Modulo(l, r) ==
    LET OnInts(a, b)   == IF b = 0 THEN {Aborts} ELSE {MakeInt(a % Abs(b))}
        OnFloats(a, b) == IF b = 0 THEN {Aborts} ELSE {MakeFloat(a - FloorDiv(a, b) * b)}
    IN  Arithmetic(l, r, OnInts, OnFloats)

\* mpz_fdiv_q takes the quotient's floor; mpf_fdiv_q cuts it toward zero.
Quotient(l, r) ==
    LET OnInts(a, b)   == IF b = 0 THEN {Aborts} ELSE {MakeInt(FloorDiv(a, b))}
        OnFloats(a, b) ==
            IF b = 0 THEN {Aborts}
            ELSE LET q == Abs(a) \div Abs(b) IN {MakeFloat(IF a * b < 0 THEN -2 * q ELSE 2 * q)}
    IN  Arithmetic(l, r, OnInts, OnFloats)

\* base to the power of a whole exponent, in halves: zero to the power of
\* zero is 1, and the infinity that zero makes of a negative exponent is
\* turned into 0 by mpfr_get_q.
PowerOf(base, exponent) ==
    IF exponent = 0 THEN {MakeFloat(2)}
    ELSE IF base = 0 THEN {MakeFloat(0)}
    ELSE IF Abs(base) > 2 * MaxInt \/ Abs(exponent) > MaxExponent THEN {}
    ELSE IF exponent > 0 THEN Exactly(2 * base ^ exponent, 2 ^ exponent)
    ELSE Exactly(2 * 2 ^ (-exponent), base ^ (-exponent))

\* not_power_pow makes an int of a result that mpf_is_int, unless the left
\* operand is a float.  A root is left out, but for the NaN that a negative
\* base gives: that becomes 0 as well.
Power(l, r) ==
    LET Made(x)        == IF l.kind # "float" /\ x.data[1] % 2 = 0
                          THEN MakeInt(x.data[1] \div 2) ELSE x
        OnInts(a, b)   == {Made(x) : x \in PowerOf(2 * a, b)}
        OnFloats(a, b) == IF b % 2 = 0 THEN {Made(x) : x \in PowerOf(a, b \div 2)}
                          ELSE IF a < 0 THEN {Made(MakeFloat(0))}
                          ELSE {}
    IN  Arithmetic(l, r, OnInts, OnFloats)
-----------------------------------------------------------------------------
(* Shifts: both operands cut down to integers, a negative amount by its    *)
(* size.                                                                   *)
Shift(l, r, By(_, _)) ==
    IF ~Present(l) \/ (l.kind \in Numbers /\ ~Present(r)) THEN {Nan}
    ELSE IF l.kind = "struct" THEN Overloaded
    ELSE IF l.kind \in Numbers /\ r.kind \in Numbers THEN By(Whole(l), Whole(r))
    ELSE {Undefined}

\* mpz_sizeinbase(n, 2)
BitLength(n) == CHOOSE k \in 1..16 : (k = 1 \/ Abs(n) >= 2 ^ (k - 1)) /\ Abs(n) < 2 ^ k

ShiftRight(l, r) ==
    LET By(n, amount) == IF amount >= BitLength(n) THEN {MakeInt(0)}
                         ELSE IF Abs(amount) <= MaxExponent THEN {MakeInt(n \div (2 ^ Abs(amount)))}
                         ELSE {}
    IN  Shift(l, r, By)

ShiftLeft(l, r) ==
    LET By(n, amount) == IF Abs(amount) <= MaxExponent THEN {MakeInt(n * 2 ^ Abs(amount))} ELSE {}
    IN  Shift(l, r, By)
-----------------------------------------------------------------------------
(* Comparisons.  R compares numbers, elements, lengths, and what strcmp    *)
(* returns with 0; Across compares a char on the left with an int or float.*)
StrCmp(s, t) ==
    LET differ == {i \in 1..Len(s) + 1 : i > Len(t) \/ i > Len(s) \/ s[i] # t[i]}
        at     == Min(differ)
    IN  IF s = t THEN 0
        ELSE IF at > Len(s) THEN -1
        ELSE IF at > Len(t) THEN 1
        ELSE IF s[at] % 256 < t[at] % 256 THEN -1 ELSE 1

Keys(o)       == {o[i] : i \in {j \in DOMAIN o : j % 2 = 1}}
ElementAt(o, k) == o[Min({i \in DOMAIN o : i % 2 = 1 /\ o[i] = k}) + 1]

\* The pairs of elements satisfy R, and so do the two lengths.  A tuple that
\* ends early is judged by its length as well.
TuplesRelated(s, t, R(_, _)) ==
    (\A i \in DOMAIN s \intersect DOMAIN t : R(s[i], t[i])) /\ R(Len(s), Len(t))
ObjectsRelated(s, t, R(_, _)) ==
    /\ \A k \in Keys(s) : k \in Keys(t) /\ R(ElementAt(s, k), ElementAt(t, k))
    /\ R(Len(s), Len(t))

Related(l, r, R(_, _), Across(_, _)) ==
    CASE l.kind \in Numbers ->
            /\ Present(r) /\ r.kind \in Numbers
            /\ IF l.kind = "char" /\ r.kind # "char"
               THEN Across(Halves(l), Halves(r)) ELSE R(Halves(l), Halves(r))
      [] l.kind = "string" ->
            Present(r) /\ r.kind = "string" /\ R(StrCmp(Text(l.data), Text(r.data)), 0)
      [] l.kind = "object" -> r.kind = "object" /\ ObjectsRelated(l.data, r.data, R)
      [] l.kind = "tuple"  -> r.kind = "tuple" /\ TuplesRelated(l.data, r.data, R)
      [] OTHER             -> FALSE

Below(a, b)   == a < b
AtMost(a, b)  == a <= b
Above(a, b)   == a > b
AtLeast(a, b) == a >= b
Same(a, b)    == a = b

Strictly(l, r, R(_, _), Across(_, _)) ==
    IF ~Present(l) THEN Truth(FALSE)
    ELSE IF l.kind = "struct" THEN Overloaded
    ELSE Truth(Related(l, r, R, Across))

OrEqual(l, r, R(_, _), Across(_, _)) ==
    IF ~Present(l) THEN Truth(~Present(r) \/ r.kind = "null")
    ELSE IF l.kind = "struct" THEN Overloaded
    ELSE IF l.kind \in {"undefined", "nan"} THEN Truth(r.kind = l.kind)
    ELSE Truth(Related(l, r, R, Across))

\* A char on the left compares with an int or a float the other way about
\* as to equality: '<' is <=, '<=' is <, '>' is >=, '>=' is >.
Lt(l, r) == Strictly(l, r, Below, AtMost)
Le(l, r) == OrEqual(l, r, AtMost, Below)
GtForgetsCharInt(l, r) == Strictly(l, r, Above, AtMost)   \* mutant
Gt(l, r) == Strictly(l, r, Above, AtLeast)
Ge(l, r) == OrEqual(l, r, AtLeast, Above)
-----------------------------------------------------------------------------
(* Equality, with nothing equal to zero and every non-number "equal" to    *)
(* every number but zero.                                                  *)
EqualNumber(l, r) ==
    IF ~Present(r) \/ r.kind \in Pointerless THEN Zero(l)
    ELSE IF r.kind \in Numbers THEN Halves(l) = Halves(r)
    ELSE ~Zero(l)

EqualContainer(l, r) ==
    /\ Present(r)
    /\ \/ r.kind \in Numbers /\ ~Zero(r)
       \/ l.kind = "object" /\ r.kind = "object" /\ ObjectsRelated(l.data, r.data, Same)
       \/ l.kind = "tuple" /\ r.kind = "tuple" /\ TuplesRelated(l.data, r.data, Same)

Eq(l, r) ==
    IF ~Present(l) \/ l.kind = "null" THEN Truth(~Present(r) \/ r.kind = "null" \/ Zero(r))
    ELSE IF l.kind \in Numbers THEN Truth(EqualNumber(l, r))
    ELSE IF l.kind = "string"
    THEN Truth(Present(r) /\ r.kind = "string" /\ Text(l.data) = Text(r.data))
    ELSE IF l.kind = "struct" THEN Overloaded
    ELSE IF l.kind \in Containers THEN Truth(EqualContainer(l, r))
    ELSE Truth(r.kind = l.kind \/ Zero(r))

\* '!=' compares the result of '==' with 0.
Neq(l, r) == UNION {IF e = Raises THEN {Raises} ELSE Eq(MakeInt(0), e) : e \in Eq(l, r)}
-----------------------------------------------------------------------------
(* Bits: numbers in two's complement, a float cut down to an integer.      *)
Bit(n, k) == (n \div (2 ^ k)) % 2
Bits(a, b, Op(_, _)) ==
    LET bit(k, weight) == IF Op(Bit(a, k), Bit(b, k)) = 0 THEN 0 ELSE weight
    IN  bit(0, 1) + bit(1, 2) + bit(2, 4) + bit(3, 8) + bit(4, 16) + bit(5, 32)
        + bit(6, 64) + bit(7, 128) + bit(8, -256)

AsInteger(v) == IF v.kind = "float" THEN MakeInt(Truncate(v.data[1])) ELSE Value(v.kind, v.data)

Bitwise2(l, r, Op(_, _), none) ==
    LET numeric == Present(r) /\ r.kind \in Numbers
    IN  IF ~Present(l) THEN {Nan}
        ELSE IF l.kind = "struct" THEN Overloaded
        ELSE IF l.kind \in Numbers /\ ~numeric THEN {AsInteger(l)}
        ELSE IF l.kind = "char" /\ r.kind = "char" THEN {MakeChar(Bits(l.data[1], r.data[1], Op))}
        ELSE IF l.kind \in Numbers THEN {MakeInt(Bits(Whole(l), Whole(r), Op))}
        ELSE IF numeric /\ l.kind \in {"undefined", "nan", "string", "object", "tuple", "type"}
        THEN {AsInteger(r)}
        ELSE {none}

BitOr(l, r)  == Bitwise2(l, r, LAMBDA a, b : IF a + b > 0 THEN 1 ELSE 0, Nan)
BitXor(l, r) == Bitwise2(l, r, LAMBDA a, b : (a + b) % 2, Nan)
BitAnd(l, r) == Bitwise2(l, r, LAMBDA a, b : a * b, MakeInt(0))
-----------------------------------------------------------------------------
(* && and || evaluate both operands and return one of the two records.     *)
EmptyOrZero(v) == Zero(v) \/ (v.kind = "string" /\ Text(v.data) = <<>>)
LandTakesLeft(l) == ~Present(l) \/ EmptyOrZero(l) \/ l.kind \notin Numbers \union {"string"}
LorTakesLeft(l)  == Present(l) /\ ~EmptyOrZero(l) /\ l.kind \in Numbers \union {"string"}

\* What if, while, for and ?: take for true.
Truthy(v) == Present(v) /\ v.kind \notin Pointerless /\ ~Zero(v)
-----------------------------------------------------------------------------
(* Unary operators.                                                        *)
Complement(v) == BitXor(MakeInt(-1), v)
Positive(v)   == Plus(MakeInt(0), v)
Negative(v)   == Minus(MakeInt(0), v)
Not(v)        == Eq(MakeInt(0), v)

\* size_of counts GMP's limbs of eight bytes and the bytes of strings.  It
\* walks a tuple as if it were an object, so that the record it reads of a
\* tuple's node is the next node, or NULL.
LimbBytes(n) == IF n = 0 THEN 0 ELSE 8
SizeOf(v) ==
    CASE v.kind \in {"int", "float"} -> {MakeInt(LimbBytes(v.data[1]))}
      [] v.kind = "string" -> {MakeInt(Len(Text(v.data)))}
      [] v.kind = "object" ->
            {MakeInt(8 * Cardinality({k \in Keys(v.data) : ElementAt(v.data, k) # 0}))}
      [] v.kind = "tuple"  -> IF v.data = <<>> THEN {MakeInt(0)} ELSE {Aborts, MakeInt(0), MakeInt(8)}
      [] v.kind = "struct" -> {Raises, MakeInt(0), MakeInt(8)}
      [] OTHER             -> {MakeInt(0)}
-----------------------------------------------------------------------------
(* The expressions that choose among the operators of one precedence.      *)
Additive(op, l, r) == IF op = "+" THEN Plus(l, r) ELSE Minus(l, r)
Multiplicative(op, l, r) ==
    CASE op = "*"   -> Times(l, r)
      [] op = "/"   -> Divide(l, r)
      [] op = "%"   -> Modulo(l, r)
      [] op = "\\"  -> Quotient(l, r)
Shifting(op, l, r) == IF op = ">>" THEN ShiftRight(l, r) ELSE ShiftLeft(l, r)
Relational(op, l, r) ==
    CASE op = "<"  -> Lt(l, r)
      [] op = "<=" -> Le(l, r)
      [] op = ">"  -> Gt(l, r)
      [] op = ">=" -> Ge(l, r)
Equality(op, l, r) == IF op = "==" THEN Eq(l, r) ELSE Neq(l, r)

Operators == {"+", "-", "*", "/", "%", "\\", "**", ">>", "<<", "<", "<=", ">", ">=",
              "==", "!=", "&", "^", "|"}
Binary(op, l, r) ==
    CASE op \in {"+", "-"}              -> Additive(op, l, r)
      [] op \in {"*", "/", "%", "\\"}   -> Multiplicative(op, l, r)
      [] op = "**"                      -> Power(l, r)
      [] op \in {">>", "<<"}            -> Shifting(op, l, r)
      [] op \in {"<", "<=", ">", ">="}  -> Relational(op, l, r)
      [] op \in {"==", "!="}            -> Equality(op, l, r)
      [] op = "&"                       -> BitAnd(l, r)
      [] op = "^"                       -> BitXor(l, r)
      [] op = "|"                       -> BitOr(l, r)

UnaryOperators == {"~", "+", "-", "!", "sizeof"}
Unary(op, v) ==
    CASE op = "~"      -> Complement(v)
      [] op = "+"      -> Positive(v)
      [] op = "-"      -> Negative(v)
      [] op = "!"      -> Not(v)
      [] op = "sizeof" -> SizeOf(v)
-----------------------------------------------------------------------------
(* base[i] and base[start, stop, step] over a base of the given length:    *)
(* the positions taken, counted from 0.                                    *)
At(length, i) ==
    CASE i >= length -> {Raises}
      [] i < 0 /\ length = 0 -> {Hangs}
      [] OTHER -> {Value("positions", <<i % length>>)}

\* step 0 never leaves the loop; a step away from stop leaves it at once,
\* having taken start.
Walk(start, stop, step) ==
    LET towards == IF start <= stop THEN step > 0 ELSE step < 0
        taken   == IF towards THEN (Abs(stop - start) \div Abs(step)) + 1 ELSE 1
    IN  IF step = 0 THEN {Hangs}
        ELSE {Value("positions", [i \in 1..taken |-> start + (i - 1) * step])}

Slice(length, start, stop, step) ==
    IF start >= length \/ stop >= length THEN {Raises}
    ELSE IF length = 0 THEN {Hangs}
    ELSE Walk(start % length, stop % length, step)

\* With two arguments the step is -1 from a later start, and 1 otherwise.
SliceTo(length, start, stop) ==
    IF start >= length \/ stop >= length \/ length = 0 THEN Slice(length, start, stop, 1)
    ELSE Slice(length, start, stop, IF start % length > stop % length THEN -1 ELSE 1)
=============================================================================
