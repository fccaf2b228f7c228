------------------------------ MODULE MCAssign ------------------------------
(***************************************************************************)
(* Programs that declare two variables, and what they assign.              *)
(***************************************************************************)
EXTENDS Assign, TLC

CONSTANTS c1, c2, c3

MCCells  == {c1, c2, c3}
Symmetry == Permutations(MCCells)

Declared(kind, cell, off) ==
    [kind |-> kind, cell |-> cell, off |-> off, flags |-> {},
     typed |-> FALSE, readonly |-> FALSE, reference |-> FALSE]
Var(kind, cell)      == Declared(kind, cell, 0)
Typed(kind, cell)    == [Var(kind, cell) EXCEPT !.typed = TRUE]
Readonly(kind, cell) == [Var(kind, cell) EXCEPT !.readonly = TRUE]
Reference(cell, off) == [Declared("char", cell, off) EXCEPT !.reference = TRUE]

Program(declared, payloads) ==
    [recs |-> declared,
     heap |-> [c \in Cells |-> CASE c = c1 -> payloads[1]
                                 [] c = c2 /\ Len(payloads) = 2 -> payloads[2]
                                 [] OTHER -> Free]]

Ab    == <<49, -128>>
Pair  == <<1, 2>>
Point == <<1, 2, 3, 0>>

MCPrograms == {
    \* a string and a reference that points into it
    Program("s" :> Var("string", c1) @@ "c" :> Reference(c1, 1), <<Cell("string", Ab)>>),
    \* typed variables of every kind, one at a time, beside an untyped one
    Program("x" :> Var("float", c1) @@ "t" :> Typed("int", c2), <<Cell("float", <<1>>), Cell("int", <<1>>)>>),
    Program("x" :> Var("tuple", c1) @@ "t" :> Typed("float", c2), <<Cell("tuple", Pair), Cell("float", <<1>>)>>),
    Program("x" :> Var("struct", c1) @@ "t" :> Typed("char", c2), <<Cell("struct", <<1>>), Cell("char", <<49>>)>>),
    Program("x" :> Var("proc", c1) @@ "t" :> Typed("string", c2), <<Cell("proc", <<1>>), Cell("string", Ab)>>),
    Program("x" :> Var("type", c1) @@ "t" :> Typed("tuple", c2), <<Cell("type", <<1>>), Cell("tuple", Pair)>>),
    Program("x" :> Var("builtin", c1) @@ "t" :> Typed("object", c2), <<Cell("builtin", <<1>>), Cell("object", Point)>>),
    Program("x" :> Var("null", 0) @@ "t" :> Typed("struct", c1), <<Cell("struct", <<1>>)>>),
    \* readonly variables
    Program("x" :> Var("nan", 0) @@ "r" :> Readonly("string", c1), <<Cell("string", Ab)>>),
    Program("x" :> Var("undefined", 0) @@ "r" :> Readonly("tuple", c1), <<Cell("tuple", Pair)>>),
    Program("x" :> Var("undefined", 0) @@ "r" :> Readonly("object", c1), <<Cell("object", Point)>>) }

MCBytes   == {-128, 0, 49}
MCIndexes == {-1, 0, 2}

\* Floats, types and builtins come from the programs.
MCLiterals == {
    MakeInt(1), MakeChar(49), MakeString(<<>>),
    Value("tuple", Pair), Value("object", Point),
    Value("struct", <<1>>), Value("struct", <<2>>), Value("proc", <<1>>),
    Value("null", <<>>), Undefined, Nan }
=============================================================================
