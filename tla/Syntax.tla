------------------------------- MODULE Syntax -------------------------------
(***************************************************************************)
(* The recursive descent parser (parser/syntax/syntax.c).                  *)
(*                                                                         *)
(* Every not_syntax_* function is a rule: the sequence of steps its body   *)
(* takes, named as in the source.  A step looks at the current token       *)
(* only, so the parser's run-time stack is the sequence todo of the steps  *)
(* still to take.  An error return (NOT_PTR_ERROR) drops steps until a     *)
(* caller that goes on after the error; only two do: not_syntax_postfix,   *)
(* which parses "a <" speculatively as the start of generic arguments, and *)
(* not_syntax_package, which forgets to look at the result.                *)
(*                                                                         *)
(* The parser keeps a stack of saved scanner states                        *)
(* (not_syntax_save / _restore / _release), the number of loop bodies and  *)
(* function bodies it is in, and the tree, of which the model keeps the    *)
(* leaves: the position of the token of every leaf, in order.              *)
(***************************************************************************)
EXTENDS Tokens, FiniteSets

CONSTANTS
    Texts    \* what may be parsed: records [first, alphabet, length], the
             \* first units of the source, those that may follow, its bound

\* A unit of source text is a character of an operator or a whole word.
Longer == Operators \ Characters
IdTokens == {"ID", "constructor"}
ASSUME TextAssumption ==
    \A x \in Texts :
        /\ x.first \in Seq(STRING) /\ \A i \in DOMAIN x.first : x.first[i] \notin Longer
        /\ x.alphabet \intersect Longer = {}
        /\ x.length \in Nat

VARIABLES
    text,       \* the member of Texts this source is taken from
    source,     \* the units of the source read so far (scanner->source)
    at,         \* where the current token starts (scanner->token.position)
    cut,        \* not_scanner_gt has cut the current token down to ">"
    todo,       \* the steps still to take
    saved,      \* syntax->states
    fun_depth,  \* syntax->fun_depth
    loop_depth, \* syntax->loop_depth
    leaves,     \* positions of the tokens in the tree
    errors,     \* a syntax error has been reported
    holes,      \* the tree holds an error pointer
    verdict     \* what not_syntax_module returned

vars == <<text, source, at, cut, todo, saved, fun_depth, loop_depth, leaves,
          errors, holes, verdict>>
scan == <<at, cut>>
depths == <<fun_depth, loop_depth>>
-----------------------------------------------------------------------------
(***************************************************************************)
(* The scanner, as the parser sees it.                                     *)
(***************************************************************************)
Ended == source # <<>> /\ source[Len(source)] = "EOF"
Ahead == SubSeq(source, at, Len(source))
Known == Ahead # <<>> /\ (Head(Ahead) \in Characters /\ ~Ended => ~Unfinished(Ahead))

\* The type of the current token, and the units it takes.
Token == IF cut THEN ">"
         ELSE IF Head(Ahead) \in Characters THEN Longest(OperatorsAt(Ahead))
         ELSE Head(Ahead)
SizeAndNext(t) == IF t \in Operators THEN Len(Spelling[t]) + 1 ELSE 2    \* mutant
Size(t) == IF t \in Operators THEN Len(Spelling[t]) ELSE 1
Width(t) == IF t = "EOF" THEN 0 ELSE Size(t)

\* not_scanner_advance
Advance == /\ at' = at + Width(Token)
           /\ cut' = FALSE
-----------------------------------------------------------------------------
(***************************************************************************)
(* The steps.                                                              *)
(***************************************************************************)
Match(ts)             == [op |-> "match", on |-> ts, leaf |-> FALSE]
Leaf(ts)              == [op |-> "match", on |-> ts, leaf |-> TRUE]
Skip                  == [op |-> "next"]
Cut                   == [op |-> "gt"]
Fail                  == [op |-> "fail"]
Rule(r)               == [op |-> "rule", rule |-> r]
Branch(arms, other)   == [op |-> "branch", arms |-> arms, other |-> other]
Repeat(t, steps)      == [op |-> "repeat", on |-> t, steps |-> steps]
Until(t, steps)       == [op |-> "until", on |-> t, steps |-> steps]
WithinAny(d, steps, out) == Branch(<<>>, steps)                     \* mutant
Within(d, steps, out) == [op |-> "within", in |-> d, steps |-> steps, other |-> out]
Enter(d)              == [op |-> "enter", in |-> d]
Leave(d)              == [op |-> "leave", in |-> d]
Save                  == [op |-> "save"]
Release               == [op |-> "release"]
GiveUp(n)             == [op |-> "restore", drop |-> n]
Concepts              == [op |-> "concepts"]
Careless(r)           == [op |-> "careless", rule |-> r]

\* The arms of a branch: for one token, and of two the first that has one.
t :> steps == [x \in {t} |-> steps]
FirstOf(f, g) == [x \in DOMAIN f \union DOMAIN g |-> IF x \in DOMAIN f THEN f[x] ELSE g[x]]
f @@ g == FirstOf(f, g)

Option(t, steps) == Branch(t :> steps, <<>>)
Unless(t, steps) == Branch(t :> <<>>, steps)
Arms(ts, steps) == [t \in ts |-> steps]
ListOf(r) == <<Rule(r), Repeat(",", <<Skip, Rule(r)>>)>>
\* "while (left != NULL) if (token == ...) left = make(left, right(syntax))"
Chain(r, ts) == <<Rule(r), [op |-> "chain", on |-> ts, rule |-> r]>>
\* One operator at most: "if (token == ...) return make(left, right(syntax))"
Pair(r, ts) == <<Rule(r), Branch(Arms(ts, <<Skip, Rule(r)>>), <<>>)>>
-----------------------------------------------------------------------------
(***************************************************************************)
(* Expressions.                                                            *)
(***************************************************************************)
id        == <<Leaf(IdTokens)>>
number    == <<Leaf({"NUMBER"})>>
char      == <<Leaf({"CHAR"})>>
string    == <<Leaf({"STRING"})>>
null      == <<Leaf({"null"})>>
undefined == <<Leaf({"undefined"})>>
nan       == <<Leaf({"nan"})>>
this      == <<Leaf({"this"})>>
kint      == <<Leaf({"int"})>>
kfloat    == <<Leaf({"float"})>>
kchar     == <<Leaf({"char"})>>
kstring   == <<Leaf({"string"})>>

operator ==
    <<Branch("[" :> <<Match({"["}), Leaf({"]"})>>,
             <<Leaf({"+", "-", "*", "/", "\\", "**", "%", "&", "|", "^",
                     "<<", ">>", "<", ">"})>>)>>

tuple == <<Match({"["}), Unless("]", ListOf("expression")), Match({"]"})>>

pair == <<Branch("STRING" :> <<Rule("string")>>, <<Rule("id")>>),
          Option(":", <<Skip, Rule("expression")>>)>>

object == <<Match({"{"}), Unless("}", ListOf("pair")), Match({"}"})>>

parenthesis == <<Match({"("}), Rule("expression"), Match({")"})>>

\* fun name <generics> (parameters) : type -> value, or a body.  Only the body
\* that follows no return type is counted in fun_depth.
lambda_generics == <<Skip, Cut, Option(">", <<Fail>>), Rule("generics"), Cut, Match({">"})>>
lambda_parameters == <<Skip, Unless(")", <<Rule("parameters")>>), Match({")"})>>
lambda_body == <<Enter("fun"), Rule("body"), Leave("fun")>>
lambda_rest(end) ==
    <<Option("<", lambda_generics), Option("(", lambda_parameters),
      Branch(":" :> <<Skip, Rule("postfix"),
                      Branch("->" :> <<Skip, Rule("expression")>>, <<Rule("body")>>)>>
             @@ "->" :> <<Skip, Rule("expression")>>
             @@ "{" :> lambda_body, end)>>
lambda == <<Match({"fun"}),
            Branch(Arms(IdTokens, <<Rule("id")>> \o lambda_rest(lambda_body)),
                   lambda_rest(<<>>))>>

primary ==
    <<Branch("NUMBER" :> <<Rule("number")>> @@ "CHAR" :> <<Rule("char")>>
             @@ "STRING" :> <<Rule("string")>> @@ "null" :> <<Rule("null")>>
             @@ "undefined" :> <<Rule("undefined")>> @@ "nan" :> <<Rule("nan")>>
             @@ "this" :> <<Rule("this")>> @@ "int" :> <<Rule("kint")>>
             @@ "float" :> <<Rule("kfloat")>> @@ "char" :> <<Rule("kchar")>>
             @@ "string" :> <<Rule("kstring")>> @@ "[" :> <<Rule("tuple")>>
             @@ "{" :> <<Rule("object")>> @@ "(" :> <<Rule("parenthesis")>>
             @@ "fun" :> <<Rule("lambda")>> @@ Arms(IdTokens, <<Rule("id")>>),
             <<Fail>>)>>

field     == <<Rule("postfix"), Option("=", <<Skip, Rule("postfix")>>)>>
fields    == ListOf("field")
argument  == <<Rule("expression"), Option("=", <<Skip, Rule("expression")>>)>>
arguments == ListOf("argument")

\* The loop of not_syntax_postfix, one turn.
postfix == <<Rule("primary"), Rule("postfix_more")>>
postfix_more ==
    <<Branch(
        "<" :> <<Save, Skip, Cut, Option(">", <<Fail>>), Concepts>>
        @@ "[" :> <<Skip, Unless("]", <<Rule("arguments")>>), Match({"]"}), Rule("postfix_more")>>
        @@ "." :> <<Skip, Rule("id"), Rule("postfix_more")>>
        @@ "(" :> <<Skip, Unless(")", <<Rule("arguments")>>), Match({")"}), Rule("postfix_more")>>,
        <<>>)>>

prefix == <<Branch(Arms({"~", "!", "-", "+", "sizeof", "typeof"}, <<Skip, Rule("prefix")>>),
                   <<Rule("postfix")>>)>>

pow            == Chain("prefix", {"**"})
multiplicative == Chain("pow", {"*", "/", "%", "\\"})
addative       == Chain("multiplicative", {"+", "-"})
shifting       == Pair("addative", {"<<", ">>"})
relational     == Pair("shifting", {"<", "<=", ">", ">="})
equality       == Pair("relational", {"==", "!="})
bitwise_and    == Chain("equality", {"&"})
bitwise_xor    == Chain("bitwise_and", {"^"})
bitwise_or     == Chain("bitwise_xor", {"|"})
logical_and    == Chain("bitwise_or", {"&&"})
logical_or     == Chain("logical_and", {"||"})
instanceof     == Pair("logical_or", {"instanceof"})
conditional    == <<Rule("instanceof"),
                    Option("?", <<Skip, Rule("conditional"), Match({":"}), Rule("conditional")>>)>>
expression     == <<Rule("conditional")>>
assign == Pair("expression", {"=", "+=", "-=", "*=", "/=", "\\=", "%=", "**=",
                              "&=", "|=", "<<=", ">>="})
-----------------------------------------------------------------------------
(***************************************************************************)
(* Statements.                                                             *)
(***************************************************************************)
if_stmt ==
    <<Match({"if"}), Match({"("}), Rule("expression"), Match({")"}), Rule("body"),
      Option("else", <<Skip, Branch("if" :> <<Rule("if_stmt")>>, <<Rule("body")>>)>>)>>

entity == <<Rule("id"), Option(":", <<Skip, Rule("id")>>),
            Option("=", <<Skip, Rule("expression")>>)>>

set == <<Match({"{"})>> \o ListOf("entity") \o <<Match({"}"})>>

var_stmt ==
    <<Match({"var"}),
      Branch(Arms(IdTokens, <<Rule("id"), Option(":", <<Skip, Rule("postfix")>>),
                              Option("=", <<Skip, Rule("expression")>>)>>),
             <<Rule("set"), Match({"="}), Rule("expression")>>)>>

\* The for statement: its labels are rules.  The names after "var" are read
\* under a saved state, until "in" tells which of the two loops it is.
for_body == <<Enter("loop"), Rule("body"), Leave("loop")>>
for_init == <<Branch("readonly" :> <<Skip, Rule("var_stmt")>> @@ "var" :> <<Rule("var_stmt")>>,
                     <<Rule("assign")>>)>>
region_finish == <<Match({")"})>> \o for_body
region_step == <<Unless(")", ListOf("assign"))>> \o region_finish
region_condition ==
    <<Branch(";" :> <<Skip>>, <<Rule("expression"), Match({";"})>>)>> \o region_step
region_for_loop == ListOf("for_init") \o <<Match({";"})>> \o region_condition
for_in(names) ==
    <<Branch("in" :> <<Release, Match({"in"}), Rule("expression"), Match({")"})>> \o for_body,
             <<GiveUp(names), Rule("region_for_loop")>>)>>
for_stmt ==
    <<Match({"for"}), Branch(Arms(IdTokens, <<Rule("id")>>), <<>>),
      Branch("{" :> for_body,
        <<Match({"("}),
          Branch(";" :> <<Skip, Rule("region_condition")>>,
            <<Save,
              Branch("var" :> <<Match({"var"}), Rule("id"),
                                Branch("," :> <<Skip, Rule("id")>> \o for_in(2), for_in(1))>>,
                     <<Release, Rule("region_for_loop")>>)>>)>>)>>

break_stmt    == <<Match({"break"}), Unless(";", <<Rule("id")>>)>>
continue_stmt == <<Match({"continue"}), Unless(";", <<Rule("id")>>)>>
catch_stmt    == <<Match({"catch"}), Option("(", lambda_parameters), Rule("body")>>
try_stmt      == <<Match({"try"}), Rule("body"), Option("catch", <<Rule("catch_stmt")>>)>>
careless_throw == <<Match({"throw"}), Careless("expression")>>      \* mutant
throw_stmt    == <<Match({"throw"}), Rule("expression")>>
return_stmt   == <<Match({"return"}), Unless(";", <<Rule("expression")>>)>>
reference_stmt == <<Match({"reference"}), Rule("var_stmt")>>
readonly_stmt  == <<Match({"readonly"}), Rule("var_stmt")>>

\* break, continue and return are statements only where the depths allow them;
\* elsewhere they fall through to an expression, which they cannot begin.
statement ==
    LET plain == <<Rule("assign"), Match({";"})>>
        closed(r) == <<Rule(r), Match({";"})>>
    IN <<Branch(
           "if" :> <<Rule("if_stmt")>> @@ "try" :> <<Rule("try_stmt")>>
           @@ "for" :> <<Rule("for_stmt")>> @@ "var" :> closed("var_stmt")
           @@ "readonly" :> <<Rule("readonly_stmt")>>
           @@ "reference" :> <<Rule("reference_stmt")>>
           @@ "break" :> <<Within("loop", closed("break_stmt"), plain)>>
           @@ "continue" :> <<Within("loop", closed("continue_stmt"), plain)>>
           @@ "return" :> <<Within("fun", closed("return_stmt"), plain)>>
           @@ "throw" :> closed("throw_stmt"), plain)>>

body == <<Match({"{"}), Until("}", <<Branch(";" :> <<Skip>>, <<Rule("statement")>>)>>), Match({"}"})>>
-----------------------------------------------------------------------------
(***************************************************************************)
(* Parameters, classes and modules.                                        *)
(***************************************************************************)
parameter ==
    LET rest(value) ==
          <<Branch(Arms({"*", "**"}, <<Skip>>), <<>>), Rule("id"),
            Option(":", <<Skip, Rule("postfix")>>), Option("=", <<Skip>> \o value)>>
    IN <<Branch("reference" :> <<Skip>> \o rest(<<Fail>>)
                @@ "readonly" :> <<Skip>> \o rest(<<Rule("expression")>>),
                rest(<<Rule("expression")>>))>>
parameters == ListOf("parameter")

generic == <<Rule("id"), Option("extends", <<Skip, Rule("postfix")>>),
             Option("=", <<Skip, Rule("postfix")>>)>>
generics == ListOf("generic")

class_fun ==
    LET rest(types) ==
          <<Option("<", <<Skip>> \o types), Option("(", lambda_parameters),
            Option(":", <<Skip, Rule("postfix")>>)>> \o lambda_body
    IN <<Match({"fun"}),
         Branch("ID" :> <<Rule("id")>> \o rest(Tail(lambda_generics))
                @@ "constructor" :> <<Rule("id")>> \o rest(<<Fail>>),
                <<Rule("operator")>> \o rest(<<Fail>>))>>

class_property(static) ==
    <<Rule("id"), Option(":", <<Skip, Rule("postfix")>>),
      IF static THEN Branch(<<>>, <<Match({"="}), Rule("expression")>>)
      ELSE Option("=", <<Skip, Rule("expression")>>)>>
class_reference == <<Match({"reference"}), Rule("class_property")>>
class_readonly(static) ==
    <<Match({"readonly"}), Rule(IF static THEN "class_property_static" ELSE "class_property")>>

class_static ==
    <<Match({"static"}),
      Branch("readonly" :> <<Rule("class_readonly_static"), Match({";"})>>
             @@ "fun" :> <<Rule("class_fun")>> @@ "class" :> <<Rule("class")>>,
             <<Rule("class_property_static"), Match({";"})>>)>>

class_export ==
    <<Match({"export"}),
      Branch("reference" :> <<Rule("class_reference"), Match({";"})>>
             @@ "readonly" :> <<Rule("class_readonly"), Match({";"})>>
             @@ "static" :> <<Rule("class_static")>> @@ "fun" :> <<Rule("class_fun")>>
             @@ "class" :> <<Rule("class")>>,
             <<Rule("class_property"), Match({";"})>>)>>

\* After notes, "reference" and "readonly" members are not closed by ";".
class_annotation ==
    <<Rule("notes"),
      Branch("export" :> <<Rule("class_export")>> @@ "reference" :> <<Rule("class_reference")>>
             @@ "readonly" :> <<Rule("class_readonly")>> @@ "static" :> <<Rule("class_static")>>
             @@ "fun" :> <<Rule("class_fun")>> @@ "class" :> <<Rule("class")>>,
             <<Rule("class_property"), Match({";"})>>)>>

class_block ==
    <<Match({"{"}),
      Until("}", <<Branch(
        "@" :> <<Rule("class_annotation")>> @@ "export" :> <<Rule("class_export")>>
        @@ "reference" :> <<Rule("class_reference"), Match({";"})>>
        @@ "readonly" :> <<Rule("class_readonly"), Match({";"})>>
        @@ "static" :> <<Rule("class_static")>> @@ "fun" :> <<Rule("class_fun")>>
        @@ "class" :> <<Rule("class")>>,
        <<Rule("class_property"), Match({";"})>>)>>),
      Match({"}"})>>

heritage  == <<Rule("id"), Match({":"}), Rule("expression")>>
heritages == ListOf("heritage")

class ==
    <<Match({"class"}), Rule("id"), Option("<", lambda_generics),
      Option("extends", <<Skip, Match({"("}), Option(")", <<Fail>>), Rule("heritages"), Match({")"})>>),
      Rule("class_block")>>

package  == <<Rule("id"), Option(":", <<Skip, Careless("expression")>>)>>
packages == ListOf("package")
using    == <<Match({"using"}), Rule("packages"), Match({"from"}), Rule("string")>>

readonly == <<Match({"readonly"}), Rule("var_stmt")>>
static   == <<Match({"static"}), Rule("class")>>
export(noted) ==
    <<Match({"export"}),
      Branch("static" :> <<Rule("static")>> @@ "class" :> <<Rule("class")>>
             @@ (IF noted THEN <<>> ELSE "readonly" :> <<Rule("readonly"), Match({";"})>>),
             IF noted THEN <<Fail>> ELSE <<Rule("var_stmt")>>)>>

note  == <<Match({"@"}), Rule("id"), Option("(", <<Skip, Rule("arguments"), Match({")"})>>)>>
notes == <<Rule("note"), Repeat("@", <<Rule("note")>>)>>
annotation == <<Rule("notes"), Branch("export" :> <<Rule("export_noted")>>, <<Rule("class")>>)>>

module ==
    <<Until("EOF", <<Branch(
        ";" :> <<Skip>> @@ "using" :> <<Rule("using"), Match({";"})>>
        @@ "@" :> <<Rule("annotation")>> @@ "export" :> <<Rule("export")>>
        @@ "readonly" :> <<Rule("readonly"), Match({";"})>> @@ "class" :> <<Rule("class")>>,
        <<Rule("statement")>>)>>),
      Match({"EOF"})>>

Grammar ==
    [id |-> id, number |-> number, char |-> char, string |-> string, null |-> null,
     undefined |-> undefined, nan |-> nan, this |-> this, kint |-> kint,
     kfloat |-> kfloat, kchar |-> kchar, kstring |-> kstring, operator |-> operator,
     tuple |-> tuple, pair |-> pair, object |-> object, parenthesis |-> parenthesis,
     lambda |-> lambda, primary |-> primary, field |-> field, fields |-> fields,
     argument |-> argument, arguments |-> arguments, postfix |-> postfix,
     postfix_more |-> postfix_more, prefix |-> prefix, pow |-> pow,
     multiplicative |-> multiplicative, addative |-> addative, shifting |-> shifting,
     relational |-> relational, equality |-> equality, bitwise_and |-> bitwise_and,
     bitwise_xor |-> bitwise_xor, bitwise_or |-> bitwise_or, logical_and |-> logical_and,
     logical_or |-> logical_or, instanceof |-> instanceof, conditional |-> conditional,
     expression |-> expression, assign |-> assign, if_stmt |-> if_stmt, entity |-> entity,
     set |-> set, var_stmt |-> var_stmt, for_init |-> for_init,
     region_for_loop |-> region_for_loop, region_condition |-> region_condition,
     for_stmt |-> for_stmt, break_stmt |-> break_stmt, continue_stmt |-> continue_stmt,
     catch_stmt |-> catch_stmt, try_stmt |-> try_stmt, throw_stmt |-> throw_stmt,
     return_stmt |-> return_stmt, reference_stmt |-> reference_stmt,
     readonly_stmt |-> readonly_stmt, statement |-> statement, body |-> body,
     parameter |-> parameter, parameters |-> parameters, generic |-> generic,
     generics |-> generics, class_fun |-> class_fun,
     class_property |-> class_property(FALSE), class_property_static |-> class_property(TRUE),
     class_reference |-> class_reference, class_readonly |-> class_readonly(FALSE),
     class_readonly_static |-> class_readonly(TRUE), class_static |-> class_static,
     class_export |-> class_export, class_annotation |-> class_annotation,
     class_block |-> class_block, heritage |-> heritage, heritages |-> heritages,
     class |-> class, package |-> package, packages |-> packages, using |-> using,
     readonly |-> readonly, static |-> static, export |-> export(FALSE),
     export_noted |-> export(TRUE), note |-> note, notes |-> notes,
     annotation |-> annotation, module |-> module]
-----------------------------------------------------------------------------
(***************************************************************************)
(* The machine that takes the steps.                                       *)
(***************************************************************************)
Top == Head(todo)
Rest == Tail(todo)
Doing(op) == /\ todo # <<>>
             /\ Top.op = op
             /\ Known
Then(steps) == todo' = steps \o Rest

\* not_node_destroy of what was made after the first n leaves, if anything was
KeepAll(n) == UNCHANGED leaves                                      \* mutant
Keep(n) == leaves' = [i \in {j \in DOMAIN leaves : j <= n} |-> leaves[i]]

Init ==
    /\ text \in Texts
    /\ source = text.first
    /\ at = 1
    /\ cut = FALSE
    /\ todo = Grammar["module"]
    /\ saved = <<>>
    /\ fun_depth = 0
    /\ loop_depth = 0
    /\ leaves = <<>>
    /\ errors = FALSE
    /\ holes = FALSE
    /\ verdict = "parsing"

\* The scanner needs more of the file: any unit, up to the bound, or its end.
Read ==
    /\ verdict = "parsing"
    /\ ~Known
    /\ \E u \in {"EOF"} \union (IF Len(source) < text.length THEN text.alphabet ELSE {}) :
         source' = Append(source, u)
    /\ UNCHANGED <<text, scan, todo, saved, depths, leaves, errors, holes, verdict>>

\* not_syntax_save
SaveState ==
    /\ Doing("save")
    /\ saved' = Append(saved, [at |-> at, cut |-> cut, fun |-> fun_depth, loop |-> loop_depth])
    /\ Then(<<>>)
    /\ UNCHANGED <<text, source, scan, depths, leaves, errors, holes, verdict>>

\* not_queue_right_pop on syntax->states
Saved == saved[Len(saved)]
Popped == SubSeq(saved, 1, Len(saved) - 1)

\* not_syntax_restore: the last saved state, whoever saved it.
RestoreScanner ==
    /\ saved # <<>>
    /\ at' = Saved.at
    /\ cut' = Saved.cut
    /\ saved' = Popped
RestoreNoDepths == RestoreScanner /\ UNCHANGED depths               \* mutant
Restore ==
    /\ RestoreScanner
    /\ fun_depth' = Saved.fun
    /\ loop_depth' = Saved.loop

\* not_syntax_release
PopNothing == UNCHANGED saved                                   \* mutant
PopState == saved # <<>> /\ saved' = Popped
ReleaseState ==
    /\ Doing("release")
    /\ PopState
    /\ Then(<<>>)
    /\ UNCHANGED <<text, source, scan, depths, leaves, errors, holes, verdict>>

\* The callers that go on after a callee returned NOT_PTR_ERROR.
Callers == {i \in DOMAIN todo : todo[i].op \in {"closing", "unchecked"}}
Nearest == CHOOSE i \in Callers : \A j \in Callers : i <= j

\* What postfix does after a restore: it returns node2, out of its loop.
LoopAgain == <<Rule("postfix_more")>>                               \* mutant
ReturnNode2 == <<>>

\* An error is reported and returned: out of the parser, to postfix, which
\* destroys the concepts and restores, or to package, which keeps the pointer.
Error ==
    /\ errors' = TRUE
    /\ \/ /\ Callers = {}
          /\ todo' = <<>>
          /\ verdict' = "rejected"
          /\ UNCHANGED <<scan, depths, saved, leaves, holes>>
       \/ /\ Callers # {}
          /\ Keep(todo[Nearest].keep)
          /\ \/ /\ todo[Nearest].op = "closing"
                /\ Restore
                /\ todo' = ReturnNode2 \o SubSeq(todo, Nearest + 1, Len(todo))
                /\ UNCHANGED holes
             \/ /\ todo[Nearest].op = "unchecked"
                /\ holes' = TRUE
                /\ todo' = SubSeq(todo, Nearest + 1, Len(todo))
                /\ UNCHANGED <<scan, depths, saved>>
          /\ UNCHANGED verdict
    /\ UNCHANGED <<text, source>>

\* not_syntax_match
MatchToken ==
    /\ Doing("match")
    /\ Token \in Top.on
    /\ Advance
    /\ leaves' = IF Top.leaf THEN Append(leaves, at) ELSE leaves
    /\ Then(<<>>)
    /\ UNCHANGED <<text, source, saved, depths, errors, holes, verdict>>
Mismatch == Doing("match") /\ Token \notin Top.on /\ Error
Refuse == Doing("fail") /\ Error

\* not_syntax_next
NextToken ==
    /\ Doing("next")
    /\ Advance
    /\ Then(<<>>)
    /\ UNCHANGED <<text, source, saved, depths, leaves, errors, holes, verdict>>

\* not_syntax_gt: cut ">>", ">=" or ">>=" down to ">".
CutToken ==
    /\ Doing("gt")
    /\ cut' = (cut \/ Token \in {">>", ">=", ">>="})
    /\ Then(<<>>)
    /\ UNCHANGED <<text, source, at, saved, depths, leaves, errors, holes, verdict>>

\* The control of the parser: calls, conditions and loops.
Control ==
    /\ \/ Doing("rule") /\ Then(Grammar[Top.rule])
       \/ /\ Doing("branch")
          /\ Then(IF Token \in DOMAIN Top.arms THEN Top.arms[Token] ELSE Top.other)
       \/ /\ Doing("chain")
          /\ Then(IF Token \in Top.on THEN <<Skip, Rule(Top.rule), Top>> ELSE <<>>)
       \/ Doing("repeat") /\ Then(IF Token = Top.on THEN Append(Top.steps, Top) ELSE <<>>)
       \/ Doing("until") /\ Then(IF Token = Top.on THEN <<>> ELSE Append(Top.steps, Top))
       \/ /\ Doing("within")
          /\ Then(IF (IF Top.in = "loop" THEN loop_depth ELSE fun_depth) > 0
                  THEN Top.steps ELSE Top.other)
       \/ /\ Doing("concepts")
          /\ Then(<<Rule("fields"), [op |-> "closing", keep |-> Len(leaves)]>>)
       \/ /\ Doing("careless")
          /\ Then(<<Rule(Top.rule), [op |-> "unchecked", keep |-> Len(leaves)]>>)
       \/ Doing("unchecked") /\ Then(<<>>)
    /\ UNCHANGED <<text, source, scan, saved, depths, leaves, errors, holes, verdict>>

\* fun_depth and loop_depth around a body.
EnterBody ==
    /\ Doing("enter")
    /\ loop_depth' = IF Top.in = "loop" THEN loop_depth + 1 ELSE loop_depth
    /\ fun_depth' = IF Top.in = "fun" THEN fun_depth + 1 ELSE fun_depth
    /\ Then(<<>>)
    /\ UNCHANGED <<text, source, scan, saved, leaves, errors, holes, verdict>>
LeaveBody ==
    /\ Doing("leave")
    /\ loop_depth' = IF Top.in = "loop" THEN loop_depth - 1 ELSE loop_depth
    /\ fun_depth' = IF Top.in = "fun" THEN fun_depth - 1 ELSE fun_depth
    /\ Then(<<>>)
    /\ UNCHANGED <<text, source, scan, saved, leaves, errors, holes, verdict>>

\* postfix, after the fields behind "<": with a ">" they are the arguments of
\* a generic type, without one they are destroyed and the state is restored.
CloseConcepts ==
    /\ Doing("closing")
    /\ \/ /\ cut \/ Token \in {">", ">>", ">=", ">>="}
          /\ at' = at + 1
          /\ cut' = FALSE
          /\ PopState
          /\ Then(<<Rule("postfix_more")>>)
          /\ UNCHANGED <<depths, leaves>>
       \/ /\ ~cut
          /\ Token \notin {">", ">>", ">=", ">>="}
          /\ Keep(Top.keep)
          /\ Restore
          /\ Then(ReturnNode2)
    /\ UNCHANGED <<text, source, errors, holes, verdict>>

\* for_stmt, when no "in" follows the names: they are destroyed.
ForRestore ==
    /\ Doing("restore")
    /\ Keep(Len(leaves) - Top.drop)
    /\ Restore
    /\ Then(<<>>)
    /\ UNCHANGED <<text, source, errors, holes, verdict>>

Accept ==
    /\ verdict = "parsing"
    /\ todo = <<>>
    /\ verdict' = "accepted"
    /\ UNCHANGED <<text, source, scan, todo, saved, depths, leaves, errors, holes>>

Finished == verdict # "parsing" /\ UNCHANGED vars

Step == \/ Read \/ SaveState \/ ReleaseState \/ MatchToken \/ Mismatch \/ Refuse
        \/ NextToken \/ CutToken \/ Control \/ EnterBody \/ LeaveBody
        \/ CloseConcepts \/ ForRestore \/ Accept
Next == Step \/ Finished

\* The parser is sequential code: it takes its next step.
Spec == Init /\ [][Next]_vars /\ WF_vars(Step)
-----------------------------------------------------------------------------
TypeOK ==
    /\ text \in Texts
    /\ at \in 1..(Len(source) + 1)
    /\ {cut, errors, holes} \subseteq BOOLEAN
    /\ {fun_depth, loop_depth} \subseteq Nat
    /\ \A i \in DOMAIN saved : saved[i].at \in 1..Len(source)
    /\ \A i \in DOMAIN leaves : leaves[i] \in 1..Len(source)
    /\ verdict \in {"parsing", "accepted", "rejected"}

\* An error in the names of a for header restores the state that the header
\* saved, if it stands in arguments tried behind a "<", and the parser goes on
\* at that "var" instead of the "<".  Only behind a declaration that is not
\* closed by ";" may a "var" follow (syntax.c:3234, :3238, :4489): what stands between
\* is then lost without an error.
Units == {source[i] : i \in DOMAIN source}
HeaderTried == \E i, j, k \in DOMAIN source :
    i < j /\ j < k /\ source[i] \in {"export", "reference", "readonly"}
                    /\ source[j] = "<" /\ source[k] = "for"
Misled == holes \/ (errors /\ HeaderTried)

\* A module that is accepted leaves no saved state behind and no depth open,
\* whatever was tried and given up on the way (syntax.c:65, :1237, :2756).
\* There are two exceptions: an error that a package swallowed, where nothing
\* restores what the bodies and headers it was found in had opened
\* (syntax.c:4323), and the header above.
SpeculationsClosed ==
    verdict = "accepted" /\ ~Misled => saved = <<>> /\ fun_depth = 0 /\ loop_depth = 0

\* While every saved state still has the "a <" that saved it, the depths are
\* the numbers of loop and function bodies being parsed: an error deep inside
\* a lambda that was only tried must not leave its bodies counted
\* (syntax.c:105).  An error that a package swallowed leaves them counted for
\* the rest of the module; a body is never counted off twice.
Pending(op, d) == Cardinality({i \in DOMAIN todo : todo[i].op = op /\ todo[i].in = d})
Bodies(d) == Pending("leave", d) - Pending("enter", d)
Closings == Cardinality({i \in DOMAIN todo : todo[i].op = "closing"})
DepthsCountBodies ==
    verdict = "parsing" /\ Len(saved) = Closings =>
        /\ loop_depth >= Bodies("loop") /\ fun_depth >= Bodies("fun")
        /\ ~holes => loop_depth = Bodies("loop") /\ fun_depth = Bodies("fun")

\* In an accepted source every break and continue stands in the braces of a
\* for body, and every return in braces that follow a fun: the counters agree
\* with the nesting of the text, after all restores (syntax.c:3240-3264).  Not
\* so behind a package that swallowed an error in such a body.
Count(u, i, j) == Cardinality({k \in i..j : source[k] = u})
Encloses(k, i) == /\ source[k] = "{"
                  /\ \A j \in k..(i - 1) : Count("{", k, j) > Count("}", k, j)
Opening(k) == CHOOSE p \in 1..k : /\ source[p] = "("
                                  /\ Count("(", p, k) = Count(")", p, k)
                                  /\ \A q \in (p + 1)..k : Count("(", q, k) < Count(")", q, k)
AfterFor(k) == \/ k > 1 /\ source[k - 1] = "for"
               \/ k > 2 /\ source[k - 1] \in IdTokens /\ source[k - 2] = "for"
ForBrace(k) == AfterFor(k) \/ (source[k - 1] = ")" /\ AfterFor(Opening(k - 1)))
JumpsEnclosed ==
    verdict = "accepted" /\ ~holes =>
        \A i \in DOMAIN source :
            /\ source[i] \in {"break", "continue"} =>
                   \E k \in 1..(i - 1) : Encloses(k, i) /\ ForBrace(k)
            /\ source[i] = "return" =>
                   \E p, k \in 1..(i - 1) : p < k /\ source[p] = "fun" /\ Encloses(k, i)

\* The leaves stand in the order of the source, none twice: what a failed
\* speculation made is destroyed and what it read is read again
\* (syntax.c:1264-1289, :2789).
LeavesAscend == \A i, j \in DOMAIN leaves : i < j => leaves[i] < leaves[j]

\* So do the names and literals in the tree of an accepted source, and all of
\* them are in the tree, but for the two exceptions above.
LeafUnits == IdTokens \union {"NUMBER", "CHAR", "STRING", "null", "undefined", "nan",
                              "this", "int", "float", "char", "string"}
LeavesInOrder ==
    verdict = "accepted" =>
        /\ LeavesAscend
        /\ ~Misled => \A k \in DOMAIN source :
                         source[k] \in LeafUnits => \E i \in DOMAIN leaves : leaves[i] = k

\* A module is accepted although an error was reported only where a "<" was
\* tried as the start of generic arguments, or where a package swallowed the
\* error; and only a package leaves an error pointer in the tree
\* (syntax.c:1267, :4323).
QuietlyAccepted ==
    verdict = "accepted" =>
        /\ holes => "using" \in Units
        /\ errors /\ ~holes => "<" \in Units

\* Parsing ends, although every "<" may have its operand read twice.
Terminates == <>(verdict # "parsing")
=============================================================================
