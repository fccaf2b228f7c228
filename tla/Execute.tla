------------------------------ MODULE Execute ------------------------------
(***************************************************************************)
(* The statement interpreter: interpreter/execute.c, with the parts of     *)
(* call.c, primary.c and strip.c that decide where control goes.           *)
(*                                                                         *)
(* The C functions call each other recursively and report by their return  *)
(* code; here the C stack is the variable `stack', one frame per active    *)
(* function, and `ret' is the code a finished function has returned and    *)
(* its caller has not looked at yet.  `rax' and `expections' are the two   *)
(* fields of the thread's interpreter that outlive a return: the label or  *)
(* value that a break, continue or return carries, and the exceptions.     *)
(*                                                                         *)
(* The program is the constant Ast.  What an expression computes is left   *)
(* open: it yields a value, or fails with an error, or calls a function    *)
(* of the program and does what the call does.  A value is named by the    *)
(* node that made it.  Activation records hold the variables of their own  *)
(* level; the copies of the caller's levels behind it only serve reads.    *)
(***************************************************************************)
EXTENDS Integers, Sequences, FiniteSets

CONSTANTS Ast,   \* the program: a record for every node, see AstRecords
          None   \* NULL, and "no value"

Node == DOMAIN Ast

Kinds == {"MODULE", "BODY", "VAR", "EXPR", "IF", "FOR", "FORIN", "TRY", "CATCH",
          "THROW", "RETURN", "BREAK", "CONTINUE", "FUN"}

\* kind     the node's kind; EXPR is any statement that not_assign executes
\* items    statements of a MODULE or BODY, initializer of a FOR
\* body     body of a FOR, FORIN, TRY, CATCH or FUN, then_body of an IF, the
\*          function a VAR is initialized with
\* other    else_body of an IF, the catch clause of a TRY
\* key      name a VAR, FORIN, or the parameter of a CATCH or FUN declares
\* label    label of a FOR or FORIN, label a BREAK or CONTINUE mentions
\* callee   function that the node's expression calls
\* flags    "operator": that call goes through not_call_operator_by_one_arg;
\*          "typed": the catch parameter or the variable has a declared type;
\*          "generic": that type is, or is made of, a class with generics;
\*          "reference": the catch parameter's; "static": the variable's;
\*          "bare": a RETURN with no value, a FOR with no condition
AstRecords == [kind : Kinds, items : Seq(Node), body : Node \cup {None},
               other : Node \cup {None}, key : STRING \cup {None},
               label : STRING \cup {None}, callee : Node \cup {None},
               flags : SUBSET {"operator", "typed", "generic", "reference", "static",
                               "bare"}]

Kind(n) == Ast[n].kind
Items(n) == Ast[n].items
Has(n, flag) == flag \in Ast[n].flags

Fail == "fail"   \* NOT_PTR_ERROR from an expression

\* What the parser builds: a function is only mentioned by a VAR or a call, a CATCH
\* only by its TRY.
ASSUME AstAssumption ==
  /\ Ast \in [Node -> AstRecords]
  /\ None \notin Node \cup {Fail}
  /\ Fail \notin Node
  /\ \E n \in Node : Kind(n) = "MODULE"
  /\ \A n \in Node :
       /\ \A i \in DOMAIN Items(n) : Kind(Items(n)[i]) \notin {"MODULE", "CATCH", "FUN"}
       /\ Kind(n) \in {"IF", "FOR", "FORIN", "TRY", "CATCH", "FUN"} =>
            Ast[n].body \in Node /\ Kind(Ast[n].body) = "BODY"
       /\ Kind(n) = "IF" /\ Ast[n].other # None => Kind(Ast[n].other) \in {"BODY", "IF"}
       /\ Kind(n) = "TRY" /\ Ast[n].other # None => Kind(Ast[n].other) = "CATCH"
       /\ Ast[n].callee # None => Kind(Ast[n].callee) = "FUN"
       /\ Kind(n) \in {"VAR", "FORIN"} => Ast[n].key # None

Loops == {n \in Node : Kind(n) \in {"FOR", "FORIN"}}

\* node->parent: a node is made for the place it stands in.
Children(n) == {Items(n)[i] : i \in DOMAIN Items(n)} \cup {Ast[n].body, Ast[n].other}
ASSUME TreeAssumption ==
  \A p, q \in Node : p # q => Children(p) \cap Children(q) \subseteq {None}
Parent == [n \in Node |-> IF \E p \in Node : n \in Children(p)
                          THEN CHOOSE p \in Node : n \in Children(p) ELSE None]

-----------------------------------------------------------------------------
\* not_primary_selection, for the label of a break or continue: from the
\* statement outwards, a BODY offers the loops among the items before the one we
\* come from, the MODULE offers all of its items, and a loop not its own label.
Offered(base, sub) ==
  LET before == CASE Kind(base) = "BODY" ->
                       {i \in DOMAIN Items(base) :
                          \A j \in 1..i : Items(base)[j] # sub}
                  [] Kind(base) = "MODULE" -> DOMAIN Items(base)
                  [] OTHER -> {}
  IN  {i \in before : Items(base)[i] \in Loops}

LabelTarget ==
  [n \in {x \in Node : Kind(x) \in {"BREAK", "CONTINUE"} /\ Ast[x].label # None} |->
     LET selection[base \in Node \cup {None}, sub \in Node] ==
           IF base = None THEN None
           ELSE LET found == {i \in Offered(base, sub) :
                                Ast[Items(base)[i]].label = Ast[n].label}
                IN  IF found = {} THEN selection[Parent[base], base]
                    ELSE Items(base)[CHOOSE i \in found : \A j \in found : i <= j]
     IN  selection[Parent[n], n]]

-----------------------------------------------------------------------------
\* Return codes of the not_execute_ functions; Running while none is pending.
OK == 0
ERROR == -1
BREAK == -2
CONTINUE == -3
THROW == -4
RETURN == -5
Running == 1

VARIABLES
  stack,       \* the active C functions, one frame each, the innermost last
  ret,         \* the code the last finished function returned
  val,         \* the outcome of the top frame's expression
  rax,         \* thread->interpreter->rax
  expections,  \* thread->interpreter->expections: list cell and value of each
  strips,      \* the activation records, one per active call
  symbols,     \* the symbol table: module and static variables
  fault        \* how the process died, or "none"

vars == <<stack, ret, val, rax, expections, strips, symbols, fault>>

\* The fields other than n and pc are locals of single functions: the index of
\* the item under way; r2, expection and b of not_execute_try.
Frame(n, pc) == [n |-> n, pc |-> pc, i |-> 0, code |-> OK, expection |-> None, b |-> 0]

Depth == Len(stack)
Top == stack[Depth]
At(kind, pc) == /\ stack # <<>>
                /\ fault = "none"
                /\ Kind(Top.n) = kind
                /\ Top.pc = pc
Pop(s) == SubSeq(s, 1, Len(s) - 1)

\* The top function calls the function for a child and will resume in f.
CallChild(f, n) ==
  /\ stack' = Append([stack EXCEPT ![Depth] = f], Frame(n, "start"))
  /\ ret' = Running
  /\ val' = None

Return(code) == /\ stack' = Pop(stack)
                /\ ret' = code
                /\ val' = None

Goto(f) == /\ stack' = [stack EXCEPT ![Depth] = f]
           /\ ret' = Running
           /\ val' = None

\* not_queue_right_push onto expections, by an error or a throw.  The cell comes
\* from the allocator, which may hand out one that was freed.
UsedCells == {expections[i].cell : i \in DOMAIN expections}
FreshCells == 1..Len(expections) + 1 \ UsedCells
Raise(n) == \E c \in FreshCells :
               expections' = Append(expections, [cell |-> c, value |-> n])

-----------------------------------------------------------------------------
\* The activation record in use, and the two operations on its variables.
Level == Len(strips)
Variables == strips[Level].variables
Inputs == strips[Level].inputs
Entry(scope, key, value) == [scope |-> scope, key |-> key, value |-> value]
Declared(table, scope, key) == \E e \in table : e.scope = scope /\ e.key = key

PushVariable(e) ==
  strips' = [strips EXCEPT ![Level].variables =
               IF Declared(@, e.scope, e.key) THEN @ ELSE @ \cup {e}]

RemoveByScope(scope) ==
  strips' = [strips EXCEPT ![Level].variables = {e \in @ : e.scope # scope}]

Init == /\ stack = <<Frame(CHOOSE n \in Node : Kind(n) = "MODULE", "start")>>
        /\ ret = Running
        /\ val = None
        /\ rax = None
        /\ expections = <<>>
        /\ strips = <<[variables |-> {}, inputs |-> {}]>>
        /\ symbols = {}
        /\ fault = "none"

-----------------------------------------------------------------------------
\* The decisions of the statements on a return code, named because they are what
\* the properties turn on.  Before each comes a wrong form of
\* it that some property excludes; only the second form is used.

\* A try looks at the queue after these codes of its body; any other is passed on.
HandlesAnyCode(code) == code < 0
Handles(code) == code \in {THROW, ERROR}

\* What a try returns when it has been through the queue.
SameCode(code) == code
RemainingCode(code) == IF expections # <<>> THEN code ELSE OK

\* The cell the loop over the queue goes to after the i-th, 0 at its end.
CellAt(i) == IF i \in DOMAIN expections THEN expections[i].cell ELSE 0
CellFromFirst(i) == CellAt(1)
CellAfter(i) == CellAt(i + 1)

\* not_queue_unlink of a handled exception.
StillQueued(i) == expections
Unqueued(i) == SubSeq(expections, 1, i - 1) \o SubSeq(expections, i + 1, Len(expections))

\* not_thread_get_and_set_rax(NULL) by a call, not_thread_set_rax(NULL) by a loop.
LeaveRax == UNCHANGED rax
TakeRax == rax' = None
KeepRax == UNCHANGED rax
ClearRax == rax' = None

\* The variables of a body go, whatever the body returns.
CloseUnlessError(n) == IF ret = ERROR THEN UNCHANGED strips ELSE RemoveByScope(n)
CloseBody(n) == RemoveByScope(n)

\* The variables of a loop go when it is left by anything but an error.
CloseUnlessReturn(n) == IF ret = RETURN THEN UNCHANGED strips ELSE RemoveByScope(n)
CloseLoop(n) == RemoveByScope(n)

\* A pending break or continue is for loop n when it carries no label, or when
\* its label names a loop of n's kind with n's name.
IsFor(n) == \/ rax = None
            \/ /\ rax \in Loops
               /\ Ast[n].label # None
               /\ Kind(rax) = Kind(n)
               /\ Ast[rax].label = Ast[n].label

\* The loop goes on after its body.
GoesOnAfterError(n) == ret \in {OK, ERROR} \/ (ret = CONTINUE /\ IsFor(n))
GoesOn(n) == ret = OK \/ (ret = CONTINUE /\ IsFor(n))

-----------------------------------------------------------------------------
\* not_expression, wherever a statement evaluates one: a value or an error.
EvaluatesAt(f) ==
  /\ <<Kind(f.n), f.pc>> \in
        {<<"VAR", "start">>, <<"EXPR", "start">>, <<"IF", "start">>, <<"THROW", "start">>,
         <<"RETURN", "start">>, <<"FORIN", "start">>, <<"FOR", "cond">>, <<"FOR", "incr">>}
  /\ ~(Has(f.n, "bare") /\ f.pc # "incr")

Evaluating == /\ stack # <<>>
              /\ fault = "none"
              /\ EvaluatesAt(Top)
              /\ val = None
              /\ ret = Running

Evaluate ==
  /\ Evaluating
  /\ \/ Ast[Top.n].callee = None /\ val' = Top.n /\ UNCHANGED expections
     \/ val' = Fail /\ Raise(Top.n)
  /\ UNCHANGED <<stack, ret, rax, strips, symbols, fault>>

\* not_call and not_call_fun (or not_call_operator_by_one_arg) up to the function:
\* a new activation record, with the argument among its inputs.
CallFun ==
  /\ Evaluating
  /\ LET f == Ast[Top.n].callee
     IN  /\ f # None
         /\ CallChild(Top, f)
         /\ strips' = Append(strips,
              [variables |-> {},
               inputs |-> IF Ast[f].key = None THEN {}
                          ELSE {Entry(f, Ast[f].key, Top.n)}])
  /\ UNCHANGED <<rax, expections, symbols, fault>>

\* not_execute_fun: parameters become variables, then the body.
FunStart ==
  /\ At("FUN", "start")
  /\ CallChild([Top EXCEPT !.pc = "body"], Ast[Top.n].body)
  /\ strips' = [strips EXCEPT ![Level].variables = @ \cup Inputs]
  /\ UNCHANGED <<rax, expections, symbols, fault>>

\* The end of not_execute_fun and of the call: the code becomes a value or a
\* failure of the calling expression, and the activation record goes.
FunEnd ==
  /\ At("FUN", "body")
  /\ ret # Running
  /\ LET noLoop == ret \in {BREAK, CONTINUE}
         code == IF noLoop THEN ERROR ELSE IF ret = RETURN THEN OK ELSE ret
         operator == Has(stack[Depth - 1].n, "operator")
         failed == IF operator THEN code = ERROR ELSE code < 0
     IN  /\ IF noLoop THEN Raise(Top.n) ELSE UNCHANGED expections
         /\ IF failed
            THEN val' = Fail /\ UNCHANGED rax
            ELSE val' = (IF rax = None THEN Top.n ELSE rax) /\ TakeRax
  /\ stack' = Pop(stack)
  /\ ret' = Running
  /\ strips' = Pop(strips)
  /\ UNCHANGED <<symbols, fault>>

-----------------------------------------------------------------------------
\* not_execute_module and not_execute_body: the items one after the other, until
\* one returns a negative code.
NextItem ==
  /\ stack # <<>>
  /\ At("MODULE", "start") \/ At("BODY", "start")
  /\ ret \in {Running, OK}
  /\ Top.i < Len(Items(Top.n))
  /\ CallChild([Top EXCEPT !.i = @ + 1], Items(Top.n)[Top.i + 1])
  /\ UNCHANGED <<rax, expections, strips, symbols, fault>>

ItemsEnd ==
  /\ At("MODULE", "start") \/ At("BODY", "start")
  /\ ret < 0 \/ (ret \in {Running, OK} /\ Top.i = Len(Items(Top.n)))
  /\ Return(IF ret < 0 THEN ret ELSE OK)
  /\ IF Kind(Top.n) = "MODULE" THEN strips' = Pop(strips) ELSE CloseBody(Top.n)
  /\ UNCHANGED <<rax, expections, symbols, fault>>

\* not_execute_var, the declared type.  The value has it or is cast to it; or it has
\* another, or evaluating the type fails, and that is the end.  When the check itself
\* fails (a parameter of a generic class is not initialized) the error is queued and the
\* records are released, but the function goes on with them; so does its message about
\* a cast that failed.  What the released memory then holds may end the process.
CheckType ==
  /\ At("VAR", "start")
  /\ Has(Top.n, "typed")
  /\ val \notin {None, Fail}
  /\ LET goOn == [Top EXCEPT !.pc = "checked"]
     IN  \/ Goto(goOn) /\ UNCHANGED <<expections, fault>>
         \/ Return(ERROR) /\ Raise(Top.n) /\ UNCHANGED fault
         \/ Has(Top.n, "generic") /\ Goto(goOn) /\ Raise(Top.n) /\ UNCHANGED fault
         \/ fault' = "released" /\ UNCHANGED <<stack, ret, val, expections>>
  /\ UNCHANGED <<rax, strips, symbols>>

\* not_execute_var, the rest.  A static or module variable goes to the symbol table,
\* where a second declaration of the same name is kept but never found.
Var ==
  /\ \/ At("VAR", "start") /\ val # None /\ (Has(Top.n, "typed") => val = Fail)
     \/ At("VAR", "checked")
  /\ LET n == Top.n
         scope == Parent[n]
         key == Ast[n].key
         global == Has(n, "static") \/ Kind(scope) = "MODULE"
     IN  \/ /\ val = Fail
            /\ Return(ERROR)
            /\ UNCHANGED <<expections, strips, symbols>>
         \/ /\ val # Fail
            /\ global
            /\ Return(OK)
            /\ symbols' = IF Declared(symbols, scope, key) THEN symbols
                          ELSE symbols \cup {Entry(scope, key, n)}
            /\ UNCHANGED <<expections, strips>>
         \/ /\ val # Fail
            /\ ~global
            /\ Declared(Variables, scope, key)     \* "already defined"
            /\ Raise(n)
            /\ Return(ERROR)
            /\ UNCHANGED <<strips, symbols>>
         \/ /\ val # Fail
            /\ ~global
            /\ ~Declared(Variables, scope, key)
            /\ PushVariable(Entry(scope, key, n))
            /\ Return(OK)
            /\ UNCHANGED <<expections, symbols>>
  /\ UNCHANGED <<rax, fault>>

\* not_assign as a statement: only success or failure matters here.
Expr ==
  /\ At("EXPR", "start")
  /\ val # None
  /\ Return(IF val = Fail THEN ERROR ELSE OK)
  /\ UNCHANGED <<rax, expections, strips, symbols, fault>>

\* not_execute_if
If ==
  /\ At("IF", "start")
  /\ val # None
  /\ LET n == Top.n
         resume == [Top EXCEPT !.pc = "branch"]
     IN  IF val = Fail THEN Return(ERROR)
         ELSE \/ CallChild(resume, Ast[n].body)
              \/ IF Ast[n].other = None THEN Return(OK)
                 ELSE CallChild(resume, Ast[n].other)
  /\ UNCHANGED <<rax, expections, strips, symbols, fault>>

IfEnd ==
  /\ At("IF", "branch")
  /\ ret # Running
  /\ Return(ret)
  /\ UNCHANGED <<rax, expections, strips, symbols, fault>>

\* not_execute_throw
Throw ==
  /\ At("THROW", "start")
  /\ val # None
  /\ IF val = Fail THEN Return(ERROR) /\ UNCHANGED expections
     ELSE Return(THROW) /\ Raise(Top.n)
  /\ UNCHANGED <<rax, strips, symbols, fault>>

\* not_execute_return
ReturnStatement ==
  /\ At("RETURN", "start")
  /\ IF Has(Top.n, "bare") THEN Return(RETURN) /\ UNCHANGED rax
     ELSE /\ val # None
          /\ IF val = Fail THEN Return(ERROR) /\ UNCHANGED rax
             ELSE Return(RETURN) /\ rax' = Top.n
  /\ UNCHANGED <<expections, strips, symbols, fault>>

\* not_execute_break and not_execute_continue
Jump ==
  /\ At("BREAK", "start") \/ At("CONTINUE", "start")
  /\ LET n == Top.n
         code == IF Kind(n) = "BREAK" THEN BREAK ELSE CONTINUE
     IN  \/ /\ Ast[n].label = None
            /\ Return(code)
            /\ UNCHANGED <<rax, expections>>
         \/ /\ Ast[n].label # None
            /\ LabelTarget[n] \in Loops
            /\ Return(code)
            /\ rax' = LabelTarget[n]
            /\ UNCHANGED expections
         \/ /\ Ast[n].label # None
            /\ LabelTarget[n] \notin Loops        \* no such name, or not a loop
            /\ Return(ERROR)
            /\ Raise(n)
            /\ UNCHANGED rax
  /\ UNCHANGED <<strips, symbols, fault>>

-----------------------------------------------------------------------------
\* not_execute_for: the initializer.
ForInit ==
  /\ At("FOR", "start")
  /\ \/ ret = ERROR /\ Return(ERROR)
     \/ /\ ret \in {Running, OK}
        /\ IF Top.i < Len(Items(Top.n))
           THEN CallChild([Top EXCEPT !.i = @ + 1], Items(Top.n)[Top.i + 1])
           ELSE Goto([Top EXCEPT !.pc = "cond"])
  /\ UNCHANGED <<rax, expections, strips, symbols, fault>>

\* region_start_loop: the condition, then the body or the end of the loop.
ForCondition ==
  /\ At("FOR", "cond")
  /\ Has(Top.n, "bare") \/ val # None
  /\ \/ /\ val = Fail
        /\ Return(ERROR)
        /\ UNCHANGED strips
     \/ /\ val # Fail
        /\ CallChild([Top EXCEPT !.pc = "body"], Ast[Top.n].body)
        /\ UNCHANGED strips
     \/ /\ val # Fail /\ ~Has(Top.n, "bare")
        /\ Return(OK)
        /\ CloseLoop(Top.n)
  /\ UNCHANGED <<rax, expections, symbols, fault>>

ForIncrement ==
  /\ At("FOR", "incr")
  /\ val # None
  /\ IF val = Fail THEN Return(ERROR) ELSE Goto([Top EXCEPT !.pc = "cond"])
  /\ UNCHANGED <<rax, expections, strips, symbols, fault>>

\* not_execute_forin: the iterator, then an item at a time.
ForinIterator ==
  /\ At("FORIN", "start")
  /\ val # None
  /\ IF val = Fail THEN Return(ERROR) ELSE Goto([Top EXCEPT !.pc = "next"])
  /\ UNCHANGED <<rax, expections, strips, symbols, fault>>

ForinNext ==
  /\ At("FORIN", "next")
  /\ LET n == Top.n
     IN  \/ /\ Return(OK)                          \* no item is left
            /\ CloseLoop(n)
            /\ UNCHANGED expections
         \/ /\ Declared(Variables, n, Ast[n].key)  \* "already defined"
            /\ Raise(n)
            /\ Return(ERROR)
            /\ UNCHANGED strips
         \/ /\ ~Declared(Variables, n, Ast[n].key)
            /\ PushVariable(Entry(n, Ast[n].key, n))
            /\ CallChild([Top EXCEPT !.pc = "body"], Ast[n].body)
            /\ UNCHANGED expections
  /\ UNCHANGED <<rax, symbols, fault>>

\* What both loops do with the code their body returned.  On an error they
\* return at once, without removing the variables of their scope.
LoopBodyEnd ==
  /\ At("FOR", "body") \/ At("FORIN", "body")
  /\ ret # Running
  /\ LET n == Top.n
     IN  \/ /\ ret = ERROR
            /\ Return(ERROR)
            /\ UNCHANGED <<rax, strips>>
         \/ /\ GoesOn(n)
            /\ Goto([Top EXCEPT !.pc = IF Kind(n) = "FOR" THEN "incr" ELSE "next"])
            /\ IF ret = CONTINUE THEN ClearRax ELSE UNCHANGED rax
            /\ IF Kind(n) = "FORIN" THEN RemoveByScope(n) ELSE UNCHANGED strips
         \/ /\ ret = BREAK /\ IsFor(n)
            /\ Return(OK)
            /\ ClearRax
            /\ CloseLoop(n)
         \/ /\ ret \in {THROW, RETURN} \/ (ret \in {BREAK, CONTINUE} /\ ~IsFor(n))
            /\ Return(ret)
            /\ CloseLoop(n)
            /\ UNCHANGED rax
  /\ UNCHANGED <<expections, symbols, fault>>

-----------------------------------------------------------------------------
\* not_execute_try
TryBody ==
  /\ At("TRY", "start")
  /\ CallChild([Top EXCEPT !.pc = "body"], Ast[Top.n].body)
  /\ UNCHANGED <<rax, expections, strips, symbols, fault>>

TryBodyEnd ==
  /\ At("TRY", "body")
  /\ ret # Running
  /\ IF Handles(ret)
     THEN Goto([Top EXCEPT !.pc = "catch", !.code = ret, !.b = CellAt(1)])
     ELSE Return(ret)
  /\ UNCHANGED <<rax, expections, strips, symbols, fault>>

\* The loop over the queued exceptions is at its end.
TryEnd ==
  /\ At("TRY", "catch")
  /\ Top.b = 0
  /\ Return(RemainingCode(Top.code))
  /\ UNCHANGED <<rax, expections, strips, symbols, fault>>

\* The loop steps to the cell it saved, which may have been freed since.
TryDangling ==
  /\ At("TRY", "catch")
  /\ Top.b \notin UsedCells \cup {0}
  /\ fault' = "use after free"
  /\ UNCHANGED <<stack, ret, val, rax, expections, strips, symbols>>

\* The clause does not take this exception (not_call_parameters_check_by_one_arg
\* returns 0): there is no clause, it has no parameter, or a reference parameter
\* has another type.
Catches(i) == At("TRY", "catch") /\ i \in DOMAIN expections /\ Top.b = expections[i].cell

TryPass ==
  \E i \in DOMAIN expections :
    /\ Catches(i)
    /\ LET clause == Ast[Top.n].other
       IN  \/ clause = None
           \/ clause # None /\ (Ast[clause].key = None \/ Has(clause, "reference"))
    /\ Goto([Top EXCEPT !.b = CellAfter(i)])
    /\ UNCHANGED <<rax, expections, strips, symbols, fault>>

\* Any other failure to check the parameter's type is an error of its own.
TryMismatch ==
  \E i \in DOMAIN expections :
    /\ Catches(i)
    /\ Ast[Top.n].other # None
    /\ Has(Ast[Top.n].other, "typed") \/ Has(Ast[Top.n].other, "reference")
    /\ Raise(Ast[Top.n].other)
    /\ Return(ERROR)
    /\ UNCHANGED <<rax, strips, symbols, fault>>

\* The clause takes the exception.  not_strip_input_push compares keys only and
\* silently leaves an input of the same name in place; not_strip_input_find looks
\* for scope and key, and its result is used without a test for NULL.
TryCatch ==
  \E i \in DOMAIN expections :
    /\ Catches(i)
    /\ LET clause == Ast[Top.n].other
           key == Ast[clause].key
           inputs == IF \E e \in Inputs : e.key = key THEN Inputs
                     ELSE Inputs \cup {Entry(clause, key, expections[i].value)}
           pushed == {e \in inputs : ~Declared(Variables, e.scope, e.key)}
       IN  /\ clause # None
           /\ key # None
           /\ expections' = Unqueued(i)
           /\ IF Declared(inputs, clause, key)
              THEN /\ strips' = [strips EXCEPT ![Level] =
                        [variables |-> @.variables \cup
                                       {e \in pushed : e.scope = clause /\ e.key = key},
                         inputs |-> inputs]]
                   /\ CallChild([Top EXCEPT !.pc = "handling", !.b = CellAfter(i),
                                            !.expection = expections[i].value],
                                Ast[clause].body)
                   /\ UNCHANGED fault
              ELSE /\ fault' = "null dereference"
                   /\ UNCHANGED <<stack, ret, val, strips>>
    /\ UNCHANGED <<rax, symbols>>

\* The end of the catch body: a negative code is returned as it is, with the
\* parameter left among the variables.
TryCatchEnd ==
  /\ At("TRY", "handling")
  /\ ret # Running
  /\ IF ret < 0 THEN Return(ret) /\ UNCHANGED strips
     ELSE /\ Goto([Top EXCEPT !.pc = "catch", !.expection = None])
          /\ RemoveByScope(Ast[Top.n].other)
  /\ UNCHANGED <<rax, expections, symbols, fault>>

-----------------------------------------------------------------------------
\* The program has ended, or died.
Ended == stack = <<>> \/ fault # "none"
Terminated == Ended /\ UNCHANGED vars

Step == \/ Evaluate \/ CallFun \/ FunStart \/ FunEnd \/ NextItem \/ ItemsEnd
        \/ CheckType \/ Var \/ Expr \/ If \/ IfEnd \/ Throw \/ ReturnStatement \/ Jump
        \/ ForInit \/ ForCondition \/ ForIncrement
        \/ ForinIterator \/ ForinNext \/ LoopBodyEnd
        \/ TryBody \/ TryBodyEnd \/ TryEnd \/ TryDangling \/ TryPass
        \/ TryMismatch \/ TryCatch \/ TryCatchEnd

Next == Step \/ Terminated

\* One thread runs the program, and nothing blocks it.
Spec == Init /\ [][Next]_vars /\ WF_vars(Step)

-----------------------------------------------------------------------------
Codes == {OK, ERROR, BREAK, CONTINUE, THROW, RETURN}
Points == {"start", "checked", "body", "branch", "cond", "incr", "next", "catch", "handling"}
Frames == [n : Node, pc : Points, i : Nat, code : {OK, ERROR, THROW},
           expection : Node \cup {None}, b : Nat]
Cells == [cell : Nat \ {0}, value : Node]
Entries == [scope : Node, key : STRING, value : Node]

(* The types of the variables. *)
TypeOK ==
  /\ stack \in Seq(Frames)
  /\ ret \in Codes \cup {Running}
  /\ val \in Node \cup {Fail, None}
  /\ rax \in Node \cup {None}
  /\ expections \in Seq(Cells)
  /\ strips \in Seq([variables : SUBSET Entries, inputs : SUBSET Entries])
  /\ symbols \subseteq Entries
  /\ fault \in {"none", "released", "use after free", "null dereference"}

(* A failure always has its cause in the queue: whenever a -1, a -4 or a
   NOT_PTR_ERROR is on its way out, at least one exception is queued, so that main
   has something to print and a try something to catch.  A try whose catch body
   emptied the queue must therefore not pass on the code it started with. *)
FailureHasCause == ret \in {ERROR, THROW} \/ val = Fail => expections # <<>>

(* The value of a return statement waits in rax only while the -5 is on its way to
   the call: no later call, and no break or continue, can mistake it for its own. *)
ReturnValueInFlight == rax # None /\ Kind(rax) = "RETURN" => ret = RETURN

\* The activation each frame runs in, and the scopes open in an activation.
Activation(i) == 1 + Cardinality({j \in 1..i : Kind(stack[j].n) = "FUN"})
OpenScopes(level) ==
  LET mine == {stack[i] : i \in {j \in 1..Depth : Activation(j) = level}}
  IN  {f.n : f \in mine} \cup {Ast[f.n].other : f \in {g \in mine : g.pc = "handling"}}

(* Whatever code a body or function is left with, its variables are gone with it:
   the activation record never holds a variable of a block that is not running. *)
BlockScopesClosed ==
  \A level \in DOMAIN strips : \A e \in strips[level].variables :
     Kind(e.scope) \in {"BODY", "FUN"} => e.scope \in OpenScopes(level)

(* A loop that is left by anything but an error (exhausted, break, a labelled jump
   to an outer loop, throw, return) leaves none of its variables behind. *)
LoopScopesClosed ==
  [][(stack # <<>> /\ Top.n \in Loops /\ Len(stack') < Depth /\ ret' # ERROR)
       => \A e \in strips'[Level].variables : e.scope # Top.n]_vars

(* A labelled break or continue in flight is for a loop that is still running in
   the same activation: it cannot unwind past its target. *)
JumpHasTarget ==
  ret \in {BREAK, CONTINUE} /\ rax # None =>
     \E i \in 1..Depth : stack[i].n = rax /\ Activation(i) = Level

\* What the labels of a program have to be like for that: around[n] are loops that n
\* stands in, inside its function, and a label names one of them by its own label.
LabelsNameLoopsAround(around) ==
  /\ \A n \in Node : around[n] \subseteq
       IF Kind(n) \in {"FUN", "MODULE"} \/ Parent[n] = None THEN {}
       ELSE around[Parent[n]] \cup ({Parent[n]} \cap Loops)
  /\ \A n \in Node :
       (/\ Kind(n) \in {"BREAK", "CONTINUE"}
        /\ Ast[n].label # None
        /\ LabelTarget[n] \in Loops) =>
          LabelTarget[n] \in around[n] /\ Ast[LabelTarget[n]].label = Ast[n].label

(* Exceptions do not linger: while no failure is on its way and no try is going
   through the queue, the queue is empty, so that no later try finds an exception
   that was not raised in its own body.  This is about programs that satisfy
   ClausesTakeAll and ChecksConclude; in others the code does leave exceptions. *)
ExceptionsInFlight ==
  \/ expections = <<>>
  \/ ret \in {ERROR, THROW}
  \/ val = Fail
  \/ stack # <<>> /\ Top.pc = "catch"

\* Clauses that refuse no exception, and no call through which a throw becomes a value.
ClausesTakeAll ==
  \A n \in Node : /\ ~Has(n, "operator")
                  /\ Kind(n) = "CATCH" => ~Has(n, "typed") /\ ~Has(n, "reference")

\* No variable of a generic class: every check of a declared type comes to an answer.
ChecksConclude == \A n \in Node : ~Has(n, "generic")

(* The variable a catch body reads as its parameter is the exception being handled. *)
CatchParameterHoldsThrown ==
  \A i \in 1..Depth : stack[i].pc = "handling" =>
     LET clause == Ast[stack[i].n].other
     IN  Entry(clause, Ast[clause].key, stack[i].expection)
           \in strips[Activation(i)].variables

(* A matching catch clause runs: handling an exception never kills the process. *)
NoNullDereference == fault # "null dereference"

(* A loop starts without variables of its own scope, so that declaring its loop
   variable is not refused as a second declaration. *)
LoopStartsClean ==
  stack # <<>> /\ Top.n \in Loops /\ Top.pc = "start" /\ Top.i = 0 =>
     \A e \in Variables : e.scope # Top.n

(* A labelled break or continue names the loop it stands in. *)
Encloses(loop, n) ==
  LET up[m \in Node \cup {None}] == m # None /\ (m = loop \/ up[Parent[m]]) IN up[n]
LabelNamesEnclosingLoop ==
  \A n \in DOMAIN LabelTarget :
     stack # <<>> /\ Top.n = n =>
        /\ LabelTarget[n] # None
        /\ Encloses(LabelTarget[n], n)

(* A failure that is on its way out reaches a catch body or the end of the program. *)
FailureIsResolved ==
  ret \in {ERROR, THROW} ~> Ended \/ (stack # <<>> /\ Top.pc = "start" /\ Depth > 1
                                       /\ stack[Depth - 1].pc = "handling")

(* A program without loops ends, whatever its expressions do: going through the
   queued exceptions comes to an end although catch bodies raise new ones.  This is
   about programs in which no catch body leaves an exception behind without failing;
   where one calls an operator method that throws, or declares a variable of a generic
   class, the try may find the new exception after the old, and go on for ever. *)
Terminates == <>Ended
=============================================================================
