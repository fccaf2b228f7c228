----------------------------- MODULE MCExecute -----------------------------
(***************************************************************************)
(* The programs the runs of module Execute interpret.                      *)
(***************************************************************************)
EXTENDS Execute, TLC

Plain == [kind |-> "EXPR", items |-> <<>>, body |-> None, other |-> None,
          key |-> None, label |-> None, callee |-> None, flags |-> {}]

Module(items)      == [Plain EXCEPT !.kind = "MODULE", !.items = items]
Body(items)        == [Plain EXCEPT !.kind = "BODY", !.items = items]
Leaf(kind)         == [Plain EXCEPT !.kind = kind]
Declare(kind, key) == [Plain EXCEPT !.kind = kind, !.key = key]
Call(kind, f)      == [Plain EXCEPT !.kind = kind, !.callee = f]
Exit(kind, label)  == [Plain EXCEPT !.kind = kind, !.label = label]
Fun(key, body)     == [Plain EXCEPT !.kind = "FUN", !.key = key, !.body = body]
Branch(then, else) == [Plain EXCEPT !.kind = "IF", !.body = then, !.other = else]
Try(body, clause)  == [Plain EXCEPT !.kind = "TRY", !.body = body, !.other = clause]
Clause(key, body)  == [Plain EXCEPT !.kind = "CATCH", !.key = key, !.body = body]
For(label, items, body) ==
  [Plain EXCEPT !.kind = "FOR", !.label = label, !.items = items, !.body = body]
Forin(label, key, body) ==
  [Plain EXCEPT !.kind = "FORIN", !.label = label, !.key = key, !.body = body]

(* Nested loops of both kinds, labelled jumps to the outer one, and a function:

     var f = fun (p) { .. };
     for out (var i = ..; ..; f(i)) {
        try {
           for (var x in ..) {
              var v: type = ..;
              if (..) break out; else { if (..) continue out; else break; }
           }
        }
        catch (c) { if (..) continue nowhere; }
     }
     f: {
        for (var j = ..; ..; ..) { if (..) return j; else continue; }
        try { throw .. } catch (e) { return .. }
     }                                                                       *)
LoopProgram ==
  "module" :> Module(<<"varF", "out">>)
  @@ "varF" :> [Declare("VAR", "f") EXCEPT !.body = "f"]
  @@ "out" :> [For("out", <<"i">>, "outBody") EXCEPT !.callee = "f"]
  @@ "i" :> Declare("VAR", "i")
  @@ "outBody" :> Body(<<"tryIn">>)
  @@ "tryIn" :> Try("tryInBody", "catchIn")
  @@ "tryInBody" :> Body(<<"in">>)
  @@ "catchIn" :> Clause("c", "catchInBody")
  @@ "catchInBody" :> Body(<<"if4">>)
  @@ "if4" :> Branch("then4", None)
  @@ "then4" :> Body(<<"lost">>)
  @@ "lost" :> Exit("CONTINUE", "nowhere")
  @@ "in" :> Forin(None, "x", "inBody")
  @@ "inBody" :> Body(<<"v", "if1">>)
  @@ "v" :> [Declare("VAR", "v") EXCEPT !.flags = {"typed"}]
  @@ "if1" :> Branch("then1", "else1")
  @@ "then1" :> Body(<<"breakOut">>)
  @@ "breakOut" :> Exit("BREAK", "out")
  @@ "else1" :> Body(<<"if2">>)
  @@ "if2" :> Branch("then2", "else2")
  @@ "then2" :> Body(<<"continueOut">>)
  @@ "continueOut" :> Exit("CONTINUE", "out")
  @@ "else2" :> Body(<<"break">>)
  @@ "break" :> Exit("BREAK", None)
  @@ "f" :> Fun("p", "fBody")
  @@ "fBody" :> Body(<<"for", "try">>)
  @@ "for" :> For(None, <<"j">>, "forBody")
  @@ "j" :> Declare("VAR", "j")
  @@ "forBody" :> Body(<<"if3">>)
  @@ "if3" :> Branch("then3", "else3")
  @@ "then3" :> Body(<<"return1">>)
  @@ "return1" :> Leaf("RETURN")
  @@ "else3" :> Body(<<"continue">>)
  @@ "continue" :> Exit("CONTINUE", None)
  @@ "try" :> Try("tryBody", "catch")
  @@ "tryBody" :> Body(<<"throw">>)
  @@ "throw" :> Leaf("THROW")
  @@ "catch" :> Clause("e", "catchBody")
  @@ "catchBody" :> Body(<<"return2">>)
  @@ "return2" :> Leaf("RETURN")

\* The loops a node stands in, going outwards to its function.  LoopProgram is a program
\* that the theorems about labelled jumps and about queued exceptions are about.
Around ==
  LET outwards[n \in Node] ==
        IF Kind(n) \in {"FUN", "MODULE"} \/ Parent[n] = None THEN {}
        ELSE outwards[Parent[n]] \cup ({Parent[n]} \cap Loops)
  IN  outwards
ASSUME LoopProgramAssumption ==
  Ast = LoopProgram => LabelsNameLoopsAround(Around) /\ ClausesTakeAll
                         /\ ChecksConclude

(* Exceptions without loops: a break out of place, a throw in an operator method,
   a clause of each kind, a rethrow, a try inside a catch body, and a variable of a
   generic class:

     var g = fun (q) { break; };
     var h = fun { throw ..; };
     var f = fun (p) { try { g(..); } catch (a) { if (..) throw ..; } };
     try {
        try {
           try { var u: generic(..) = ..; f(..); x + y /* calls h */; }
           catch (b: type) { static var s = ..; }
        }
        catch (c) { try { .. } catch (ref d: type) { } var w = ..; }
     }                                                                       *)
TryProgram ==
  "module" :> Module(<<"varG", "varH", "varF", "try1">>)
  @@ "varG" :> [Declare("VAR", "g") EXCEPT !.body = "g"]
  @@ "g" :> Fun("q", "gBody")
  @@ "gBody" :> Body(<<"break">>)
  @@ "break" :> Exit("BREAK", None)
  @@ "varH" :> [Declare("VAR", "h") EXCEPT !.body = "h"]
  @@ "h" :> Fun(None, "hBody")
  @@ "hBody" :> Body(<<"throw1">>)
  @@ "throw1" :> Leaf("THROW")
  @@ "varF" :> [Declare("VAR", "f") EXCEPT !.body = "f"]
  @@ "f" :> Fun("p", "fBody")
  @@ "fBody" :> Body(<<"try4">>)
  @@ "try4" :> Try("try4Body", "catchA")
  @@ "try4Body" :> Body(<<"callG">>)
  @@ "callG" :> Call("EXPR", "g")
  @@ "catchA" :> Clause("a", "catchABody")
  @@ "catchABody" :> Body(<<"ifA">>)
  @@ "ifA" :> Branch("thenA", None)
  @@ "thenA" :> Body(<<"throw2">>)
  @@ "throw2" :> Leaf("THROW")
  @@ "try1" :> Try("try1Body", None)
  @@ "try1Body" :> Body(<<"try2">>)
  @@ "try2" :> Try("try2Body", "catchC")
  @@ "try2Body" :> Body(<<"try3">>)
  @@ "try3" :> Try("try3Body", "catchB")
  @@ "try3Body" :> Body(<<"varU", "callF", "callH">>)
  @@ "varU" :> [Declare("VAR", "u") EXCEPT !.flags = {"typed", "generic"}]
  @@ "callF" :> Call("EXPR", "f")
  @@ "callH" :> [Call("EXPR", "h") EXCEPT !.flags = {"operator"}]
  @@ "catchB" :> [Clause("b", "catchBBody") EXCEPT !.flags = {"typed"}]
  @@ "catchBBody" :> Body(<<"varS">>)
  @@ "varS" :> [Declare("VAR", "s") EXCEPT !.flags = {"static"}]
  @@ "catchC" :> Clause("c", "catchCBody")
  @@ "catchCBody" :> Body(<<"try5", "varW">>)
  @@ "try5" :> Try("try5Body", "catchD")
  @@ "try5Body" :> Body(<<"expr">>)
  @@ "expr" :> Leaf("EXPR")
  @@ "catchD" :> [Clause("d", "catchDBody") EXCEPT !.flags = {"reference"}]
  @@ "catchDBody" :> Body(<<>>)
  @@ "varW" :> Declare("VAR", "w")

(* A try that runs again in the same activation:
     for (..) { try { if (..) throw 1; else throw 2; } catch (ex) { } }      *)
RetryProgram ==
  "module" :> Module(<<"for">>)
  @@ "for" :> For(None, <<>>, "forBody")
  @@ "forBody" :> Body(<<"try">>)
  @@ "try" :> Try("tryBody", "catch")
  @@ "tryBody" :> Body(<<"if">>)
  @@ "if" :> Branch("then", "else")
  @@ "then" :> Body(<<"throw1">>)
  @@ "throw1" :> Leaf("THROW")
  @@ "else" :> Body(<<"throw2">>)
  @@ "throw2" :> Leaf("THROW")
  @@ "catch" :> Clause("ex", "catchBody")
  @@ "catchBody" :> Body(<<>>)

(* Two try statements with a parameter of the same name:
     try { throw 1; } catch (ex) { }  try { throw 2; } catch (ex) { }        *)
SameNameProgram ==
  "module" :> Module(<<"try1", "try2">>)
  @@ "try1" :> Try("body1", "catch1")
  @@ "body1" :> Body(<<"throw1">>)
  @@ "throw1" :> Leaf("THROW")
  @@ "catch1" :> Clause("ex", "catchBody1")
  @@ "catchBody1" :> Body(<<>>)
  @@ "try2" :> Try("body2", "catch2")
  @@ "body2" :> Body(<<"throw2">>)
  @@ "throw2" :> Leaf("THROW")
  @@ "catch2" :> Clause("ex", "catchBody2")
  @@ "catchBody2" :> Body(<<>>)

(* A loop that is left by an error, and started again in the same activation:
     for (..) { try { for (var a = ..; ..; ..) { .. } } catch (ex) { } }      *)
RestartProgram ==
  "module" :> Module(<<"outer">>)
  @@ "outer" :> For(None, <<>>, "outerBody")
  @@ "outerBody" :> Body(<<"try">>)
  @@ "try" :> Try("tryBody", "catch")
  @@ "tryBody" :> Body(<<"inner">>)
  @@ "inner" :> For(None, <<"a">>, "innerBody")
  @@ "a" :> Declare("VAR", "a")
  @@ "innerBody" :> Body(<<"expr">>)
  @@ "expr" :> Leaf("EXPR")
  @@ "catch" :> Clause("ex", "catchBody")
  @@ "catchBody" :> Body(<<>>)

(* The try/catch sample of README.md and the loop after it, the throw guarded by
   its own condition so that `continue loop1' can run:
     try { for loop1 (var a ..) { if (..) { throw ..; } else { continue loop1; } } }
     catch (ex) { .. }
     for loop1 (var key in ..) { .. }                                          *)
SampleProgram ==
  "module" :> Module(<<"try", "forin">>)
  @@ "try" :> Try("tryBody", "catch")
  @@ "tryBody" :> Body(<<"for">>)
  @@ "for" :> For("loop1", <<"a">>, "forBody")
  @@ "a" :> Declare("VAR", "a")
  @@ "forBody" :> Body(<<"if">>)
  @@ "if" :> Branch("then", "else")
  @@ "then" :> Body(<<"throw">>)
  @@ "throw" :> Leaf("THROW")
  @@ "else" :> Body(<<"continue">>)
  @@ "continue" :> Exit("CONTINUE", "loop1")
  @@ "catch" :> Clause("ex", "catchBody")
  @@ "catchBody" :> Body(<<"print1">>)
  @@ "print1" :> Leaf("EXPR")
  @@ "forin" :> Forin("loop1", "key", "forinBody")
  @@ "forinBody" :> Body(<<"print2">>)
  @@ "print2" :> Leaf("EXPR")
=============================================================================
