--------------------------- MODULE ExecuteProofs ---------------------------
(***************************************************************************)
(* In every program, a failure that is on its way out has its cause in the *)
(* queue of exceptions, and the value of a return statement is in rax only *)
(* while the return is on its way out.                                     *)
(*                                                                         *)
(* Both rest on who may see a return code (Control): a function of execute.c *)
(* that has called another one waits at one of a few points, so that at all *)
(* other points no code is pending and the queue and rax may be changed.   *)
(*                                                                         *)
(* In a program whose catch clauses refuse no exception (ClausesTakeAll)   *)
(* and whose checks of declared types come to an answer (ChecksConclude),  *)
(* no exception lingers in the queue, and the walk of a try over the queue *)
(* meets no freed cell: at most one exception is ever queued (OneInFlight). *)
(***************************************************************************)
EXTENDS Execute, SequenceTheorems, TLAPS

\* The points at which a function waits for the code of the function it has called.
Waits(f) ==
  <<Kind(f.n), f.pc>> \in
     {<<"MODULE", "start">>, <<"BODY", "start">>, <<"FOR", "start">>, <<"IF", "branch">>,
      <<"FOR", "body">>, <<"FORIN", "body">>, <<"TRY", "body">>, <<"TRY", "handling">>,
      <<"FUN", "body">>}

\* A frame with another on it waits for its code, or has called a function from an
\* expression; a pending code or value is for the top frame.
Control ==
  /\ stack # <<>> => Kind(stack[1].n) = "MODULE"
  /\ \A i \in 1..Depth - 1 : IF Kind(stack[i + 1].n) = "FUN" THEN EvaluatesAt(stack[i])
                                                           ELSE Waits(stack[i])
  /\ stack # <<>> /\ ret # Running => Waits(stack[Depth])
  /\ stack # <<>> /\ val # None => EvaluatesAt(stack[Depth])

Types == /\ stack \in Seq(Frames)
         /\ ret \in Codes \cup {Running}
         /\ val \in Node \cup {Fail, None}

IInv == /\ Types
        /\ rax \in Node \cup {None}
        /\ expections \in Seq(Cells)
        /\ Control
        /\ FailureHasCause
        /\ ReturnValueInFlight

-----------------------------------------------------------------------------
(* What the program's tree looks like around a node. *)
LEMMA AstFacts ==
  ASSUME NEW n \in Node
  PROVE  /\ Kind(n) \in Kinds
         /\ Items(n) \in Seq(Node)
         /\ \A i \in 1..Len(Items(n)) : /\ Items(n)[i] \in Node
                                        /\ Kind(Items(n)[i]) \notin {"MODULE", "CATCH", "FUN"}
         /\ Kind(n) \in {"IF", "FOR", "FORIN", "TRY", "CATCH", "FUN"} =>
              Ast[n].body \in Node /\ Kind(Ast[n].body) = "BODY"
         /\ Kind(n) = "IF" /\ Ast[n].other # None =>
              Ast[n].other \in Node /\ Kind(Ast[n].other) \in {"BODY", "IF"}
         /\ Kind(n) = "TRY" /\ Ast[n].other # None =>
              Ast[n].other \in Node /\ Kind(Ast[n].other) = "CATCH"
         /\ Ast[n].callee # None => Ast[n].callee \in Node /\ Kind(Ast[n].callee) = "FUN"
<1>1. Ast[n] \in AstRecords
  BY AstAssumption
<1>2. /\ Kind(n) \in Kinds /\ Items(n) \in Seq(Node)
      /\ Ast[n].body \in Node \cup {None}
      /\ Ast[n].other \in Node \cup {None}
      /\ Ast[n].callee \in Node \cup {None}
  BY <1>1 DEF AstRecords, Kind, Items
<1>3. DOMAIN Items(n) = 1..Len(Items(n)) /\ \A i \in 1..Len(Items(n)) : Items(n)[i] \in Node
  BY <1>2
<1> QED
  BY <1>2, <1>3, AstAssumption

(* A frame of the stack. *)
LEMMA FrameFacts ==
  ASSUME NEW f \in Frames
  PROVE  /\ f.n \in Node /\ f.pc \in Points /\ f.i \in Nat /\ f.b \in Nat
         /\ f.code \in {OK, ERROR, THROW}
  BY DEF Frames

(* The same frame at another point, and further along. *)
LEMMA FrameAt ==
  ASSUME NEW f \in Frames, NEW pc \in Points
  PROVE  LET g == [f EXCEPT !.pc = pc] IN g \in Frames /\ g.n = f.n /\ g.pc = pc
  BY DEF Frames

LEMMA FrameNext ==
  ASSUME NEW f \in Frames
  PROVE  LET g == [f EXCEPT !.i = @ + 1] IN g \in Frames /\ g.n = f.n /\ g.pc = f.pc
  BY DEF Frames

(* The frame of a function that has just been called. *)
LEMMA NewFrame ==
  ASSUME NEW n \in Node
  PROVE  /\ Frame(n, "start") \in Frames
         /\ Frame(n, "start").n = n /\ Frame(n, "start").pc = "start"
  BY DEF Frame, Frames, Points

(* The stack has a top frame while it has any. *)
LEMMA TopFacts ==
  ASSUME Types, stack # <<>>
  PROVE  /\ Depth \in Nat \ {0} /\ Depth \in 1..Depth
         /\ Top = stack[Depth] /\ Top \in Frames
         /\ Top.n \in Node /\ Top.pc \in Points
         /\ \A i \in 1..Depth : stack[i] \in Frames
<1>1. stack \in Seq(Frames)
  BY DEF Types
<1>2. Len(stack) \in Nat \ {0} /\ \A i \in 1..Len(stack) : stack[i] \in Frames
  BY <1>1
<1>3. Len(stack) \in 1..Len(stack)
  BY <1>2
<1>4. Depth = Len(stack) /\ Top = stack[Len(stack)]
  BY DEF Depth, Top
<1>5. Top \in Frames
  BY <1>2, <1>3, <1>4
<1> QED
  BY <1>2, <1>3, <1>4, <1>5, FrameFacts

(* A call: the top frame becomes f, and the frame of n comes on it. *)
LEMMA CallStep ==
  ASSUME Types, Control, stack # <<>>, NEW f \in Frames, f.n = Top.n,
         NEW n \in Node, CallChild(f, n),
         IF Kind(n) = "FUN" THEN EvaluatesAt(f) ELSE Waits(f)
  PROVE  Types' /\ Control'
<1>1. stack \in Seq(Frames) /\ Depth \in Nat \ {0} /\ Depth \in 1..Depth
  BY TopFacts DEF Types
<1> DEFINE s == [stack EXCEPT ![Depth] = f]
<1>2. /\ s \in Seq(Frames) /\ Len(s) = Depth
      /\ \A i \in 1..Depth : s[i] = IF i = Depth THEN f ELSE stack[i]
  BY <1>1 DEF Depth
<1>3. stack' = Append(s, Frame(n, "start")) /\ ret' = Running /\ val' = None
  BY DEF CallChild
<1> HIDE DEF s
<1>4. /\ stack' \in Seq(Frames) /\ Depth' = Depth + 1
      /\ \A i \in 1..Depth : stack'[i] = s[i]
      /\ stack'[Depth + 1] = Frame(n, "start")
  BY <1>2, <1>3, NewFrame DEF Depth
<1>5. Types'
  BY <1>3, <1>4 DEF Types
<1>6. \A i \in 1..Depth : stack'[i].n = stack[i].n
  BY <1>1, <1>2, <1>4, TopFacts
<1>7. stack' # <<>> => Kind(stack'[1].n) = "MODULE"
  BY <1>1, <1>6 DEF Control
<1>8. ASSUME NEW i \in 1..Depth' - 1
      PROVE  IF Kind(stack'[i + 1].n) = "FUN" THEN EvaluatesAt(stack'[i]) ELSE Waits(stack'[i])
  <2>1. CASE i = Depth
    BY <1>1, <1>2, <1>4, <2>1, NewFrame
  <2>2. CASE i # Depth
    <3>1. /\ i \in 1..Depth - 1 /\ i + 1 \in 1..Depth /\ i \in 1..Depth
          /\ stack'[i] = stack[i] /\ stack'[i + 1].n = stack[i + 1].n
      BY <1>1, <1>2, <1>4, <1>6, <2>2
    <3> QED
      BY <3>1 DEF Control
  <2> QED
    BY <2>1, <2>2
<1> QED
  BY <1>3, <1>5, <1>7, <1>8 DEF Control

(* What remains of the stack when the top frame goes. *)
LEMMA PopStep ==
  ASSUME Types, stack # <<>>, stack' = Pop(stack)
  PROVE  /\ stack' \in Seq(Frames) /\ Depth' = Depth - 1 /\ Depth \in Nat \ {0}
         /\ \A i \in 1..Depth - 1 : stack'[i] = stack[i]
         /\ stack' # <<>> => Depth > 1
<1> DEFINE m == Depth - 1
<1>1. Depth \in Nat \ {0} /\ m \in Nat /\ \A i \in 1..m : stack[i] \in Frames
  BY TopFacts
<1> HIDE DEF m
<1>2. /\ SubSeq(stack, 1, m) \in Seq(Frames)
      /\ Len(SubSeq(stack, 1, m)) = IF 1 <= m THEN m - 1 + 1 ELSE 0
      /\ \A i \in 1..m - 1 + 1 : SubSeq(stack, 1, m)[i] = stack[1 + i - 1]
  BY <1>1, SubSeqProperties
<1>3. stack' = SubSeq(stack, 1, m)
  BY DEF Pop, m, Depth
<1>4. m - 1 + 1 = m /\ (1 <= m \/ m = 0) /\ \A i \in 1..m : 1 + i - 1 = i
  BY <1>1
<1>5. stack' \in Seq(Frames) /\ Len(stack') = m /\ \A i \in 1..m : stack'[i] = stack[i]
  BY <1>1, <1>2, <1>3, <1>4
<1>6. stack' # <<>> => m # 0
  BY <1>5
<1> QED
  BY <1>1, <1>5, <1>6 DEF m, Depth

(* A return: the top frame goes, and its code is for the frame below. *)
LEMMA ReturnStep ==
  ASSUME Types, Control, stack # <<>>, Kind(Top.n) # "FUN",
         NEW code \in Codes, Return(code)
  PROVE  Types' /\ Control'
<1>1. stack' = Pop(stack) /\ ret' = code /\ val' = None
  BY DEF Return
<1>2. /\ stack' \in Seq(Frames) /\ Depth' = Depth - 1 /\ Depth \in Nat \ {0}
      /\ \A i \in 1..Depth - 1 : stack'[i] = stack[i]
      /\ stack' # <<>> => Depth > 1
  BY <1>1, PopStep
<1>3. Types'
  BY <1>1, <1>2 DEF Types
<1>4. ASSUME stack' # <<>>
      PROVE  Waits(stack'[Depth']) /\ stack'[1] = stack[1]
  <2>1. /\ Depth - 1 \in 1..Depth - 1 /\ 1 \in 1..Depth - 1
        /\ Kind(stack[(Depth - 1) + 1].n) # "FUN"
    BY <1>2, <1>4 DEF Top
  <2> QED
    BY <1>2, <2>1 DEF Control
<1>5. ASSUME NEW i \in 1..Depth' - 1
      PROVE  IF Kind(stack'[i + 1].n) = "FUN" THEN EvaluatesAt(stack'[i]) ELSE Waits(stack'[i])
  <2>1. /\ i \in 1..Depth - 1 /\ stack'[i] = stack[i] /\ stack'[i + 1] = stack[i + 1]
    BY <1>2
  <2> QED
    BY <2>1 DEF Control
<1> QED
  BY <1>1, <1>3, <1>4, <1>5 DEF Control

(* The top frame goes on at another point. *)
LEMMA GotoStep ==
  ASSUME Types, Control, stack # <<>>, NEW f \in Frames, f.n = Top.n, Goto(f)
  PROVE  Types' /\ Control'
<1>1. /\ stack \in Seq(Frames) /\ Depth \in Nat \ {0} /\ Depth \in 1..Depth
      /\ Top = stack[Depth]
  BY TopFacts DEF Types
<1>2. stack' = [stack EXCEPT ![Depth] = f] /\ ret' = Running /\ val' = None
  BY DEF Goto
<1>3. /\ stack' \in Seq(Frames) /\ Depth' = Depth
      /\ \A i \in 1..Depth : stack'[i] = IF i = Depth THEN f ELSE stack[i]
  BY <1>1, <1>2 DEF Depth
<1>4. Types'
  BY <1>2, <1>3 DEF Types
<1>5. \A i \in 1..Depth : stack'[i].n = stack[i].n
  BY <1>1, <1>3
<1>6. ASSUME NEW i \in 1..Depth' - 1
      PROVE  IF Kind(stack'[i + 1].n) = "FUN" THEN EvaluatesAt(stack'[i]) ELSE Waits(stack'[i])
  <2>1. /\ i \in 1..Depth - 1 /\ stack'[i] = stack[i] /\ stack'[i + 1].n = stack[i + 1].n
    BY <1>1, <1>3, <1>5
  <2> QED
    BY <2>1 DEF Control
<1> QED
  BY <1>1, <1>2, <1>4, <1>5, <1>6 DEF Control

(* What an error or a throw does to the queue. *)
LEMMA RaiseStep ==
  ASSUME expections \in Seq(Cells), NEW n \in Node, Raise(n)
  PROVE  expections' \in Seq(Cells) /\ expections' # <<>>
<1>1. PICK c \in FreshCells : expections' = Append(expections, [cell |-> c, value |-> n])
  BY DEF Raise
<1>2. Len(expections) \in Nat
  OBVIOUS
<1>3. [cell |-> c, value |-> n] \in Cells
  BY <1>2 DEF FreshCells, Cells
<1> QED
  BY <1>1, <1>3

(* What is left of the queue is a queue, and its cells are cells. *)
LEMMA QueueFacts ==
  ASSUME expections \in Seq(Cells), NEW i \in DOMAIN expections
  PROVE  /\ Unqueued(i) \in Seq(Cells)
         /\ expections[i].value \in Node
         /\ CellAfter(i) \in Nat
<1>1. Len(expections) \in Nat /\ DOMAIN expections = 1..Len(expections)
  OBVIOUS
<1>2. \A k \in 1..Len(expections) : expections[k] \in Cells
  OBVIOUS
<1>3. \A k \in DOMAIN expections : expections[k].cell \in Nat /\ expections[k].value \in Node
  BY <1>1, <1>2 DEF Cells
<1>4. SubSeq(expections, 1, i - 1) \in Seq(Cells)
  <2>1. i - 1 \in Int /\ \A k \in 1..i - 1 : expections[k] \in Cells
    BY <1>1, <1>2
  <2> QED
    BY <2>1, SubSeqProperties
<1>5. SubSeq(expections, i + 1, Len(expections)) \in Seq(Cells)
  <2>1. i + 1 \in Int /\ \A k \in i + 1..Len(expections) : expections[k] \in Cells
    BY <1>1, <1>2
  <2> QED
    BY <1>1, <2>1, SubSeqProperties
<1>6. Unqueued(i) \in Seq(Cells)
  BY <1>4, <1>5 DEF Unqueued
<1> QED
  BY <1>3, <1>6 DEF CellAfter, CellAt

-----------------------------------------------------------------------------
HoldsReturn == rax # None /\ Kind(rax) = "RETURN"

(* At a point where nobody waits no code is pending, and rax has no return value; at a
   point where nothing is evaluated no value is pending. *)
LEMMA Quiet ==
  ASSUME IInv, stack # <<>>
  PROVE  /\ Depth \in Nat \ {0} /\ Depth \in 1..Depth /\ Top \in Frames /\ Top = stack[Depth]
         /\ Top.n \in Node
         /\ ~Waits(Top) => ret = Running
         /\ ~EvaluatesAt(Top) => val = None
         /\ ret # RETURN => ~HoldsReturn
         /\ ret \in {ERROR, THROW} \/ val = Fail => expections # <<>>
  BY TopFacts DEF IInv, Control, HoldsReturn, ReturnValueInFlight, FailureHasCause

(* The three ways to go on keep the invariant, if a failure leaves a cause and a return
   value is not left behind. *)
LEMMA Calls ==
  ASSUME IInv, stack # <<>>, NEW f \in Frames, f.n = Top.n, NEW n \in Node, CallChild(f, n),
         IF Kind(n) = "FUN" THEN EvaluatesAt(f) ELSE Waits(f),
         ret # RETURN, rax' = rax, expections' \in Seq(Cells)
  PROVE  IInv'
<1>1. Types' /\ Control'
  BY CallStep DEF IInv
<1>2. ret' = Running /\ val' = None
  BY DEF CallChild
<1>3. ~HoldsReturn /\ rax \in Node \cup {None} /\ None # Fail
  BY Quiet, AstAssumption DEF IInv
<1>4. FailureHasCause' /\ ReturnValueInFlight'
  BY <1>2, <1>3 DEF FailureHasCause, ReturnValueInFlight, HoldsReturn, Running, ERROR, THROW
<1> QED
  BY <1>1, <1>3, <1>4 DEF IInv

LEMMA Returns ==
  ASSUME IInv, stack # <<>>, Kind(Top.n) # "FUN", NEW code \in Codes, Return(code),
         rax' \in Node \cup {None},
         HoldsReturn' => code = RETURN,
         expections' \in Seq(Cells),
         code \in {ERROR, THROW} => expections' # <<>>
  PROVE  IInv'
<1>1. Types' /\ Control'
  BY ReturnStep DEF IInv
<1>2. ret' = code /\ val' = None /\ None # Fail
  BY AstAssumption DEF Return
<1>3. FailureHasCause' /\ ReturnValueInFlight'
  BY <1>2 DEF FailureHasCause, ReturnValueInFlight, HoldsReturn
<1> QED
  BY <1>1, <1>3 DEF IInv

LEMMA GoesOnAt ==
  ASSUME IInv, stack # <<>>, NEW f \in Frames, f.n = Top.n, Goto(f),
         ret # RETURN, rax' \in {rax, None},
         expections' = expections \/ expections' \in Seq(Cells)
  PROVE  IInv'
<1>1. Types' /\ Control'
  BY GotoStep DEF IInv
<1>2. ret' = Running /\ val' = None
  BY DEF Goto
<1>3. ~HoldsReturn /\ rax \in Node \cup {None} /\ None # Fail
  BY Quiet, AstAssumption DEF IInv
<1>4. FailureHasCause' /\ ReturnValueInFlight'
  BY <1>2, <1>3 DEF FailureHasCause, ReturnValueInFlight, HoldsReturn, Running, ERROR, THROW
<1>5. expections' \in Seq(Cells) /\ rax' \in Node \cup {None}
  BY <1>3 DEF IInv
<1> QED
  BY <1>1, <1>4, <1>5 DEF IInv

-----------------------------------------------------------------------------
(* Expressions and calls. *)
LEMMA EvaluateStep ==
  ASSUME IInv, Evaluate
  PROVE  IInv'
<1>1. /\ stack # <<>> /\ EvaluatesAt(Top) /\ ret = Running
      /\ stack' = stack /\ ret' = ret /\ rax' = rax
  BY DEF Evaluate, Evaluating
<1>2. /\ Top.n \in Node /\ Top = stack[Depth] /\ Top.n # Fail
      /\ Depth' = Depth
  BY <1>1, Quiet, AstAssumption DEF Depth
<1>3. Types' /\ Control'
  BY <1>1, <1>2 DEF IInv, Types, Control, Evaluate
<1>4. ReturnValueInFlight' /\ rax' \in Node \cup {None}
  BY <1>1 DEF IInv, ReturnValueInFlight
<1>5. expections' \in Seq(Cells) /\ FailureHasCause'
  <2>1. CASE val' = Top.n /\ UNCHANGED expections
    BY <1>1, <1>2, <2>1 DEF IInv, FailureHasCause, Running, ERROR, THROW
  <2>2. CASE Raise(Top.n)
    BY <1>2, <2>2, RaiseStep DEF IInv, FailureHasCause
  <2> QED
    BY <2>1, <2>2 DEF Evaluate
<1> QED
  BY <1>3, <1>4, <1>5 DEF IInv

LEMMA CallFunStep ==
  ASSUME IInv, CallFun
  PROVE  IInv'
<1>1. /\ stack # <<>> /\ EvaluatesAt(Top) /\ ret = Running
      /\ Ast[Top.n].callee # None /\ CallChild(Top, Ast[Top.n].callee)
      /\ rax' = rax /\ expections' = expections
  BY DEF CallFun, Evaluating
<1>2. Top \in Frames /\ Ast[Top.n].callee \in Node /\ Kind(Ast[Top.n].callee) = "FUN"
  BY <1>1, Quiet, AstFacts
<1> QED
  BY <1>1, <1>2, Calls DEF IInv, Running, RETURN

LEMMA FunStartStep ==
  ASSUME IInv, FunStart
  PROVE  IInv'
<1> DEFINE f == [Top EXCEPT !.pc = "body"]
<1>1. /\ stack # <<>> /\ Kind(Top.n) = "FUN" /\ Top.pc = "start"
      /\ CallChild(f, Ast[Top.n].body) /\ rax' = rax /\ expections' = expections
  BY DEF FunStart, At
<1>2. ~Waits(Top)
  BY <1>1 DEF Waits
<1>3. Top \in Frames /\ Top.n \in Node /\ ret = Running
  BY <1>1, <1>2, Quiet
<1>4. f \in Frames /\ f.n = Top.n /\ f.pc = "body"
  BY <1>3, FrameAt DEF Points
<1>5. Waits(f)
  BY <1>1, <1>4 DEF Waits
<1>6. Ast[Top.n].body \in Node /\ Kind(Ast[Top.n].body) = "BODY"
  BY <1>1, <1>3, AstFacts
<1>7. ret # RETURN /\ expections' \in Seq(Cells)
  BY <1>1, <1>3 DEF IInv, Running, RETURN
<1> HIDE DEF f
<1> QED
  BY <1>1, <1>3, <1>4, <1>5, <1>6, <1>7, Calls

LEMMA FunEndStep ==
  ASSUME IInv, FunEnd
  PROVE  IInv'
<1> DEFINE noLoop == ret \in {BREAK, CONTINUE}
           code == IF noLoop THEN ERROR ELSE IF ret = RETURN THEN OK ELSE ret
           operator == Has(stack[Depth - 1].n, "operator")
           failed == IF operator THEN code = ERROR ELSE code < 0
<1>1. /\ stack # <<>> /\ Kind(Top.n) = "FUN" /\ ret # Running
      /\ stack' = Pop(stack) /\ ret' = Running
      /\ IF noLoop THEN Raise(Top.n) ELSE UNCHANGED expections
      /\ IF failed THEN val' = Fail /\ UNCHANGED rax
                   ELSE val' = (IF rax = None THEN Top.n ELSE rax) /\ rax' = None
  BY DEF FunEnd, At, TakeRax
<1>2. /\ Depth \in Nat \ {0} /\ Depth \in 1..Depth /\ Top = stack[Depth]
      /\ Top.n \in Node /\ Fail \notin Node /\ None \notin Node /\ None # Fail
      /\ rax \in Node \cup {None} /\ ret \in Codes
  BY <1>1, Quiet, AstAssumption DEF IInv, Types
<1>3. /\ stack' \in Seq(Frames) /\ Depth' = Depth - 1
      /\ \A i \in 1..Depth - 1 : stack'[i] = stack[i]
  BY <1>1, PopStep DEF IInv
<1>4. Depth > 1
  BY <1>1, <1>2 DEF IInv, Control
<1>5. Types'
  BY <1>1, <1>2, <1>3 DEF Types
<1>6. Control'
  <2>1. stack'[1] = stack[1] /\ stack'[Depth'] = stack[Depth - 1] /\ EvaluatesAt(stack[Depth - 1])
    BY <1>1, <1>2, <1>3, <1>4 DEF IInv, Control
  <2>2. ASSUME NEW i \in 1..Depth' - 1
        PROVE  IF Kind(stack'[i + 1].n) = "FUN" THEN EvaluatesAt(stack'[i]) ELSE Waits(stack'[i])
    <3>1. i \in 1..Depth - 1 /\ stack'[i] = stack[i] /\ stack'[i + 1] = stack[i + 1]
      BY <1>2, <1>3
    <3> QED
      BY <3>1 DEF IInv, Control
  <2> QED
    BY <1>1, <2>1, <2>2 DEF IInv, Control
<1>7. expections' \in Seq(Cells) /\ (noLoop => expections' # <<>>)
  BY <1>1, <1>2, RaiseStep DEF IInv
<1>8. FailureHasCause'
  <2>1. failed => noLoop \/ ret \in {ERROR, THROW}
    BY <1>2 DEF Codes, OK, ERROR, BREAK, CONTINUE, THROW, RETURN
  <2>2. val' = Fail => failed
    BY <1>1, <1>2
  <2>3. failed => expections' # <<>>
    BY <1>1, <1>7, <2>1, Quiet
  <2> QED
    BY <1>1, <2>2, <2>3 DEF FailureHasCause, Running, ERROR, THROW
<1>9. rax' \in Node \cup {None} /\ ReturnValueInFlight'
  <2>1. ret = RETURN => ~failed
    BY DEF OK, ERROR, BREAK, CONTINUE, RETURN
  <2>2. ~HoldsReturn'
    BY <1>1, <2>1, Quiet DEF HoldsReturn
  <2> QED
    BY <1>1, <1>2, <2>2 DEF ReturnValueInFlight, HoldsReturn
<1> QED
  BY <1>5, <1>6, <1>7, <1>8, <1>9 DEF IInv

-----------------------------------------------------------------------------
(* The items of a module or a body. *)
LEMMA NextItemStep ==
  ASSUME IInv, NextItem
  PROVE  IInv'
<1> DEFINE f == [Top EXCEPT !.i = @ + 1]
           n == Items(Top.n)[Top.i + 1]
<1>1. /\ stack # <<>> /\ Kind(Top.n) \in {"MODULE", "BODY"} /\ Top.pc = "start"
      /\ ret \in {Running, OK} /\ Top.i < Len(Items(Top.n))
      /\ CallChild(f, n) /\ rax' = rax /\ expections' = expections
  BY DEF NextItem, At
<1>2. Top \in Frames /\ Top.n \in Node /\ Top.i \in Nat
  BY <1>1, Quiet, FrameFacts
<1>3. f \in Frames /\ f.n = Top.n /\ f.pc = "start"
  BY <1>1, <1>2, FrameNext
<1>4. Waits(f)
  BY <1>1, <1>3 DEF Waits
<1>5. n \in Node /\ Kind(n) # "FUN"
  BY <1>1, <1>2, AstFacts
<1>6. ret # RETURN /\ expections' \in Seq(Cells)
  BY <1>1 DEF IInv, Running, OK, RETURN
<1> HIDE DEF f, n
<1> QED
  BY <1>1, <1>3, <1>4, <1>5, <1>6, Calls

LEMMA ItemsEndStep ==
  ASSUME IInv, ItemsEnd
  PROVE  IInv'
<1> DEFINE code == IF ret < 0 THEN ret ELSE OK
<1>1. /\ stack # <<>> /\ Kind(Top.n) # "FUN" /\ Return(code)
      /\ rax' = rax /\ expections' = expections
  BY DEF ItemsEnd, At
<1>2. code \in Codes /\ (code \in {ERROR, THROW} => ret = code) /\ (ret = RETURN => code = RETURN)
  BY DEF IInv, Types, Codes, OK, ERROR, BREAK, CONTINUE, THROW, RETURN, Running
<1> QED
  BY <1>1, <1>2, Quiet, Returns DEF IInv, HoldsReturn

-----------------------------------------------------------------------------
(* The statements that call nothing, or one block. *)
LEMMA CheckTypeStep ==
  ASSUME IInv, CheckType
  PROVE  IInv'
<1> DEFINE f == [Top EXCEPT !.pc = "checked"]
<1>1. /\ stack # <<>> /\ Kind(Top.n) = "VAR" /\ rax' = rax
      /\ \/ Goto(f) /\ (expections' = expections \/ Raise(Top.n))
         \/ Return(ERROR) /\ Raise(Top.n)
         \/ UNCHANGED <<stack, ret, val, expections>>
  BY DEF CheckType, At
<1>2. ~Waits(Top)
  BY <1>1 DEF Waits
<1>3. Top \in Frames /\ Top.n \in Node /\ ~HoldsReturn /\ ret # RETURN
  BY <1>1, <1>2, Quiet DEF Running, RETURN
<1>4. f \in Frames /\ f.n = Top.n
  BY <1>3, FrameAt DEF Points
<1>5. Raise(Top.n) => expections' \in Seq(Cells) /\ expections' # <<>>
  BY <1>3, RaiseStep DEF IInv
<1> HIDE DEF f
<1>6. CASE Goto(f) /\ (expections' = expections \/ Raise(Top.n))
  BY <1>1, <1>3, <1>4, <1>5, <1>6, GoesOnAt
<1>7. CASE Return(ERROR) /\ Raise(Top.n)
  BY <1>1, <1>3, <1>5, <1>7, Returns DEF IInv, HoldsReturn, Codes
<1>8. CASE UNCHANGED <<stack, ret, val, expections>>
  BY <1>1, <1>8 DEF IInv, Types, Control, FailureHasCause, ReturnValueInFlight, Depth
<1> QED
  BY <1>1, <1>6, <1>7, <1>8

LEMMA VarStep ==
  ASSUME IInv, Var
  PROVE  IInv'
<1>1. /\ stack # <<>> /\ Kind(Top.n) = "VAR" /\ rax' = rax
      /\ \/ val = Fail /\ Return(ERROR) /\ UNCHANGED expections
         \/ Return(OK) /\ UNCHANGED expections
         \/ Return(ERROR) /\ Raise(Top.n)
  BY DEF Var, At
<1>2. ~Waits(Top)
  BY <1>1 DEF Waits
<1>3. Top.n \in Node /\ ~HoldsReturn
  BY <1>1, <1>2, Quiet DEF Running, RETURN
<1>4. CASE val = Fail /\ Return(ERROR) /\ UNCHANGED expections
  BY <1>1, <1>3, <1>4, Quiet, Returns DEF IInv, HoldsReturn, Codes
<1>5. CASE Return(OK) /\ UNCHANGED expections
  BY <1>1, <1>3, <1>5, Returns DEF IInv, HoldsReturn, Codes, OK, ERROR, THROW
<1>6. CASE Return(ERROR) /\ Raise(Top.n)
  BY <1>1, <1>3, <1>6, RaiseStep, Returns DEF IInv, HoldsReturn, Codes
<1> QED
  BY <1>1, <1>4, <1>5, <1>6

LEMMA ExprStep ==
  ASSUME IInv, Expr
  PROVE  IInv'
<1> DEFINE code == IF val = Fail THEN ERROR ELSE OK
<1>1. /\ stack # <<>> /\ Kind(Top.n) = "EXPR" /\ Top.pc = "start" /\ rax' = rax
      /\ Return(code) /\ expections' = expections
  BY DEF Expr, At
<1>2. ~Waits(Top)
  BY <1>1 DEF Waits
<1>3. ~HoldsReturn /\ code \in Codes /\ (code \in {ERROR, THROW} => expections # <<>>)
  BY <1>1, <1>2, Quiet DEF Running, RETURN, Codes, OK, ERROR, THROW
<1> QED
  BY <1>1, <1>3, Returns DEF IInv, HoldsReturn

LEMMA IfStep ==
  ASSUME IInv, If
  PROVE  IInv'
<1> DEFINE f == [Top EXCEPT !.pc = "branch"]
<1>1. /\ stack # <<>> /\ Kind(Top.n) = "IF" /\ Top.pc = "start"
      /\ rax' = rax /\ expections' = expections
      /\ \/ val = Fail /\ Return(ERROR)
         \/ CallChild(f, Ast[Top.n].body)
         \/ Return(OK)
         \/ Ast[Top.n].other # None /\ CallChild(f, Ast[Top.n].other)
  BY DEF If, At
<1>2. ~Waits(Top)
  BY <1>1 DEF Waits
<1>3. Top \in Frames /\ Top.n \in Node /\ ret # RETURN /\ ~HoldsReturn
  BY <1>1, <1>2, Quiet DEF Running, RETURN
<1>4. f \in Frames /\ f.n = Top.n /\ f.pc = "branch"
  BY <1>3, FrameAt DEF Points
<1>5. Waits(f)
  BY <1>1, <1>4 DEF Waits
<1>6. CASE val = Fail /\ Return(ERROR)
  BY <1>1, <1>3, <1>6, Quiet, Returns DEF IInv, HoldsReturn, Codes
<1>7. CASE Return(OK)
  BY <1>1, <1>3, <1>7, Returns DEF IInv, HoldsReturn, Codes, OK, ERROR, THROW
<1>8. CASE CallChild(f, Ast[Top.n].body)
  <2>1. Ast[Top.n].body \in Node /\ Kind(Ast[Top.n].body) = "BODY"
    BY <1>1, <1>3, AstFacts
  <2> QED
    BY <1>1, <1>3, <1>4, <1>5, <1>8, <2>1, Calls DEF IInv
<1>9. CASE Ast[Top.n].other # None /\ CallChild(f, Ast[Top.n].other)
  <2>1. Ast[Top.n].other \in Node /\ Kind(Ast[Top.n].other) \in {"BODY", "IF"}
    BY <1>1, <1>3, <1>9, AstFacts
  <2> QED
    BY <1>1, <1>3, <1>4, <1>5, <1>9, <2>1, Calls DEF IInv
<1> QED
  BY <1>1, <1>6, <1>7, <1>8, <1>9

LEMMA IfEndStep ==
  ASSUME IInv, IfEnd
  PROVE  IInv'
<1>1. /\ stack # <<>> /\ Kind(Top.n) # "FUN" /\ ret \in Codes /\ Return(ret)
      /\ rax' = rax /\ expections' = expections
  BY DEF IfEnd, At, IInv, Types
<1> QED
  BY <1>1, Quiet, Returns DEF IInv, HoldsReturn

LEMMA ThrowStep ==
  ASSUME IInv, Throw
  PROVE  IInv'
<1>1. /\ stack # <<>> /\ Kind(Top.n) = "THROW" /\ Top.pc = "start" /\ rax' = rax
      /\ \/ val = Fail /\ Return(ERROR) /\ UNCHANGED expections
         \/ Return(THROW) /\ Raise(Top.n)
  BY DEF Throw, At
<1>2. ~Waits(Top)
  BY <1>1 DEF Waits
<1>3. Top.n \in Node /\ ~HoldsReturn
  BY <1>1, <1>2, Quiet DEF Running, RETURN
<1>4. CASE val = Fail /\ Return(ERROR) /\ UNCHANGED expections
  BY <1>1, <1>3, <1>4, Quiet, Returns DEF IInv, HoldsReturn, Codes
<1>5. CASE Return(THROW) /\ Raise(Top.n)
  BY <1>1, <1>3, <1>5, RaiseStep, Returns DEF IInv, HoldsReturn, Codes
<1> QED
  BY <1>1, <1>4, <1>5

LEMMA ReturnStatementStep ==
  ASSUME IInv, ReturnStatement
  PROVE  IInv'
<1>1. /\ stack # <<>> /\ Kind(Top.n) = "RETURN" /\ Top.pc = "start"
      /\ expections' = expections
      /\ \/ Return(RETURN) /\ UNCHANGED rax
         \/ val = Fail /\ Return(ERROR) /\ UNCHANGED rax
         \/ Return(RETURN) /\ rax' = Top.n
  BY DEF ReturnStatement, At
<1>2. ~Waits(Top)
  BY <1>1 DEF Waits
<1>3. Top.n \in Node /\ ~HoldsReturn
  BY <1>1, <1>2, Quiet DEF Running, RETURN
<1>4. CASE val = Fail /\ Return(ERROR) /\ UNCHANGED rax
  BY <1>1, <1>3, <1>4, Quiet, Returns DEF IInv, HoldsReturn, Codes
<1>5. CASE Return(RETURN) /\ (UNCHANGED rax \/ rax' = Top.n)
  BY <1>1, <1>3, <1>5, Returns DEF IInv, HoldsReturn, Codes, RETURN, ERROR, THROW
<1> QED
  BY <1>1, <1>4, <1>5

LEMMA JumpStep ==
  ASSUME IInv, Jump
  PROVE  IInv'
<1> DEFINE code == IF Kind(Top.n) = "BREAK" THEN BREAK ELSE CONTINUE
<1>1. /\ stack # <<>> /\ Kind(Top.n) \in {"BREAK", "CONTINUE"} /\ Top.pc = "start"
      /\ \/ Return(code) /\ rax' \in {rax} \cup Loops /\ UNCHANGED expections
         \/ Return(ERROR) /\ rax' = rax /\ Raise(Top.n)
  BY DEF Jump, At
<1>2. ~Waits(Top)
  BY <1>1 DEF Waits
<1>3. Top.n \in Node /\ ~HoldsReturn
  BY <1>1, <1>2, Quiet DEF Running, RETURN
<1>4. CASE Return(code) /\ rax' \in {rax} \cup Loops /\ UNCHANGED expections
  <2>1. code \in Codes /\ code \notin {ERROR, THROW}
    BY DEF Codes, BREAK, CONTINUE, ERROR, THROW
  <2>2. rax' \in Node \cup {None} /\ ~HoldsReturn'
    BY <1>3, <1>4 DEF IInv, HoldsReturn, Loops
  <2> QED
    BY <1>1, <1>4, <2>1, <2>2, Returns DEF IInv
<1>5. CASE Return(ERROR) /\ rax' = rax /\ Raise(Top.n)
  BY <1>1, <1>3, <1>5, RaiseStep, Returns DEF IInv, HoldsReturn, Codes
<1> QED
  BY <1>1, <1>4, <1>5

-----------------------------------------------------------------------------
(* Loops. *)
LEMMA ForInitStep ==
  ASSUME IInv, ForInit
  PROVE  IInv'
<1> DEFINE f == [Top EXCEPT !.i = @ + 1]
           g == [Top EXCEPT !.pc = "cond"]
           n == Items(Top.n)[Top.i + 1]
<1>1. /\ stack # <<>> /\ Kind(Top.n) = "FOR" /\ Top.pc = "start"
      /\ rax' = rax /\ expections' = expections
      /\ \/ ret = ERROR /\ Return(ERROR)
         \/ ret \in {Running, OK} /\ Top.i < Len(Items(Top.n)) /\ CallChild(f, n)
         \/ ret \in {Running, OK} /\ Goto(g)
  BY DEF ForInit, At
<1>2. Top \in Frames /\ Top.n \in Node /\ Top.i \in Nat /\ expections \in Seq(Cells)
  BY <1>1, Quiet, FrameFacts DEF IInv
<1>3. ret # RETURN /\ ~HoldsReturn
  BY <1>1, Quiet DEF Running, OK, ERROR, RETURN
<1>4. CASE ret = ERROR /\ Return(ERROR)
  BY <1>1, <1>2, <1>3, <1>4, Quiet, Returns DEF IInv, HoldsReturn, Codes
<1>5. CASE Top.i < Len(Items(Top.n)) /\ CallChild(f, n)
  <2>1. f \in Frames /\ f.n = Top.n /\ f.pc = "start"
    BY <1>1, <1>2, FrameNext
  <2>2. Waits(f)
    BY <1>1, <2>1 DEF Waits
  <2>3. n \in Node /\ Kind(n) # "FUN"
    BY <1>2, <1>5, AstFacts
  <2> HIDE DEF f, n
  <2> QED
    BY <1>1, <1>2, <1>3, <1>5, <2>1, <2>2, <2>3, Calls
<1>6. CASE Goto(g)
  <2>1. g \in Frames /\ g.n = Top.n
    BY <1>2, FrameAt DEF Points
  <2> HIDE DEF g
  <2> QED
    BY <1>1, <1>3, <1>6, <2>1, GoesOnAt
<1> QED
  BY <1>1, <1>4, <1>5, <1>6

LEMMA ForConditionStep ==
  ASSUME IInv, ForCondition
  PROVE  IInv'
<1> DEFINE f == [Top EXCEPT !.pc = "body"]
<1>1. /\ stack # <<>> /\ Kind(Top.n) = "FOR" /\ Top.pc = "cond"
      /\ rax' = rax /\ expections' = expections
      /\ \/ val = Fail /\ Return(ERROR)
         \/ CallChild(f, Ast[Top.n].body)
         \/ Return(OK)
  BY DEF ForCondition, At
<1>2. ~Waits(Top)
  BY <1>1 DEF Waits
<1>3. /\ Top \in Frames /\ Top.n \in Node /\ ret # RETURN /\ ~HoldsReturn
      /\ expections \in Seq(Cells)
  BY <1>1, <1>2, Quiet DEF IInv, Running, RETURN
<1>4. CASE val = Fail /\ Return(ERROR)
  BY <1>1, <1>3, <1>4, Quiet, Returns DEF IInv, HoldsReturn, Codes
<1>5. CASE Return(OK)
  BY <1>1, <1>3, <1>5, Returns DEF IInv, HoldsReturn, Codes, OK, ERROR, THROW
<1>6. CASE CallChild(f, Ast[Top.n].body)
  <2>1. f \in Frames /\ f.n = Top.n /\ f.pc = "body"
    BY <1>3, FrameAt DEF Points
  <2>2. Waits(f)
    BY <1>1, <2>1 DEF Waits
  <2>3. Ast[Top.n].body \in Node /\ Kind(Ast[Top.n].body) = "BODY"
    BY <1>1, <1>3, AstFacts
  <2> HIDE DEF f
  <2> QED
    BY <1>1, <1>3, <1>6, <2>1, <2>2, <2>3, Calls
<1> QED
  BY <1>1, <1>4, <1>5, <1>6

LEMMA ForIncrementStep ==
  ASSUME IInv, ForIncrement
  PROVE  IInv'
<1> DEFINE f == [Top EXCEPT !.pc = "cond"]
<1>1. /\ stack # <<>> /\ Kind(Top.n) = "FOR" /\ Top.pc = "incr"
      /\ rax' = rax /\ expections' = expections
      /\ (val = Fail /\ Return(ERROR)) \/ Goto(f)
  BY DEF ForIncrement, At
<1>2. ~Waits(Top)
  BY <1>1 DEF Waits
<1>3. Top \in Frames /\ ret # RETURN /\ ~HoldsReturn
  BY <1>1, <1>2, Quiet DEF Running, RETURN
<1>4. CASE val = Fail /\ Return(ERROR)
  BY <1>1, <1>3, <1>4, Quiet, Returns DEF IInv, HoldsReturn, Codes
<1>5. CASE Goto(f)
  <2>1. f \in Frames /\ f.n = Top.n
    BY <1>3, FrameAt DEF Points
  <2> HIDE DEF f
  <2> QED
    BY <1>1, <1>3, <1>5, <2>1, GoesOnAt
<1> QED
  BY <1>1, <1>4, <1>5

LEMMA ForinIteratorStep ==
  ASSUME IInv, ForinIterator
  PROVE  IInv'
<1> DEFINE f == [Top EXCEPT !.pc = "next"]
<1>1. /\ stack # <<>> /\ Kind(Top.n) = "FORIN" /\ Top.pc = "start"
      /\ rax' = rax /\ expections' = expections
      /\ (val = Fail /\ Return(ERROR)) \/ Goto(f)
  BY DEF ForinIterator, At
<1>2. ~Waits(Top)
  BY <1>1 DEF Waits
<1>3. Top \in Frames /\ ret # RETURN /\ ~HoldsReturn
  BY <1>1, <1>2, Quiet DEF Running, RETURN
<1>4. CASE val = Fail /\ Return(ERROR)
  BY <1>1, <1>3, <1>4, Quiet, Returns DEF IInv, HoldsReturn, Codes
<1>5. CASE Goto(f)
  <2>1. f \in Frames /\ f.n = Top.n
    BY <1>3, FrameAt DEF Points
  <2> HIDE DEF f
  <2> QED
    BY <1>1, <1>3, <1>5, <2>1, GoesOnAt
<1> QED
  BY <1>1, <1>4, <1>5

LEMMA ForinNextStep ==
  ASSUME IInv, ForinNext
  PROVE  IInv'
<1> DEFINE f == [Top EXCEPT !.pc = "body"]
<1>1. /\ stack # <<>> /\ Kind(Top.n) = "FORIN" /\ Top.pc = "next" /\ rax' = rax
      /\ \/ Return(OK) /\ UNCHANGED expections
         \/ Return(ERROR) /\ Raise(Top.n)
         \/ CallChild(f, Ast[Top.n].body) /\ UNCHANGED expections
  BY DEF ForinNext, At
<1>2. ~Waits(Top)
  BY <1>1 DEF Waits
<1>3. /\ Top \in Frames /\ Top.n \in Node /\ ret # RETURN /\ ~HoldsReturn
      /\ expections \in Seq(Cells)
  BY <1>1, <1>2, Quiet DEF IInv, Running, RETURN
<1>4. CASE Return(OK) /\ UNCHANGED expections
  BY <1>1, <1>3, <1>4, Returns DEF IInv, HoldsReturn, Codes, OK, ERROR, THROW
<1>5. CASE Return(ERROR) /\ Raise(Top.n)
  BY <1>1, <1>3, <1>5, RaiseStep, Returns DEF IInv, HoldsReturn, Codes
<1>6. CASE CallChild(f, Ast[Top.n].body) /\ UNCHANGED expections
  <2>1. f \in Frames /\ f.n = Top.n /\ f.pc = "body"
    BY <1>3, FrameAt DEF Points
  <2>2. Waits(f)
    BY <1>1, <2>1 DEF Waits
  <2>3. Ast[Top.n].body \in Node /\ Kind(Ast[Top.n].body) = "BODY"
    BY <1>1, <1>3, AstFacts
  <2> HIDE DEF f
  <2> QED
    BY <1>1, <1>3, <1>6, <2>1, <2>2, <2>3, Calls
<1> QED
  BY <1>1, <1>4, <1>5, <1>6

LEMMA LoopBodyEndStep ==
  ASSUME IInv, LoopBodyEnd
  PROVE  IInv'
<1> DEFINE pc == IF Kind(Top.n) = "FOR" THEN "incr" ELSE "next"
           f == [Top EXCEPT !.pc = pc]
<1>1. /\ stack # <<>> /\ Kind(Top.n) # "FUN" /\ ret # Running /\ expections' = expections
      /\ \/ ret = ERROR /\ Return(ERROR) /\ rax' = rax
         \/ ret \in {OK, CONTINUE} /\ Goto(f) /\ rax' \in {rax, None}
         \/ ret = BREAK /\ Return(OK) /\ rax' = None
         \/ ret \in {THROW, RETURN, BREAK, CONTINUE} /\ Return(ret) /\ rax' = rax
  BY DEF LoopBodyEnd, At, GoesOn, ClearRax
<1>2. Top \in Frames /\ expections \in Seq(Cells) /\ rax \in Node \cup {None}
  BY <1>1, Quiet DEF IInv
<1>3. CASE ret = ERROR /\ Return(ERROR) /\ rax' = rax
  BY <1>1, <1>2, <1>3, Quiet, Returns DEF HoldsReturn, Codes
<1>4. CASE ret \in {OK, CONTINUE} /\ Goto(f) /\ rax' \in {rax, None}
  <2>0. pc \in Points
    BY DEF Points
  <2>1. f \in Frames /\ f.n = Top.n
    <3> HIDE DEF pc
    <3> QED
      BY <1>2, <2>0, FrameAt
  <2>2. ret # RETURN
    BY <1>4 DEF OK, CONTINUE, RETURN
  <2> HIDE DEF f
  <2> QED
    BY <1>1, <1>4, <2>1, <2>2, GoesOnAt
<1>5. CASE ret = BREAK /\ Return(OK) /\ rax' = None
  BY <1>1, <1>2, <1>5, Returns DEF HoldsReturn, Codes, OK, ERROR, THROW
<1>6. CASE ret \in {THROW, RETURN, BREAK, CONTINUE} /\ Return(ret) /\ rax' = rax
  BY <1>1, <1>2, <1>6, Quiet, Returns DEF HoldsReturn, Codes
<1> QED
  BY <1>1, <1>3, <1>4, <1>5, <1>6

-----------------------------------------------------------------------------
(* The try statement. *)
LEMMA TryBodyStep ==
  ASSUME IInv, TryBody
  PROVE  IInv'
<1> DEFINE f == [Top EXCEPT !.pc = "body"]
<1>1. /\ stack # <<>> /\ Kind(Top.n) = "TRY" /\ Top.pc = "start"
      /\ rax' = rax /\ expections' = expections /\ CallChild(f, Ast[Top.n].body)
  BY DEF TryBody, At
<1>2. ~Waits(Top)
  BY <1>1 DEF Waits
<1>3. Top \in Frames /\ Top.n \in Node /\ ret # RETURN /\ expections \in Seq(Cells)
  BY <1>1, <1>2, Quiet DEF IInv, Running, RETURN
<1>4. f \in Frames /\ f.n = Top.n /\ f.pc = "body"
  BY <1>3, FrameAt DEF Points
<1>5. Waits(f)
  BY <1>1, <1>4 DEF Waits
<1>6. Ast[Top.n].body \in Node /\ Kind(Ast[Top.n].body) = "BODY"
  BY <1>1, <1>3, AstFacts
<1> HIDE DEF f
<1> QED
  BY <1>1, <1>3, <1>4, <1>5, <1>6, Calls

LEMMA TryBodyEndStep ==
  ASSUME IInv, TryBodyEnd
  PROVE  IInv'
<1> DEFINE f == [Top EXCEPT !.pc = "catch", !.code = ret, !.b = CellAt(1)]
<1>1. /\ stack # <<>> /\ Kind(Top.n) # "FUN" /\ ret # Running
      /\ rax' = rax /\ expections' = expections
      /\ \/ ret \in {THROW, ERROR} /\ Goto(f)
         \/ Return(ret)
  BY DEF TryBodyEnd, At, Handles
<1>2. /\ Top \in Frames /\ expections \in Seq(Cells) /\ rax \in Node \cup {None}
      /\ ret \in Codes
  BY <1>1, Quiet DEF IInv, Types
<1>3. CASE ret \in {THROW, ERROR} /\ Goto(f)
  <2>1. CellAt(1) \in Nat
    <3>1. \A i \in DOMAIN expections : expections[i] \in Cells
      BY <1>2
    <3>2. \A i \in DOMAIN expections : expections[i].cell \in Nat
      BY <3>1 DEF Cells
    <3> QED
      BY <3>2 DEF CellAt
  <2>2. f \in Frames /\ f.n = Top.n
    BY <1>2, <1>3, <2>1 DEF Frames, Points
  <2>3. ret # RETURN
    BY <1>3 DEF THROW, ERROR, RETURN
  <2> HIDE DEF f
  <2> QED
    BY <1>1, <1>3, <2>2, <2>3, GoesOnAt
<1>4. CASE Return(ret)
  BY <1>1, <1>2, <1>4, Quiet, Returns DEF HoldsReturn
<1> QED
  BY <1>1, <1>3, <1>4

LEMMA TryEndStep ==
  ASSUME IInv, TryEnd
  PROVE  IInv'
<1> DEFINE code == RemainingCode(Top.code)
<1>1. /\ stack # <<>> /\ Kind(Top.n) = "TRY" /\ Top.pc = "catch"
      /\ rax' = rax /\ expections' = expections /\ Return(code)
  BY DEF TryEnd, At
<1>2. ~Waits(Top)
  BY <1>1 DEF Waits
<1>3. Top \in Frames /\ ~HoldsReturn
  BY <1>1, <1>2, Quiet DEF Running, RETURN
<1>4. Top.code \in {OK, ERROR, THROW}
  BY <1>3, FrameFacts
<1>5. code \in Codes /\ (code \in {ERROR, THROW} => expections # <<>>)
  BY <1>4 DEF RemainingCode, Codes, OK, ERROR, THROW
<1> HIDE DEF code
<1> QED
  BY <1>1, <1>3, <1>5, Returns DEF IInv, HoldsReturn

LEMMA TryPassStep ==
  ASSUME IInv, TryPass
  PROVE  IInv'
<1>1. PICK i \in DOMAIN expections :
        /\ stack # <<>> /\ Kind(Top.n) = "TRY" /\ Top.pc = "catch"
        /\ Goto([Top EXCEPT !.b = CellAfter(i)])
        /\ rax' = rax /\ expections' = expections
  BY DEF TryPass, Catches, At
<1>2. ~Waits(Top)
  BY <1>1 DEF Waits
<1>3. Top \in Frames /\ ret # RETURN /\ expections \in Seq(Cells)
  BY <1>1, <1>2, Quiet DEF IInv, Running, RETURN
<1>4. [Top EXCEPT !.b = CellAfter(i)] \in Frames /\ [Top EXCEPT !.b = CellAfter(i)].n = Top.n
  BY <1>3, QueueFacts DEF Frames
<1> QED
  BY <1>1, <1>3, <1>4, GoesOnAt

LEMMA TryMismatchStep ==
  ASSUME IInv, TryMismatch
  PROVE  IInv'
<1>1. /\ stack # <<>> /\ Kind(Top.n) = "TRY" /\ Top.pc = "catch" /\ Ast[Top.n].other # None
      /\ Raise(Ast[Top.n].other) /\ Return(ERROR) /\ rax' = rax
  BY DEF TryMismatch, Catches, At
<1>2. ~Waits(Top)
  BY <1>1 DEF Waits
<1>3. Top.n \in Node /\ ~HoldsReturn
  BY <1>1, <1>2, Quiet DEF Running, RETURN
<1>4. Ast[Top.n].other \in Node
  BY <1>1, <1>3, AstFacts
<1> QED
  BY <1>1, <1>3, <1>4, RaiseStep, Returns DEF IInv, HoldsReturn, Codes

LEMMA TryCatchStep ==
  ASSUME IInv, TryCatch
  PROVE  IInv'
<1>1. PICK i \in DOMAIN expections :
        /\ stack # <<>> /\ Kind(Top.n) = "TRY" /\ Top.pc = "catch"
        /\ Ast[Top.n].other # None /\ rax' = rax
        /\ expections' = Unqueued(i)
        /\ \/ CallChild([Top EXCEPT !.pc = "handling", !.b = CellAfter(i),
                                    !.expection = expections[i].value],
                        Ast[Ast[Top.n].other].body)
           \/ UNCHANGED <<stack, ret, val>>
  BY DEF TryCatch, Catches, At
<1> DEFINE f == [Top EXCEPT !.pc = "handling", !.b = CellAfter(i),
                            !.expection = expections[i].value]
<1>2. ~Waits(Top) /\ ~EvaluatesAt(Top)
  BY <1>1 DEF Waits, EvaluatesAt
<1>3. /\ Top \in Frames /\ Top.n \in Node /\ ret = Running /\ val = None
      /\ expections \in Seq(Cells)
  BY <1>1, <1>2, Quiet DEF IInv
<1>4. expections' \in Seq(Cells) /\ CellAfter(i) \in Nat /\ expections[i].value \in Node
  BY <1>1, <1>3, QueueFacts
<1>5. CASE CallChild(f, Ast[Ast[Top.n].other].body)
  <2>1. f \in Frames /\ f.n = Top.n /\ f.pc = "handling"
    BY <1>3, <1>4 DEF Frames, Points
  <2>2. Waits(f)
    BY <1>1, <2>1 DEF Waits
  <2>3. Ast[Top.n].other \in Node /\ Kind(Ast[Top.n].other) = "CATCH"
    BY <1>1, <1>3, AstFacts
  <2>4. Ast[Ast[Top.n].other].body \in Node /\ Kind(Ast[Ast[Top.n].other].body) = "BODY"
    BY <2>3, AstFacts
  <2>5. ret # RETURN
    BY <1>3 DEF Running, RETURN
  <2> HIDE DEF f
  <2> QED
    BY <1>1, <1>4, <1>5, <2>1, <2>2, <2>4, <2>5, Calls
<1>6. CASE UNCHANGED <<stack, ret, val>>
  <2>1. Types' /\ Control'
    BY <1>6 DEF IInv, Types, Control, Depth
  <2>2. FailureHasCause' /\ ReturnValueInFlight' /\ rax' \in Node \cup {None}
    BY <1>1, <1>3, <1>6, AstAssumption
       DEF IInv, FailureHasCause, ReturnValueInFlight, Running, ERROR, THROW
  <2> QED
    BY <1>4, <2>1, <2>2 DEF IInv
<1> QED
  BY <1>1, <1>5, <1>6

LEMMA TryCatchEndStep ==
  ASSUME IInv, TryCatchEnd
  PROVE  IInv'
<1> DEFINE f == [Top EXCEPT !.pc = "catch", !.expection = None]
<1>1. /\ stack # <<>> /\ Kind(Top.n) # "FUN" /\ ret # Running
      /\ rax' = rax /\ expections' = expections
      /\ \/ Return(ret)
         \/ ~(ret < 0) /\ Goto(f)
  BY DEF TryCatchEnd, At
<1>2. Top \in Frames /\ ret \in Codes /\ expections \in Seq(Cells) /\ rax \in Node \cup {None}
  BY <1>1, Quiet DEF IInv, Types
<1>3. CASE Return(ret)
  BY <1>1, <1>2, <1>3, Quiet, Returns DEF HoldsReturn
<1>4. CASE ~(ret < 0) /\ Goto(f)
  <2>1. f \in Frames /\ f.n = Top.n
    BY <1>2 DEF Frames, Points
  <2>2. ret # RETURN
    BY <1>4 DEF RETURN
  <2> HIDE DEF f
  <2> QED
    BY <1>1, <1>4, <2>1, <2>2, GoesOnAt
<1> QED
  BY <1>1, <1>3, <1>4

-----------------------------------------------------------------------------
(* A program starts with one frame and nothing pending. *)
LEMMA InvariantInit == Init => IInv
<1> SUFFICES ASSUME Init PROVE IInv
  OBVIOUS
<1> DEFINE n == CHOOSE m \in Node : Kind(m) = "MODULE"
<1>1. n \in Node /\ Kind(n) = "MODULE" /\ None # Fail
  BY AstAssumption
<1> HIDE DEF n
<1>2. stack = <<Frame(n, "start")>> /\ ret = Running /\ val = None /\ rax = None /\ expections = <<>>
  BY DEF Init, n
<1>3. stack \in Seq(Frames) /\ Depth = 1 /\ stack[1].n = n
  BY <1>1, <1>2, NewFrame DEF Depth
<1>4. Types /\ Control
  BY <1>1, <1>2, <1>3 DEF Types, Control
<1>5. FailureHasCause /\ ReturnValueInFlight /\ expections \in Seq(Cells)
  BY <1>1, <1>2 DEF FailureHasCause, ReturnValueInFlight, Running, ERROR, THROW
<1> QED
  BY <1>2, <1>4, <1>5 DEF IInv

(* Every action keeps the invariant. *)
LEMMA InvariantStep == IInv /\ [Next]_vars => IInv'
<1> SUFFICES ASSUME IInv, [Next]_vars PROVE IInv'
  OBVIOUS
<1>1. CASE Evaluate \/ CallFun \/ FunStart \/ FunEnd \/ NextItem \/ ItemsEnd
  BY <1>1, EvaluateStep, CallFunStep, FunStartStep, FunEndStep, NextItemStep, ItemsEndStep
<1>2. CASE CheckType \/ Var \/ Expr \/ If \/ IfEnd \/ Throw \/ ReturnStatement \/ Jump
  BY <1>2, CheckTypeStep, VarStep, ExprStep, IfStep, IfEndStep, ThrowStep, ReturnStatementStep, JumpStep
<1>3. CASE ForInit \/ ForCondition \/ ForIncrement \/ ForinIterator \/ ForinNext \/ LoopBodyEnd
  BY <1>3, ForInitStep, ForConditionStep, ForIncrementStep, ForinIteratorStep, ForinNextStep,
     LoopBodyEndStep
<1>4. CASE TryBody \/ TryBodyEnd \/ TryEnd \/ TryPass \/ TryMismatch \/ TryCatch \/ TryCatchEnd
  BY <1>4, TryBodyStep, TryBodyEndStep, TryEndStep, TryPassStep, TryMismatchStep, TryCatchStep,
     TryCatchEndStep
<1>5. CASE TryDangling \/ UNCHANGED vars
  BY <1>5 DEF TryDangling, vars, IInv, Types, Control, FailureHasCause, ReturnValueInFlight, Depth
<1> QED
  BY <1>1, <1>2, <1>3, <1>4, <1>5 DEF Next, Step, Terminated

(* In every program, whenever an error, a throw or a failed expression is on its way out,
   an exception is queued that a try can catch and main can print. *)
THEOREM FailuresCaused == Spec => []FailureHasCause
  BY InvariantInit, InvariantStep, PTL DEF Spec, IInv

(* In every program, rax holds the value of a return statement only while the code of
   the return is on its way to the call. *)
THEOREM ReturnsTaken == Spec => []ReturnValueInFlight
  BY InvariantInit, InvariantStep, PTL DEF Spec, IInv

(* In every program, a return code or the outcome of an expression is pending only for a
   function that waits for it. *)
THEOREM CodesAwaited == Spec => []Control
  BY InvariantInit, InvariantStep, PTL DEF Spec, IInv
-----------------------------------------------------------------------------
\* What is true besides when every clause takes every exception: at most one is queued,
\* and only while a failure is on its way or a try goes through the queue; a try that
\* does, or whose catch body runs, has nothing after the exception it is at.
AtCatch == stack # <<>> /\ Top.pc = "catch"
GoesThrough(f) == /\ f.pc \in {"catch", "handling"} => f.code \in {ERROR, THROW}
                  /\ f.pc = "handling" => f.b = 0

Alive == fault = "none"
NothingDangles == fault # "use after free"

OneInFlight ==
  /\ Len(expections) <= 1
  /\ expections # <<>> => ret \in {ERROR, THROW} \/ val = Fail \/ AtCatch
  /\ \A i \in 1..Depth : GoesThrough(stack[i])
  /\ AtCatch /\ Alive => Top.b \in UsedCells \cup {0}
  /\ NothingDangles

(* Nothing is queued where no failure is. *)
LEMMA NothingQueued ==
  ASSUME IInv, OneInFlight, stack # <<>>, Top.pc # "catch", val # Fail, ret \notin {ERROR, THROW}
  PROVE  expections = <<>>
BY DEF OneInFlight, AtCatch

(* An exception that is raised where none is queued is the only one. *)
LEMMA OnlyOne ==
  ASSUME expections = <<>>, NEW n, Raise(n)
  PROVE  Len(expections') = 1
BY DEF Raise

(* The three ways to go on. *)
LEMMA QueueCalls ==
  ASSUME IInv, OneInFlight, stack # <<>>, NEW f \in Frames, NEW n \in Node, CallChild(f, n),
         GoesThrough(f), expections' = <<>>, NothingDangles'
  PROVE  OneInFlight'
<1>1. stack \in Seq(Frames) /\ Depth \in Nat \ {0} /\ Depth \in 1..Depth
  BY Quiet DEF IInv, Types
<1> DEFINE s == [stack EXCEPT ![Depth] = f]
<1>2. /\ s \in Seq(Frames) /\ Len(s) = Depth
      /\ \A i \in 1..Depth : s[i] = IF i = Depth THEN f ELSE stack[i]
  BY <1>1 DEF Depth
<1>3. stack' = Append(s, Frame(n, "start"))
  BY DEF CallChild
<1> HIDE DEF s
<1>4. /\ stack' # <<>> /\ Depth' = Depth + 1
      /\ \A i \in 1..Depth : stack'[i] = s[i]
      /\ stack'[Depth + 1] = Frame(n, "start")
  BY <1>2, <1>3, NewFrame DEF Depth
<1>5. Top'.pc = "start" /\ GoesThrough(stack'[Depth + 1])
  BY <1>4, NewFrame DEF Top, GoesThrough
<1>6. \A i \in 1..Depth' : GoesThrough(stack'[i])
  BY <1>1, <1>2, <1>4, <1>5 DEF OneInFlight
<1>7. \A i \in 1..Depth' : GoesThrough(stack[i])'
  BY <1>6 DEF GoesThrough
<1>8. Len(expections') <= 1
  OBVIOUS
<1> QED
  BY <1>5, <1>7, <1>8 DEF OneInFlight, AtCatch

LEMMA QueueReturns ==
  ASSUME IInv, IInv', OneInFlight, stack # <<>>, NEW code \in Codes, Return(code),
         Len(expections') <= 1,
         expections' # <<>> => code \in {ERROR, THROW},
         NothingDangles'
  PROVE  OneInFlight'
<1>1. /\ Depth' = Depth - 1 /\ Depth \in Nat \ {0}
      /\ \A i \in 1..Depth - 1 : stack'[i] = stack[i]
      /\ ret' = code
  BY PopStep DEF IInv, Return
<1>2. \A i \in 1..Depth' : GoesThrough(stack[i])'
  <2>1. \A i \in 1..Depth' : i \in 1..Depth /\ stack'[i] = stack[i]
    BY <1>1
  <2> QED
    BY <2>1 DEF OneInFlight, GoesThrough
<1>3. ret' # Running
  BY <1>1 DEF Codes, Running, OK, ERROR, BREAK, CONTINUE, THROW, RETURN
<1>4. ~AtCatch'
  <2>1. stack' # <<>> => Waits(stack[Depth])'
    BY <1>3 DEF IInv, Control
  <2> QED
    BY <2>1 DEF AtCatch, Top, Waits
<1> QED
  BY <1>1, <1>2, <1>4 DEF OneInFlight

LEMMA QueueGoesOn ==
  ASSUME IInv, OneInFlight, stack # <<>>, NEW f \in Frames, Goto(f), GoesThrough(f),
         f.pc = "catch" => f.b \in UsedCells \cup {0},
         f.pc = "catch" \/ expections = <<>>,
         expections' = expections, NothingDangles'
  PROVE  OneInFlight'
<1>1. stack \in Seq(Frames) /\ Depth \in Nat \ {0} /\ Depth \in 1..Depth
  BY Quiet DEF IInv, Types
<1>2. stack' = [stack EXCEPT ![Depth] = f]
  BY DEF Goto
<1>3. /\ stack' # <<>> /\ Depth' = Depth
      /\ \A i \in 1..Depth : stack'[i] = IF i = Depth THEN f ELSE stack[i]
  BY <1>1, <1>2 DEF Depth
<1>4. \A i \in 1..Depth' : GoesThrough(stack[i])'
  BY <1>3 DEF OneInFlight, GoesThrough
<1>5. Top' = f
  BY <1>1, <1>3 DEF Top
<1>6. UsedCells' = UsedCells
  BY DEF UsedCells
<1> QED
  BY <1>3, <1>4, <1>5, <1>6 DEF OneInFlight, AtCatch

-----------------------------------------------------------------------------
\* What a statement does at a point where it waits for nobody.
Quits(code) == Return(code) /\ expections' = expections /\ (val = Fail => code = ERROR)
Refuses(code) == Return(code) /\ val # Fail /\ \E n \in Node : Raise(n)
Enters(n) == \E f \in Frames : /\ f.n = Top.n /\ f.pc \notin {"catch", "handling"}
                               /\ CallChild(f, n) /\ val # Fail /\ expections' = expections
Proceeds == \E f \in Frames : /\ f.pc \notin {"catch", "handling"}
                              /\ Goto(f) /\ val # Fail /\ expections' = expections
Settles == /\ NothingDangles'
           /\ \/ \E code \in Codes : Quits(code)
              \/ \E code \in {ERROR, THROW} : Refuses(code)
              \/ \E n \in Node : Enters(n)
              \/ Proceeds

LEMMA SettlesQueue ==
  ASSUME IInv, IInv', OneInFlight, stack # <<>>, Top.pc # "catch", ret \notin {ERROR, THROW},
         Settles
  PROVE  OneInFlight'
<1>1. val # Fail => expections = <<>>
  BY NothingQueued
<1>2. ASSUME NEW code \in Codes, Quits(code)
      PROVE  OneInFlight'
  BY <1>1, <1>2, QueueReturns DEF Quits, Settles, OneInFlight
<1>3. ASSUME NEW code \in {ERROR, THROW}, Refuses(code)
      PROVE  OneInFlight'
  <2>1. PICK n \in Node : Raise(n)
    BY <1>3 DEF Refuses
  <2>2. Len(expections') = 1 /\ code \in Codes
    BY <1>1, <1>3, <2>1, OnlyOne DEF Refuses, Codes
  <2> QED
    BY <1>3, <2>2, QueueReturns DEF Refuses, Settles
<1>4. ASSUME NEW n \in Node, Enters(n)
      PROVE  OneInFlight'
  <2>1. PICK f \in Frames : /\ f.pc \notin {"catch", "handling"} /\ CallChild(f, n)
                            /\ val # Fail /\ expections' = expections
    BY <1>4 DEF Enters
  <2>2. GoesThrough(f)
    BY <2>1 DEF GoesThrough
  <2> QED
    BY <1>1, <2>1, <2>2, QueueCalls DEF Settles, OneInFlight
<1>5. ASSUME Proceeds
      PROVE  OneInFlight'
  <2>1. PICK f \in Frames : /\ f.pc \notin {"catch", "handling"} /\ Goto(f)
                            /\ val # Fail /\ expections' = expections
    BY <1>5 DEF Proceeds
  <2>2. GoesThrough(f)
    BY <2>1 DEF GoesThrough
  <2> QED
    BY <1>1, <2>1, <2>2, QueueGoesOn DEF Settles
<1> QED
  BY <1>2, <1>3, <1>4, <1>5 DEF Settles

(* The statements that call nothing, or a block of their own, at a point where they wait
   for nobody. *)
LEMMA StatementsSettle ==
  ASSUME IInv, NothingDangles,
         Var \/ Expr \/ If \/ Throw \/ ReturnStatement \/ Jump
  PROVE  Settles /\ stack # <<>> /\ ~Waits(Top) /\ Top.pc # "catch"
<1> USE DEF At
<1>1. /\ stack # <<>> /\ Top.pc \in {"start", "checked"} /\ fault' = fault
      /\ Kind(Top.n) \in {"VAR", "EXPR", "IF", "THROW", "RETURN", "BREAK", "CONTINUE"}
  BY DEF Var, Expr, If, Throw, ReturnStatement, Jump
<1>2. ~Waits(Top)
  BY <1>1 DEF Waits
<1>3. Top \in Frames /\ Top.n \in Node /\ NothingDangles' /\ None # Fail
  BY <1>1, Quiet, AstAssumption DEF NothingDangles
<1>4. OK \in Codes /\ ERROR \in Codes /\ THROW \in Codes /\ RETURN \in Codes
      /\ BREAK \in Codes /\ CONTINUE \in Codes
  BY DEF Codes
<1>5. Var \/ Expr \/ Throw => Settles
  <2>1. Var => Quits(ERROR) \/ Quits(OK) \/ Refuses(ERROR)
    BY <1>3 DEF Var, Quits, Refuses
  <2>2. Expr => Quits(ERROR) \/ Quits(OK)
    BY DEF Expr, Quits
  <2>3. Throw => Quits(ERROR) \/ Refuses(THROW)
    BY <1>3 DEF Throw, Quits, Refuses
  <2> QED
    BY <1>3, <1>4, <2>1, <2>2, <2>3 DEF Settles
<1>6. If => Settles
  <2> DEFINE f == [Top EXCEPT !.pc = "branch"]
  <2>1. ASSUME If
        PROVE  \/ Quits(ERROR) \/ Quits(OK)
               \/ /\ val # Fail /\ expections' = expections
                  /\ \/ CallChild(f, Ast[Top.n].body)
                     \/ Ast[Top.n].other # None /\ CallChild(f, Ast[Top.n].other)
    BY <2>1 DEF If, Quits
  <2>2. f \in Frames /\ f.n = Top.n /\ f.pc = "branch"
    BY <1>3, FrameAt DEF Points
  <2> HIDE DEF f
  <2>3. If => \/ Quits(ERROR) \/ Quits(OK) \/ Enters(Ast[Top.n].body)
              \/ Ast[Top.n].other # None /\ Enters(Ast[Top.n].other)
    BY <2>1, <2>2 DEF Enters
  <2>4. If => /\ Ast[Top.n].body \in Node
              /\ Ast[Top.n].other # None => Ast[Top.n].other \in Node
    BY <1>3, AstFacts DEF If
  <2> QED
    BY <1>3, <1>4, <2>3, <2>4 DEF Settles
<1>7. ReturnStatement => Settles
  <2>1. ReturnStatement /\ Has(Top.n, "bare") => val # Fail
    BY <1>1, <1>3, Quiet DEF ReturnStatement, EvaluatesAt
  <2>2. ReturnStatement => Quits(ERROR) \/ Quits(RETURN)
    BY <2>1 DEF ReturnStatement, Quits
  <2> QED
    BY <1>3, <1>4, <2>2 DEF Settles
<1>8. Jump => Settles
  <2>1. Jump => val # Fail
    BY <1>1, <1>3, Quiet DEF Jump, EvaluatesAt
  <2>2. Jump => Quits(BREAK) \/ Quits(CONTINUE) \/ Refuses(ERROR)
    BY <1>3, <2>1 DEF Jump, Quits, Refuses
  <2> QED
    BY <1>3, <1>4, <2>2 DEF Settles
<1> QED
  BY <1>1, <1>2, <1>5, <1>6, <1>7, <1>8

(* The check of a variable's type, if it comes to an answer or ends the process. *)
LEMMA CheckTypeQueue ==
  ASSUME ChecksConclude, IInv, IInv', OneInFlight, CheckType
  PROVE  OneInFlight'
<1> DEFINE f == [Top EXCEPT !.pc = "checked"]
<1>1. /\ stack # <<>> /\ Kind(Top.n) = "VAR" /\ Top.pc = "start" /\ val # Fail
  BY DEF CheckType, At
<1>2. ~Waits(Top)
  BY <1>1 DEF Waits
<1>3. Top \in Frames /\ Top.n \in Node /\ ret \notin {ERROR, THROW}
  BY <1>1, <1>2, Quiet DEF Running, ERROR, THROW
<1>4. f \in Frames /\ f.pc = "checked"
  BY <1>3, FrameAt DEF Points
<1>5. ~Has(Top.n, "generic")
  BY <1>3 DEF ChecksConclude
<1>6. \/ Goto(f) /\ UNCHANGED <<expections, fault>>
      \/ Return(ERROR) /\ Raise(Top.n) /\ UNCHANGED fault
      \/ fault' = "released" /\ UNCHANGED <<stack, ret, val, expections>>
  BY <1>5 DEF CheckType
<1> HIDE DEF f
<1>7. CASE Goto(f) /\ UNCHANGED <<expections, fault>>
  <2>1. NothingDangles' /\ Proceeds
    BY <1>1, <1>4, <1>7 DEF Proceeds, OneInFlight, NothingDangles
  <2> QED
    BY <1>1, <1>3, <2>1, SettlesQueue DEF Settles
<1>8. CASE Return(ERROR) /\ Raise(Top.n) /\ UNCHANGED fault
  <2>1. NothingDangles' /\ Refuses(ERROR)
    BY <1>1, <1>3, <1>8 DEF Refuses, OneInFlight, NothingDangles
  <2> QED
    BY <1>1, <1>3, <2>1, SettlesQueue DEF Settles
<1>9. CASE fault' = "released" /\ UNCHANGED <<stack, ret, val, expections>>
  <2>1. NothingDangles'
    BY <1>9 DEF NothingDangles
  <2>2. ~AtCatch'
    BY <1>1, <1>9 DEF AtCatch, Top, Depth
  <2>3. expections' = <<>>
    BY <1>1, <1>3, <1>9, NothingQueued
  <2>4. \A i \in 1..Depth' : GoesThrough(stack[i])'
    BY <1>9 DEF OneInFlight, GoesThrough, Depth
  <2> QED
    BY <2>1, <2>2, <2>3, <2>4 DEF OneInFlight
<1> QED
  BY <1>6, <1>7, <1>8, <1>9

LEMMA LoopsSettle ==
  ASSUME IInv, NothingDangles, ForCondition \/ ForIncrement \/ ForinIterator \/ ForinNext
  PROVE  Settles /\ stack # <<>> /\ ~Waits(Top) /\ Top.pc # "catch"
<1> USE DEF At
<1> DEFINE f(pc) == [Top EXCEPT !.pc = pc]
<1>1. /\ stack # <<>> /\ fault' = fault /\ Kind(Top.n) \in {"FOR", "FORIN"}
      /\ Top.pc \in {"start", "cond", "incr", "next"}
      /\ Kind(Top.n) = "FOR" => Top.pc # "start"
  BY DEF ForCondition, ForIncrement, ForinIterator, ForinNext
<1>2. ~Waits(Top)
  BY <1>1 DEF Waits
<1>3. Top \in Frames /\ Top.n \in Node /\ NothingDangles' /\ None # Fail
  BY <1>1, Quiet, AstAssumption DEF NothingDangles
<1>4. /\ OK \in Codes /\ ERROR \in Codes
      /\ Ast[Top.n].body \in Node
  BY <1>1, <1>3, AstFacts DEF Codes
<1>5. \A pc \in {"body", "cond", "next"} :
         f(pc) \in Frames /\ f(pc).n = Top.n /\ f(pc).pc = pc
  <2>1. \A pc \in {"body", "cond", "next"} : pc \in Points
    BY DEF Points
  <2> QED
    BY <1>3, <2>1, FrameAt
<1>6. ForCondition =>
        \/ Quits(ERROR) \/ Quits(OK)
        \/ val # Fail /\ expections' = expections /\ CallChild(f("body"), Ast[Top.n].body)
  BY DEF ForCondition, Quits
<1>7. ForIncrement => \/ Quits(ERROR)
                      \/ val # Fail /\ expections' = expections /\ Goto(f("cond"))
  BY DEF ForIncrement, Quits
<1>8. ForinIterator => \/ Quits(ERROR)
                       \/ val # Fail /\ expections' = expections /\ Goto(f("next"))
  BY DEF ForinIterator, Quits
<1>9. ForinNext =>
        \/ Quits(OK) \/ Refuses(ERROR)
        \/ val # Fail /\ expections' = expections /\ CallChild(f("body"), Ast[Top.n].body)
  <2>1. ForinNext => val # Fail
    BY <1>1, <1>3, Quiet DEF ForinNext, EvaluatesAt
  <2> QED
    BY <1>3, <2>1 DEF ForinNext, Quits, Refuses
<1> HIDE DEF f
<1>10. Quits(ERROR) \/ Quits(OK) \/ Refuses(ERROR) \/ Enters(Ast[Top.n].body) \/ Proceeds
  BY <1>5, <1>6, <1>7, <1>8, <1>9 DEF Enters, Proceeds
<1> QED
  BY <1>1, <1>2, <1>3, <1>4, <1>10 DEF Settles

-----------------------------------------------------------------------------
(* Expressions, calls and the functions that pass a code on. *)
LEMMA EvaluateQueue ==
  ASSUME IInv, OneInFlight, Evaluate
  PROVE  OneInFlight'
<1>1. /\ stack # <<>> /\ EvaluatesAt(Top) /\ val = None /\ ret = Running
      /\ stack' = stack /\ fault' = fault
      /\ (UNCHANGED expections) \/ (val' = Fail /\ Raise(Top.n))
  BY DEF Evaluate, Evaluating
<1>2. Top.pc # "catch" /\ None # Fail
  BY <1>1, AstAssumption DEF EvaluatesAt
<1>3. expections = <<>>
  BY <1>1, <1>2, NothingQueued DEF Running, ERROR, THROW
<1>4. Len(expections') <= 1 /\ (expections' # <<>> => val' = Fail)
  <2>1. CASE UNCHANGED expections
    BY <1>3, <2>1
  <2>2. CASE val' = Fail /\ Raise(Top.n)
    <3>1. Len(expections') = 1
      BY <1>3, <2>2, OnlyOne
    <3> QED
      BY <2>2, <3>1
  <2> QED
    BY <1>1, <2>1, <2>2
<1>5. ~AtCatch' /\ \A i \in 1..Depth' : GoesThrough(stack[i])'
  BY <1>1, <1>2 DEF AtCatch, Top, Depth, OneInFlight, GoesThrough
<1>6. NothingDangles'
  BY <1>1 DEF OneInFlight, NothingDangles
<1> QED
  BY <1>4, <1>5, <1>6 DEF OneInFlight

LEMMA CallsQueue ==
  ASSUME IInv, OneInFlight, CallFun \/ FunStart \/ NextItem \/ TryBody
  PROVE  OneInFlight'
<1> DEFINE f == [Top EXCEPT !.pc = "body"]
           g == [Top EXCEPT !.i = @ + 1]
<1>1. /\ stack # <<>> /\ expections' = expections /\ fault' = fault /\ ret \in {Running, OK}
      /\ Top.pc \notin {"catch", "handling"} /\ val # Fail
      /\ \/ CallChild(Top, Ast[Top.n].callee) /\ Ast[Top.n].callee # None
         \/ CallChild(f, Ast[Top.n].body) /\ Kind(Top.n) \in {"FUN", "TRY"}
         \/ CallChild(g, Items(Top.n)[Top.i + 1]) /\ Top.i < Len(Items(Top.n))
  <2> USE DEF At
  <2>1. CASE CallFun
    BY <2>1, AstAssumption DEF CallFun, Evaluating, EvaluatesAt
  <2>2. CASE FunStart \/ TryBody
    <3>1. stack # <<>> /\ Kind(Top.n) \in {"FUN", "TRY"} /\ Top.pc = "start"
      BY <2>2 DEF FunStart, TryBody
    <3>2. ~Waits(Top) /\ ~EvaluatesAt(Top)
      BY <3>1 DEF Waits, EvaluatesAt
    <3>3. ret = Running /\ val # Fail
      BY <3>1, <3>2, Quiet, AstAssumption
    <3> QED
      BY <2>2, <3>1, <3>3 DEF FunStart, TryBody
  <2>3. CASE NextItem
    <3>1. stack # <<>> /\ Kind(Top.n) \in {"MODULE", "BODY"} /\ Top.pc = "start"
      BY <2>3 DEF NextItem
    <3>2. ~EvaluatesAt(Top)
      BY <3>1 DEF EvaluatesAt
    <3>3. val # Fail
      BY <3>1, <3>2, Quiet, AstAssumption
    <3> QED
      BY <2>3, <3>1, <3>3 DEF NextItem
  <2> QED
    BY <2>1, <2>2, <2>3
<1>2. Top \in Frames /\ Top.n \in Node /\ Top.i \in Nat
  BY <1>1, Quiet, FrameFacts
<1>3. expections' = <<>> /\ NothingDangles'
  <2>1. ret \notin {ERROR, THROW}
    BY <1>1 DEF Running, OK, ERROR, THROW
  <2>2. NothingDangles'
    BY <1>1 DEF OneInFlight, NothingDangles
  <2> QED
    BY <1>1, <2>1, <2>2, NothingQueued
<1>4. CASE CallChild(Top, Ast[Top.n].callee) /\ Ast[Top.n].callee # None
  <2>1. GoesThrough(Top) /\ Ast[Top.n].callee \in Node
    BY <1>1, <1>2, <1>4, AstFacts DEF GoesThrough
  <2> QED
    BY <1>1, <1>2, <1>3, <1>4, <2>1, QueueCalls
<1>5. CASE CallChild(f, Ast[Top.n].body) /\ Kind(Top.n) \in {"FUN", "TRY"}
  <2>1. Ast[Top.n].body \in Node /\ f \in Frames /\ f.pc = "body"
    BY <1>2, <1>5, AstFacts, FrameAt DEF Points
  <2> HIDE DEF f
  <2>2. GoesThrough(f)
    BY <2>1 DEF GoesThrough
  <2> QED
    BY <1>1, <1>3, <1>5, <2>1, <2>2, QueueCalls
<1>6. CASE CallChild(g, Items(Top.n)[Top.i + 1]) /\ Top.i < Len(Items(Top.n))
  <2>1. Items(Top.n)[Top.i + 1] \in Node /\ g \in Frames /\ g.pc = Top.pc
    BY <1>2, <1>6, AstFacts, FrameNext
  <2> HIDE DEF g
  <2>2. GoesThrough(g)
    BY <1>1, <2>1 DEF GoesThrough
  <2> QED
    BY <1>1, <1>3, <1>6, <2>1, <2>2, QueueCalls
<1> QED
  BY <1>1, <1>4, <1>5, <1>6

(* A function that has ended without a failure finds nothing queued; with a failure it
   leaves the one exception to its caller. *)
LEMMA FunEndQueue ==
  ASSUME ClausesTakeAll, IInv, IInv', OneInFlight, FunEnd
  PROVE  OneInFlight'
<1>1. /\ stack # <<>> /\ Kind(Top.n) = "FUN" /\ Top.pc = "body" /\ ret # Running
      /\ stack' = Pop(stack) /\ fault' = fault
      /\ IF ret \in {BREAK, CONTINUE} THEN Raise(Top.n) ELSE UNCHANGED expections
  BY DEF FunEnd, At
<1>2. /\ Depth' = Depth - 1 /\ Depth \in Nat \ {0}
      /\ \A i \in 1..Depth - 1 : stack'[i] = stack[i]
  BY <1>1, PopStep DEF IInv
<1>3. ~Has(stack[Depth - 1].n, "operator") /\ Depth > 1 /\ val # Fail
  <2>1. Depth > 1 /\ ~EvaluatesAt(Top)
    BY <1>1, <1>2, Quiet DEF IInv, Control, EvaluatesAt
  <2>2. stack[Depth - 1] \in Frames
    BY <1>1, <1>2, <2>1, TopFacts DEF IInv
  <2> QED
    BY <1>1, <2>1, <2>2, Quiet, FrameFacts, AstAssumption DEF ClausesTakeAll
<1>4. /\ ret \in {ERROR, THROW, BREAK, CONTINUE} => val' = Fail
      /\ ret \notin {ERROR, THROW, BREAK, CONTINUE} => ret \in {OK, RETURN}
  <2>1. ret \in Codes
    BY <1>1 DEF IInv, Types
  <2> QED
    BY <1>3, <2>1 DEF FunEnd, Codes, OK, ERROR, BREAK, CONTINUE, THROW, RETURN
<1>5. ret \notin {ERROR, THROW} => expections = <<>>
  BY <1>1, <1>3, NothingQueued
<1>6. Len(expections') <= 1 /\ (expections' # <<>> => val' = Fail)
  <2>1. CASE ret \in {BREAK, CONTINUE}
    <3>1. Raise(Top.n) /\ ret \notin {ERROR, THROW}
      BY <1>1, <2>1 DEF BREAK, CONTINUE, ERROR, THROW
    <3>2. Len(expections') = 1
      BY <1>5, <3>1, OnlyOne
    <3> QED
      BY <1>4, <2>1, <3>2
  <2>2. CASE ret \notin {BREAK, CONTINUE}
    BY <1>1, <1>4, <1>5, <2>2 DEF OneInFlight
  <2> QED
    BY <2>1, <2>2
<1>7. \A i \in 1..Depth' : GoesThrough(stack[i])'
  <2>1. \A i \in 1..Depth' : i \in 1..Depth /\ stack'[i] = stack[i]
    BY <1>2
  <2> QED
    BY <2>1 DEF OneInFlight, GoesThrough
<1>8. ~AtCatch'
  <2>1. stack'[Depth'] = stack[Depth - 1] /\ EvaluatesAt(stack[Depth - 1])
    BY <1>1, <1>2, <1>3, Quiet DEF IInv, Control
  <2> QED
    BY <2>1 DEF AtCatch, Top, EvaluatesAt
<1>9. NothingDangles'
  BY <1>1 DEF OneInFlight, NothingDangles
<1> QED
  BY <1>6, <1>7, <1>8, <1>9 DEF OneInFlight

(* The functions that pass on the code of another. *)
LEMMA PassersQueue ==
  ASSUME IInv, IInv', OneInFlight, ItemsEnd \/ IfEnd \/ ForInit \/ LoopBodyEnd
  PROVE  OneInFlight'
<1> DEFINE f(pc) == [Top EXCEPT !.pc = pc]
           g == [Top EXCEPT !.i = @ + 1]
           n == Items(Top.n)[Top.i + 1]
<1>1. /\ stack # <<>> /\ expections' = expections /\ fault' = fault
      /\ <<Kind(Top.n), Top.pc>> \in {<<"MODULE", "start">>, <<"BODY", "start">>,
            <<"IF", "branch">>, <<"FOR", "start">>, <<"FOR", "body">>, <<"FORIN", "body">>}
  BY DEF ItemsEnd, IfEnd, ForInit, LoopBodyEnd, At
<1>2. /\ Top.pc \notin {"catch", "handling"} /\ val # Fail
  <2>1. Top.pc \notin {"catch", "handling"} /\ ~EvaluatesAt(Top)
    BY <1>1 DEF EvaluatesAt
  <2> QED
    BY <1>1, <2>1, Quiet, AstAssumption
<1>3. /\ Top \in Frames /\ Top.n \in Node /\ Top.i \in Nat /\ ret \in Codes \cup {Running}
      /\ NothingDangles' /\ Len(expections') <= 1
  BY <1>1, Quiet, FrameFacts DEF IInv, Types, OneInFlight, NothingDangles
<1>4. ret \notin {ERROR, THROW} => expections = <<>>
  BY <1>1, <1>2, NothingQueued
<1>5. \/ \E code \in Codes : Return(code) /\ (ret \in {ERROR, THROW} => code = ret)
      \/ ret \notin {ERROR, THROW} /\ CallChild(g, n) /\ Top.i < Len(Items(Top.n))
      \/ ret \notin {ERROR, THROW} /\ \E pc \in {"cond", "incr", "next"} : Goto(f(pc))
  <2>1. ItemsEnd => \E code \in Codes : Return(code) /\ (ret \in {ERROR, THROW} => code = ret)
    <3>1. (IF ret < 0 THEN ret ELSE OK) \in Codes
      BY <1>3 DEF Codes, OK, Running
    <3>2. ret \in {ERROR, THROW} => ret < 0
      BY DEF ERROR, THROW
    <3> QED
      BY <3>1, <3>2 DEF ItemsEnd
  <2>2. IfEnd => Return(ret) /\ ret \in Codes
    BY <1>3 DEF IfEnd
  <2>3. ForInit => \/ ret = ERROR /\ Return(ERROR)
                   \/ ret \in {Running, OK} /\ CallChild(g, n) /\ Top.i < Len(Items(Top.n))
                   \/ ret \in {Running, OK} /\ Goto(f("cond"))
    BY DEF ForInit
  <2>4. LoopBodyEnd => \/ ret = ERROR /\ Return(ERROR)
                       \/ ret \in {OK, CONTINUE} /\ \E pc \in {"incr", "next"} : Goto(f(pc))
                       \/ ret = BREAK /\ Return(OK)
                       \/ ret \in {THROW, RETURN, BREAK, CONTINUE} /\ Return(ret)
    BY DEF LoopBodyEnd, GoesOn
  <2>5. OK \in Codes /\ ERROR \in Codes /\ {THROW, RETURN, BREAK, CONTINUE} \subseteq Codes
        /\ Running \notin {ERROR, THROW} /\ OK \notin {ERROR, THROW}
        /\ CONTINUE \notin {ERROR, THROW} /\ BREAK \notin {ERROR, THROW}
        /\ ERROR # THROW
    BY DEF Codes, Running, OK, ERROR, THROW, CONTINUE, BREAK
  <2> HIDE DEF f, g, n
  <2> QED
    BY <2>1, <2>2, <2>3, <2>4, <2>5
<1>6. ASSUME NEW code \in Codes, Return(code), ret \in {ERROR, THROW} => code = ret
      PROVE  OneInFlight'
  BY <1>1, <1>3, <1>4, <1>6, QueueReturns
<1>7. ASSUME ret \notin {ERROR, THROW}, CallChild(g, n), Top.i < Len(Items(Top.n))
      PROVE  OneInFlight'
  <2>1. g \in Frames /\ g.pc = Top.pc /\ n \in Node
    BY <1>3, <1>7, FrameNext, AstFacts
  <2>2. GoesThrough(g)
    <3> HIDE DEF g
    <3> QED
      BY <1>2, <2>1 DEF GoesThrough
  <2> HIDE DEF g, n
  <2> QED
    BY <1>1, <1>3, <1>4, <1>7, <2>1, <2>2, QueueCalls
<1>8. ASSUME ret \notin {ERROR, THROW}, NEW pc \in {"cond", "incr", "next"}, Goto(f(pc))
      PROVE  OneInFlight'
  <2>1. pc \in Points
    BY DEF Points
  <2>2. f(pc) \in Frames /\ f(pc).pc = pc
    BY <1>3, <2>1, FrameAt
  <2> HIDE DEF f
  <2>3. GoesThrough(f(pc)) /\ f(pc).pc # "catch"
    BY <2>2 DEF GoesThrough
  <2> QED
    BY <1>1, <1>3, <1>4, <1>8, <2>2, <2>3, QueueGoesOn
<1> HIDE DEF f, g, n
<1> QED
  BY <1>5, <1>6, <1>7, <1>8

-----------------------------------------------------------------------------
(* The try statement. *)
LEMMA TryBodyEndQueue ==
  ASSUME IInv, IInv', OneInFlight, TryBodyEnd
  PROVE  OneInFlight'
<1> DEFINE f == [Top EXCEPT !.pc = "catch", !.code = ret, !.b = CellAt(1)]
<1>1. /\ stack # <<>> /\ expections' = expections /\ fault' = fault /\ ret # Running
      /\ Kind(Top.n) = "TRY" /\ Top.pc = "body"
      /\ IF ret \in {THROW, ERROR} THEN Goto(f) ELSE Return(ret)
  BY DEF TryBodyEnd, At, Handles
<1>2. ~EvaluatesAt(Top)
  BY <1>1 DEF EvaluatesAt
<1>3. /\ Top \in Frames /\ ret \in Codes /\ val # Fail
      /\ NothingDangles' /\ Len(expections') <= 1
  BY <1>1, <1>2, Quiet, AstAssumption DEF IInv, Types, OneInFlight, NothingDangles
<1>4. ret \notin {ERROR, THROW} => expections = <<>>
  BY <1>1, <1>3, NothingQueued
<1>5. CASE ret \in {ERROR, THROW}
  <2>1. CellAt(1) \in Nat /\ CellAt(1) \in UsedCells \cup {0}
    <3>1. 1 \in DOMAIN expections => expections[1] \in Cells
      BY DEF IInv
    <3>2. 1 \in DOMAIN expections => expections[1].cell \in Nat
      BY <3>1 DEF Cells
    <3> QED
      BY <3>2 DEF CellAt, UsedCells
  <2>2. f \in Frames /\ f.pc = "catch" /\ f.code = ret /\ f.b = CellAt(1)
    BY <1>3, <1>5, <2>1 DEF Frames, Points
  <2>3. Goto(f)
    BY <1>1, <1>5
  <2> HIDE DEF f
  <2>4. GoesThrough(f)
    BY <1>5, <2>2 DEF GoesThrough
  <2> QED
    BY <1>1, <1>3, <2>1, <2>2, <2>3, <2>4, QueueGoesOn
<1>6. CASE ret \notin {ERROR, THROW}
  BY <1>1, <1>3, <1>4, <1>6, QueueReturns
<1> QED
  BY <1>5, <1>6

(* While a try is at the one exception, nothing comes after it. *)
LEMMA LastOne ==
  ASSUME IInv, OneInFlight, NEW i \in DOMAIN expections
  PROVE  i = 1 /\ CellAfter(i) = 0 /\ Unqueued(i) = <<>>
<1>1. expections \in Seq(Cells) /\ Len(expections) <= 1
  BY DEF IInv, OneInFlight
<1>2. Len(expections) = 1 /\ i = 1 /\ DOMAIN expections = 1..1
  <2>1. Len(expections) \in Nat /\ DOMAIN expections = 1..Len(expections)
    BY <1>1
  <2>2. i \in 1..Len(expections)
    BY <2>1
  <2>3. Len(expections) = 1
    BY <1>1, <2>1, <2>2
  <2> QED
    BY <2>1, <2>2, <2>3
<1>3. SubSeq(expections, 1, 0) = <<>> /\ SubSeq(expections, 2, 1) = <<>>
  BY <1>2, <1>1
<1>4. Unqueued(1) = SubSeq(expections, 1, 0) \o SubSeq(expections, 2, 1)
  BY <1>2 DEF Unqueued
<1> QED
  BY <1>2, <1>3, <1>4 DEF CellAfter, CellAt

LEMMA TryWalkQueue ==
  ASSUME ClausesTakeAll, IInv, IInv', OneInFlight,
         TryEnd \/ TryDangling \/ TryPass \/ TryMismatch
  PROVE  OneInFlight'
<1>1. /\ stack # <<>> /\ Kind(Top.n) = "TRY" /\ Top.pc = "catch" /\ Alive
  BY DEF TryEnd, TryDangling, TryPass, TryMismatch, Catches, At, Alive
<1>2. /\ Top \in Frames /\ Top.n \in Node /\ Top = stack[Depth] /\ Depth \in 1..Depth
  BY <1>1, Quiet
<1>3. GoesThrough(Top) /\ Top.code \in {ERROR, THROW} /\ Top.b \in UsedCells \cup {0}
  BY <1>1, <1>2 DEF OneInFlight, GoesThrough, AtCatch
<1>4. ~TryDangling
  BY <1>3 DEF TryDangling
<1>5. ~TryMismatch
  <2>1. Ast[Top.n].other # None => Ast[Top.n].other \in Node /\ Kind(Ast[Top.n].other) = "CATCH"
    BY <1>1, <1>2, AstFacts
  <2> QED
    BY <2>1 DEF TryMismatch, ClausesTakeAll
<1>6. NothingDangles' /\ Len(expections) <= 1 /\ expections' = expections
  BY <1>4, <1>5 DEF TryEnd, TryPass, OneInFlight, NothingDangles
<1>7. CASE TryEnd
  <2> DEFINE code == RemainingCode(Top.code)
  <2>1. code \in Codes /\ (expections # <<>> => code \in {ERROR, THROW})
    BY <1>3 DEF RemainingCode, Codes
  <2>2. Return(code)
    BY <1>7 DEF TryEnd
  <2> HIDE DEF code
  <2> QED
    BY <1>1, <1>6, <2>1, <2>2, QueueReturns
<1>8. CASE TryPass
  <2>1. PICK i \in DOMAIN expections : Goto([Top EXCEPT !.b = CellAfter(i)])
    BY <1>8 DEF TryPass
  <2> DEFINE f == [Top EXCEPT !.b = CellAfter(i)]
  <2>2. CellAfter(i) = 0
    BY LastOne
  <2>3. f \in Frames /\ f.pc = Top.pc /\ f.code = Top.code /\ f.b = 0
    BY <1>2, <2>2 DEF Frames
  <2>4. fault' = fault /\ Goto(f)
    BY <1>8, <2>1 DEF TryPass
  <2> HIDE DEF f
  <2>5. GoesThrough(f)
    BY <1>1, <1>3, <2>3 DEF GoesThrough
  <2> QED
    BY <1>1, <1>6, <2>3, <2>4, <2>5, QueueGoesOn
<1> QED
  BY <1>4, <1>5, <1>7, <1>8

LEMMA TryCatchQueue ==
  ASSUME IInv, OneInFlight, TryCatch
  PROVE  OneInFlight'
<1>1. PICK i \in DOMAIN expections :
        /\ stack # <<>> /\ Kind(Top.n) = "TRY" /\ Top.pc = "catch"
        /\ Ast[Top.n].other # None
        /\ expections' = Unqueued(i)
        /\ \/ /\ CallChild([Top EXCEPT !.pc = "handling", !.b = CellAfter(i),
                                       !.expection = expections[i].value],
                           Ast[Ast[Top.n].other].body)
              /\ UNCHANGED fault
           \/ fault' = "null dereference" /\ UNCHANGED <<stack, ret, val>>
  BY DEF TryCatch, Catches, At
<1> DEFINE f == [Top EXCEPT !.pc = "handling", !.b = CellAfter(i),
                            !.expection = expections[i].value]
<1>2. /\ Top \in Frames /\ Top.n \in Node /\ Top = stack[Depth] /\ Depth \in 1..Depth
      /\ expections \in Seq(Cells)
  BY <1>1, Quiet DEF IInv
<1>3. GoesThrough(Top) /\ Top.code \in {ERROR, THROW}
  BY <1>1, <1>2 DEF OneInFlight, GoesThrough
<1>4. expections' = <<>> /\ CellAfter(i) = 0 /\ expections[i].value \in Node
  BY <1>1, <1>2, LastOne, QueueFacts
<1>5. CASE CallChild(f, Ast[Ast[Top.n].other].body) /\ UNCHANGED fault
  <2>1. f \in Frames /\ f.pc = "handling" /\ f.code = Top.code /\ f.b = 0
    <3>1. CellAfter(i) \in Nat
      BY <1>4
    <3>2. f \in Frames /\ f.pc = "handling" /\ f.code = Top.code /\ f.b = CellAfter(i)
      <4>1. PICK b \in Nat, v \in Node : b = CellAfter(i) /\ v = expections[i].value
        BY <1>4, <3>1
      <4> DEFINE g == [Top EXCEPT !.pc = "handling", !.b = b, !.expection = v]
      <4>2. g \in Frames /\ g.pc = "handling" /\ g.code = Top.code /\ g.b = b
        BY <1>2 DEF Frames, Points
      <4>3. f = g
        BY <4>1
      <4> HIDE DEF f, g
      <4> QED
        BY <4>1, <4>2, <4>3
    <3> HIDE DEF f
    <3> QED
      BY <1>4, <3>2
  <2>2. Ast[Top.n].other \in Node /\ Kind(Ast[Top.n].other) = "CATCH"
    BY <1>1, <1>2, AstFacts
  <2>3. Ast[Ast[Top.n].other].body \in Node
    BY <2>2, AstFacts
  <2> HIDE DEF f
  <2>4. GoesThrough(f) /\ NothingDangles'
    BY <1>3, <1>5, <2>1 DEF GoesThrough, OneInFlight, NothingDangles
  <2> QED
    BY <1>1, <1>4, <1>5, <2>1, <2>3, <2>4, QueueCalls
<1>6. CASE fault' = "null dereference" /\ UNCHANGED <<stack, ret, val>>
  <2>1. NothingDangles' /\ ~Alive'
    BY <1>6 DEF NothingDangles, Alive
  <2>2. \A k \in 1..Depth' : GoesThrough(stack[k])'
    BY <1>6 DEF OneInFlight, GoesThrough, Depth
  <2>3. Len(expections') <= 1
    BY <1>4
  <2> QED
    BY <1>4, <2>1, <2>2, <2>3 DEF OneInFlight
<1> QED
  BY <1>1, <1>5, <1>6

LEMMA TryCatchEndQueue ==
  ASSUME IInv, IInv', OneInFlight, TryCatchEnd
  PROVE  OneInFlight'
<1> DEFINE f == [Top EXCEPT !.pc = "catch", !.expection = None]
<1>1. /\ stack # <<>> /\ expections' = expections /\ fault' = fault /\ ret # Running
      /\ Kind(Top.n) = "TRY" /\ Top.pc = "handling"
      /\ \/ Return(ret)
         \/ ~(ret < 0) /\ Goto(f)
  BY DEF TryCatchEnd, At
<1>2. ~EvaluatesAt(Top)
  BY <1>1 DEF EvaluatesAt
<1>3. /\ Top \in Frames /\ Top = stack[Depth] /\ Depth \in 1..Depth /\ ret \in Codes /\ val # Fail
      /\ NothingDangles' /\ Len(expections') <= 1
  BY <1>1, <1>2, Quiet, AstAssumption DEF IInv, Types, OneInFlight, NothingDangles
<1>4. ret \notin {ERROR, THROW} => expections = <<>>
  BY <1>1, <1>3, NothingQueued
<1>5. CASE Return(ret)
  BY <1>1, <1>3, <1>4, <1>5, QueueReturns
<1>6. CASE ~(ret < 0) /\ Goto(f)
  <2>1. GoesThrough(Top) /\ Top.code \in {ERROR, THROW} /\ Top.b = 0
    BY <1>1, <1>3 DEF OneInFlight, GoesThrough
  <2>2. f \in Frames /\ f.pc = "catch" /\ f.code = Top.code /\ f.b = 0
    BY <1>3, <2>1 DEF Frames, Points
  <2> HIDE DEF f
  <2>3. GoesThrough(f)
    BY <2>1, <2>2 DEF GoesThrough
  <2> QED
    BY <1>1, <1>3, <1>6, <2>2, <2>3, QueueGoesOn
<1> QED
  BY <1>1, <1>5, <1>6

-----------------------------------------------------------------------------
LEMMA QueueInit == Init => OneInFlight
<1> SUFFICES ASSUME Init PROVE OneInFlight
  OBVIOUS
<1> DEFINE n == CHOOSE m \in Node : Kind(m) = "MODULE"
<1>1. n \in Node
  BY AstAssumption
<1> HIDE DEF n
<1>2. stack = <<Frame(n, "start")>> /\ expections = <<>> /\ NothingDangles
  BY DEF Init, n, NothingDangles
<1>3. Frame(n, "start").pc = "start"
  BY <1>1, NewFrame
<1> DEFINE g == Frame(n, "start")
<1>4. stack = <<g>> /\ g.pc = "start"
  BY <1>2, <1>3
<1> HIDE DEF g
<1>5. Depth = 1 /\ stack[1].pc = "start" /\ Top = stack[1] /\ Len(expections) <= 1
  BY <1>2, <1>4 DEF Depth, Top
<1> QED
  BY <1>2, <1>5 DEF OneInFlight, AtCatch, GoesThrough

LEMMA QueueStep ==
  ClausesTakeAll /\ ChecksConclude /\ IInv /\ OneInFlight /\ [Next]_vars => OneInFlight'
<1> SUFFICES ASSUME ClausesTakeAll, ChecksConclude, IInv, OneInFlight, [Next]_vars
             PROVE  OneInFlight'
  OBVIOUS
<1>0. IInv' /\ NothingDangles
  BY InvariantStep DEF OneInFlight
<1>1. CASE Evaluate \/ CallFun \/ FunStart \/ NextItem \/ TryBody
  BY <1>1, EvaluateQueue, CallsQueue
<1>2. CASE FunEnd \/ ItemsEnd \/ IfEnd \/ ForInit \/ LoopBodyEnd
  BY <1>0, <1>2, FunEndQueue, PassersQueue
<1>3. CASE Var \/ Expr \/ If \/ Throw \/ ReturnStatement \/ Jump
  <2>1. Settles /\ stack # <<>> /\ ~Waits(Top) /\ Top.pc # "catch"
    BY <1>0, <1>3, StatementsSettle
  <2> QED
    BY <1>0, <2>1, Quiet, SettlesQueue DEF Running, ERROR, THROW
<1>7. CASE CheckType
  BY <1>0, <1>7, CheckTypeQueue
<1>4. CASE ForCondition \/ ForIncrement \/ ForinIterator \/ ForinNext
  <2>1. Settles /\ stack # <<>> /\ ~Waits(Top) /\ Top.pc # "catch"
    BY <1>0, <1>4, LoopsSettle
  <2> QED
    BY <1>0, <2>1, Quiet, SettlesQueue DEF Running, ERROR, THROW
<1>5. CASE TryBodyEnd \/ TryEnd \/ TryDangling \/ TryPass \/ TryMismatch \/ TryCatch \/ TryCatchEnd
  BY <1>0, <1>5, TryBodyEndQueue, TryWalkQueue, TryCatchQueue, TryCatchEndQueue
<1>6. CASE UNCHANGED vars
  BY <1>6 DEF vars, OneInFlight, AtCatch, GoesThrough, NothingDangles, Alive, UsedCells, Top, Depth
<1> QED
  BY <1>1, <1>2, <1>3, <1>4, <1>5, <1>6, <1>7 DEF Next, Step, Terminated

LEMMA QueueInvariant ==
  ASSUME ClausesTakeAll, ChecksConclude PROVE Spec => [](IInv /\ OneInFlight)
<1>1. IInv /\ OneInFlight /\ [Next]_vars => IInv' /\ OneInFlight'
  BY InvariantStep, QueueStep
<1> QED
  BY <1>1, InvariantInit, QueueInit, PTL DEF Spec

(* In every program whose clauses take every exception, none of whose operators calls a
   function of the program, and that declares no variable of a generic class: no exception
   is queued but while a failure is on its way out or a try goes through the queue, so that
   a try never finds one that was not raised in its body.  (A check of such a variable's
   type that fails leaves its exception behind.) *)
THEOREM ExceptionsDoNotLinger ==
  ASSUME ClausesTakeAll, ChecksConclude PROVE Spec => []ExceptionsInFlight
<1>1. OneInFlight => ExceptionsInFlight
  BY DEF OneInFlight, ExceptionsInFlight, AtCatch
<1> QED
  BY <1>1, QueueInvariant, PTL

(* In every such program, the walk over the queued exceptions never goes on from a cell
   that its catch body has freed. *)
THEOREM WalkIsSafe ==
  ASSUME ClausesTakeAll, ChecksConclude PROVE Spec => [](fault # "use after free")
<1>1. OneInFlight => fault # "use after free"
  BY DEF OneInFlight, NothingDangles
<1> QED
  BY <1>1, QueueInvariant, PTL

=============================================================================
