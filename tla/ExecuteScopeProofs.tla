------------------------- MODULE ExecuteScopeProofs -------------------------
(***************************************************************************)
(* In every program, the variables of a block or function are gone when it *)
(* is left, by whatever code, and those of a loop when it is left by       *)
(* anything but an error.                                                  *)
(*                                                                         *)
(* The activation records and the stack of C functions are two structures  *)
(* that are pushed and popped by different functions.  What ties them      *)
(* together (Shape) is that there is a record for every function on the    *)
(* stack, and one for the module; and a declaration is a child of the      *)
(* block whose function is below it, so that the scope it declares in is   *)
(* open in the record it declares in (Scopes).                             *)
(*                                                                         *)
(* In a program whose labels name loops around their jumps, a labelled     *)
(* jump on its way is for a loop that still runs in its activation: a      *)
(* statement has the loops it stands in below it on the stack (Covered).   *)
(***************************************************************************)
EXTENDS ExecuteProofs, FiniteSetTheorems

Records == [variables : SUBSET Entries, inputs : SUBSET Entries]

\* The number of the activation that the i-th frame of a stack runs in.
Act(s, i) == 1 + Cardinality({j \in 1..i : Kind(s[j].n) = "FUN"})

\* One record for the module and for each function; the module is the first frame
\* only, and a declaration stands on what it is part of.
Shape ==
  /\ IF stack = <<>> THEN strips = <<>> ELSE Level = Act(stack, Depth)
  /\ \A i \in 2..Depth :
       /\ Kind(stack[i].n) # "MODULE"
       /\ Kind(stack[i].n) = "VAR" => stack[i].n \in Children(stack[i - 1].n)

\* The function for x is on the stack, in an activation.
IsOpen(level, x) == \E i \in 1..Depth : Act(stack, i) = level /\ stack[i].n = x

BlockKinds == {"BODY", "FUN"}

\* Variables of blocks are of open ones; inputs are of the function of the activation,
\* or of a catch clause.
Scopes ==
  \A level \in 1..Level :
    /\ \A e \in strips[level].variables :
          Kind(e.scope) \in BlockKinds => IsOpen(level, e.scope)
    /\ \A e \in strips[level].inputs :
          Kind(e.scope) = "CATCH" \/ (Kind(e.scope) = "FUN" /\ IsOpen(level, e.scope))

SInv == /\ strips \in Seq(Records)
        /\ symbols \subseteq Entries
        /\ fault \in {"none", "released", "use after free", "null dereference"}
        /\ Shape
        /\ Scopes

-----------------------------------------------------------------------------
(* Activations are counted along the stack, and depend on the frames below only. *)
LEMMA ActFacts ==
  ASSUME NEW s, NEW i \in Nat
  PROVE  /\ Act(s, i) \in Nat \ {0}
         /\ Act(s, 0) = 1
         /\ Act(s, i + 1) = IF Kind(s[i + 1].n) = "FUN" THEN Act(s, i) + 1 ELSE Act(s, i)
<1> DEFINE funs(k) == {j \in 1..k : Kind(s[j].n) = "FUN"}
<1>1. IsFiniteSet(funs(i)) /\ Cardinality(funs(i)) \in Nat
  <2>1. IsFiniteSet(1..i) /\ funs(i) \in SUBSET (1..i)
    BY FS_Interval
  <2> QED
    BY <2>1, FS_Subset, FS_CardinalityType
<1>2. funs(0) = {} /\ Cardinality({}) = 0
  BY FS_EmptySet
<1>3. /\ i + 1 \notin funs(i)
      /\ funs(i + 1) = IF Kind(s[i + 1].n) = "FUN" THEN funs(i) \cup {i + 1} ELSE funs(i)
  OBVIOUS
<1>4. Cardinality(funs(i + 1)) = IF Kind(s[i + 1].n) = "FUN" THEN Cardinality(funs(i)) + 1
                                 ELSE Cardinality(funs(i))
  <2> HIDE DEF funs
  <2> QED
    BY <1>1, <1>3, FS_AddElement
<1>5. \A k : Act(s, k) = 1 + Cardinality(funs(k))
  BY DEF Act
<1> HIDE DEF funs
<1> QED
  BY <1>1, <1>2, <1>4, <1>5

LEMMA SameAct ==
  ASSUME NEW s, NEW t, NEW m \in Nat, \A i \in 1..m : t[i].n = s[i].n,
         NEW k \in 0..m
  PROVE  Act(t, k) = Act(s, k)
<1>1. {j \in 1..k : Kind(t[j].n) = "FUN"} = {j \in 1..k : Kind(s[j].n) = "FUN"}
  OBVIOUS
<1> QED
  BY <1>1 DEF Act

\* The three ways a step changes the stack, by what the frames are of.
Adds(n) == /\ Depth' = Depth + 1
           /\ \A i \in 1..Depth : stack'[i].n = stack[i].n
           /\ stack'[Depth + 1].n = n
           /\ stack' # <<>>
Stays == /\ Depth' = Depth
         /\ \A i \in 1..Depth : stack'[i].n = stack[i].n
         /\ stack' # <<>>
Drops == /\ Depth' = Depth - 1
         /\ \A i \in 1..Depth - 1 : stack'[i].n = stack[i].n
         /\ stack' = <<>> <=> Depth = 1

LEMMA CallAdds ==
  ASSUME Types, stack # <<>>, NEW f, f.n = Top.n, NEW n \in Node, CallChild(f, n)
  PROVE  Adds(n)
<1>1. stack \in Seq(Frames \cup {f}) /\ Depth \in Nat \ {0} /\ Depth \in 1..Depth
  BY TopFacts DEF Types
<1>2. Top = stack[Depth]
  BY TopFacts
<1> DEFINE s == [stack EXCEPT ![Depth] = f]
<1>3. /\ s \in Seq(Frames \cup {f}) /\ Len(s) = Depth
      /\ \A i \in 1..Depth : s[i] = IF i = Depth THEN f ELSE stack[i]
  BY <1>1 DEF Depth
<1>4. stack' = Append(s, Frame(n, "start"))
  BY DEF CallChild
<1> HIDE DEF s
<1>5. /\ Depth' = Depth + 1 /\ stack' # <<>>
      /\ \A i \in 1..Depth : stack'[i] = s[i]
      /\ stack'[Depth + 1] = Frame(n, "start")
  <2> PICK g : g = Frame(n, "start")
    OBVIOUS
  <2>1. /\ Append(s, g) \in Seq(Frames \cup {f, g}) /\ Len(Append(s, g)) = Len(s) + 1
        /\ \A i \in 1..Len(s) : Append(s, g)[i] = s[i]
        /\ Append(s, g)[Len(s) + 1] = g
    BY <1>3
  <2> QED
    BY <1>1, <1>3, <1>4, <2>1 DEF Depth
<1> QED
  BY <1>1, <1>2, <1>3, <1>5, NewFrame DEF Adds

LEMMA GotoStays ==
  ASSUME Types, stack # <<>>, NEW f, f.n = Top.n, Goto(f)
  PROVE  Stays
<1>1. stack \in Seq(Frames \cup {f}) /\ Depth \in Nat \ {0} /\ Depth \in 1..Depth
  BY TopFacts DEF Types
<1>2. stack' = [stack EXCEPT ![Depth] = f] /\ Top = stack[Depth]
  BY TopFacts DEF Goto
<1>3. /\ Depth' = Depth /\ stack' # <<>>
      /\ \A i \in 1..Depth : stack'[i] = IF i = Depth THEN f ELSE stack[i]
  BY <1>1, <1>2 DEF Depth
<1> QED
  BY <1>1, <1>2, <1>3 DEF Stays

LEMMA PopDrops ==
  ASSUME Types, stack # <<>>, stack' = Pop(stack)
  PROVE  Drops
<1>1. /\ stack' \in Seq(Frames) /\ Depth' = Depth - 1 /\ Depth \in Nat \ {0}
      /\ \A i \in 1..Depth - 1 : stack'[i] = stack[i]
  BY PopStep
<1>2. stack' = <<>> <=> Depth = 1
  BY <1>1 DEF Depth
<1> QED
  BY <1>1, <1>2 DEF Drops

-----------------------------------------------------------------------------
\* What a step that stays in its activation does to the records: what it adds to one
\* is of an open block or of none, and it adds no inputs but a clause's.
Keeps ==
  /\ strips' \in Seq(Records)
  /\ Level' = Level
  /\ symbols' \subseteq Entries
  /\ fault' \in {"none", "released", "use after free", "null dereference"}
  /\ \A level \in 1..Level :
       /\ \A e \in strips'[level].variables :
            \/ e \in strips[level].variables
            \/ Kind(e.scope) \in BlockKinds => IsOpen(level, e.scope)
       /\ \A e \in strips'[level].inputs :
            e \in strips[level].inputs \/ Kind(e.scope) = "CATCH"

LEMMA StaysKeeps ==
  ASSUME Types, SInv, stack # <<>>, Stays, Keeps
  PROVE  SInv'
<1>1. Depth \in Nat \ {0} /\ stack' # <<>>
  BY TopFacts DEF Stays, Depth
<1>2. \A k \in 0..Depth : Act(stack', k) = Act(stack, k)
  BY <1>1, SameAct DEF Stays
<1>3. Shape'
  <2>1. Level' = Act(stack', Depth')
    <3>1. Level = Act(stack, Depth)
      BY DEF SInv, Shape
    <3>2. Level' = Level
      BY DEF Keeps
    <3>3. Depth' = Depth /\ Depth \in 0..Depth
      BY <1>1 DEF Stays
    <3> QED
      BY <1>2, <3>1, <3>2, <3>3
  <2>2. ASSUME NEW i \in 2..Depth'
        PROVE  /\ Kind(stack'[i].n) # "MODULE"
               /\ Kind(stack'[i].n) = "VAR" => stack'[i].n \in Children(stack'[i - 1].n)
    <3>1. i \in 2..Depth /\ i \in 1..Depth /\ i - 1 \in 1..Depth
      BY <1>1 DEF Stays
    <3> QED
      BY <3>1 DEF SInv, Shape, Stays
  <2> QED
    BY <1>1, <2>1, <2>2 DEF Shape
<1>4. \A level, x : IsOpen(level, x) => IsOpen(level, x)'
  BY <1>1, <1>2 DEF IsOpen, Stays
<1>5. Scopes'
  BY <1>4 DEF SInv, Scopes, Keeps
<1> QED
  BY <1>3, <1>5 DEF SInv, Keeps

LEMMA AddsKeeps ==
  ASSUME Types, SInv, stack # <<>>, NEW n \in Node, Adds(n), Keeps,
         Kind(n) \notin {"FUN", "MODULE"},
         Kind(n) = "VAR" => n \in Children(Top.n)
  PROVE  SInv'
<1>1. Depth \in Nat \ {0} /\ stack' # <<>> /\ Top = stack[Depth]
  BY TopFacts DEF Adds, Depth
<1>2. \A k \in 0..Depth : Act(stack', k) = Act(stack, k)
  BY <1>1, SameAct DEF Adds
<1>3. Act(stack', Depth + 1) = Act(stack, Depth)
  <2>1. Act(stack', Depth + 1) = Act(stack', Depth)
    BY <1>1, ActFacts DEF Adds
  <2> QED
    BY <1>1, <1>2, <2>1
<1>4. Shape'
  <2>1. Level' = Act(stack', Depth')
    BY <1>1, <1>3 DEF SInv, Shape, Adds, Keeps
  <2>2. ASSUME NEW i \in 2..Depth'
        PROVE  /\ Kind(stack'[i].n) # "MODULE"
               /\ Kind(stack'[i].n) = "VAR" => stack'[i].n \in Children(stack'[i - 1].n)
    <3>1. CASE i = Depth + 1
      <4>1. stack'[i].n = n /\ stack'[i - 1].n = Top.n
        BY <1>1, <3>1 DEF Adds
      <4> QED
        BY <4>1
    <3>2. CASE i # Depth + 1
      <4>1. i \in 2..Depth /\ i \in 1..Depth /\ i - 1 \in 1..Depth
        BY <1>1, <3>2 DEF Adds
      <4> QED
        BY <4>1 DEF SInv, Shape, Adds
    <3> QED
      BY <3>1, <3>2
  <2> QED
    BY <1>1, <2>1, <2>2 DEF Shape
<1>5. \A level, x : IsOpen(level, x) => IsOpen(level, x)'
  BY <1>1, <1>2 DEF IsOpen, Adds
<1>6. Scopes'
  BY <1>5 DEF SInv, Scopes, Keeps
<1> QED
  BY <1>4, <1>6 DEF SInv, Keeps

\* A block that is left leaves no variables behind in its activation.
LEMMA DropsKeeps ==
  ASSUME Types, SInv, Control, stack # <<>>, Drops, Keeps,
         Kind(Top.n) \notin {"FUN", "MODULE"},
         Kind(Top.n) = "BODY" => \A e \in strips'[Level].variables : e.scope # Top.n
  PROVE  SInv'
<1>1. Depth \in Nat \ {0} /\ Top = stack[Depth]
  BY TopFacts
<1>2. Depth > 1 /\ stack' # <<>>
  BY <1>1 DEF Control, Drops, Depth
<1>3. \A k \in 0..Depth - 1 : Act(stack', k) = Act(stack, k)
  <2>1. Depth - 1 \in Nat /\ \A i \in 1..Depth - 1 : stack'[i].n = stack[i].n
    BY <1>1 DEF Drops
  <2> QED
    BY <2>1, SameAct
<1>4. Act(stack, Depth) = Act(stack, Depth - 1)
  <2>1. Depth - 1 \in Nat /\ (Depth - 1) + 1 = Depth
    BY <1>1
  <2> QED
    BY <1>1, <2>1, ActFacts
<1>5. Shape'
  <2>1. Level' = Act(stack', Depth')
    <3>1. Level = Act(stack, Depth)
      BY DEF SInv, Shape
    <3>2. Level' = Level
      BY DEF Keeps
    <3>3. Depth' = Depth - 1 /\ Depth - 1 \in 0..Depth - 1
      BY <1>1 DEF Drops
    <3> QED
      BY <1>3, <1>4, <3>1, <3>2, <3>3
  <2>2. ASSUME NEW i \in 2..Depth'
        PROVE  /\ Kind(stack'[i].n) # "MODULE"
               /\ Kind(stack'[i].n) = "VAR" => stack'[i].n \in Children(stack'[i - 1].n)
    <3>1. i \in 2..Depth /\ i \in 1..Depth - 1 /\ i - 1 \in 1..Depth - 1
      BY <1>1 DEF Drops
    <3> QED
      BY <3>1 DEF SInv, Shape, Drops
  <2> QED
    BY <1>2, <2>1, <2>2 DEF Shape
<1>6. \A level, x : IsOpen(level, x) /\ (x # Top.n \/ level # Level) => IsOpen(level, x)'
  <2>1. Level = Act(stack, Depth)
    BY DEF SInv, Shape
  <2> QED
    BY <1>1, <1>3, <2>1 DEF IsOpen, Drops
<1>7. Scopes'
  BY <1>6 DEF SInv, Scopes, Keeps, BlockKinds
<1> QED
  BY <1>5, <1>7 DEF SInv, Keeps

-----------------------------------------------------------------------------
(* The record in use. *)
LEMMA RecordFacts ==
  ASSUME Types, SInv, stack # <<>>
  PROVE  /\ Level \in Nat \ {0} /\ Level \in 1..Level
         /\ \A level \in 1..Level : strips[level] \in Records
         /\ strips[Level] \in Records
         /\ Variables \subseteq Entries /\ Inputs \subseteq Entries
<1>1. strips \in Seq(Records) /\ Level = Act(stack, Depth) /\ Depth \in Nat
  BY TopFacts DEF SInv, Shape
<1>2. Level \in Nat \ {0}
  BY <1>1, ActFacts
<1>3. \A level \in 1..Level : strips[level] \in Records
  BY <1>1 DEF Level
<1> QED
  BY <1>2, <1>3 DEF Variables, Inputs, Records

LEMMA Unmoved ==
  ASSUME SInv, UNCHANGED <<strips, symbols, fault>>
  PROVE  Keeps
BY DEF SInv, Keeps, Level

LEMMA Replaced ==
  ASSUME NEW S, NEW s \in Seq(S), NEW k \in 1..Len(s), NEW r \in S
  PROVE  LET t == [s EXCEPT ![k] = r]
         IN  /\ t \in Seq(S) /\ Len(t) = Len(s)
             /\ \A i \in 1..Len(s) : t[i] = IF i = k THEN r ELSE s[i]
  OBVIOUS

LEMMA Dropped ==
  ASSUME NEW S, NEW s \in Seq(S), s # <<>>
  PROVE  /\ Pop(s) \in Seq(S) /\ Len(Pop(s)) = Len(s) - 1 /\ Len(s) \in Nat \ {0}
         /\ \A i \in 1..Len(s) - 1 : Pop(s)[i] = s[i]
<1> DEFINE m == Len(s) - 1
<1>1. Len(s) \in Nat \ {0} /\ m \in Nat /\ \A i \in 1..m : s[i] \in S
  OBVIOUS
<1> HIDE DEF m
<1>2. /\ SubSeq(s, 1, m) \in Seq(S)
      /\ Len(SubSeq(s, 1, m)) = IF 1 <= m THEN m - 1 + 1 ELSE 0
      /\ \A i \in 1..m - 1 + 1 : SubSeq(s, 1, m)[i] = s[1 + i - 1]
  BY <1>1, SubSeqProperties
<1>3. m - 1 + 1 = m /\ (1 <= m \/ m = 0) /\ \A i \in 1..m : 1 + i - 1 = i
  BY <1>1
<1> QED
  BY <1>1, <1>2, <1>3 DEF m, Pop

LEMMA RecordReplaced ==
  ASSUME strips \in Seq(Records), NEW r \in Records, NEW k \in 1..Len(strips)
  PROVE  LET t == [strips EXCEPT ![k] = r]
         IN  /\ t \in Seq(Records) /\ Len(t) = Len(strips)
             /\ \A i \in 1..Len(strips) : t[i] = IF i = k THEN r ELSE strips[i]
  BY Replaced

LEMMA RecordChanges ==
  ASSUME Types, SInv, stack # <<>>, NEW r \in Records, strips' = [strips EXCEPT ![Level] = r],
         \A e \in r.variables : \/ e \in Variables
                                \/ Kind(e.scope) \in BlockKinds => IsOpen(Level, e.scope),
         \A e \in r.inputs : e \in Inputs \/ Kind(e.scope) = "CATCH",
         symbols' \subseteq Entries,
         fault' \in {"none", "released", "use after free", "null dereference"}
  PROVE  Keeps /\ strips'[Level] = r
<1>1. strips \in Seq(Records) /\ Level \in Nat \ {0} /\ Level \in 1..Level
  BY RecordFacts DEF SInv
<1>a. Level \in 1..Len(strips)
  BY <1>1 DEF Level
<1>0. LET t == [strips EXCEPT ![Level] = r]
      IN  /\ t \in Seq(Records) /\ Len(t) = Len(strips)
          /\ \A level \in 1..Len(strips) : t[level] = IF level = Level THEN r ELSE strips[level]
  BY <1>1, <1>a, RecordReplaced
<1>2. /\ strips' \in Seq(Records) /\ Level' = Level
      /\ \A level \in 1..Level : strips'[level] = IF level = Level THEN r ELSE strips[level]
  BY <1>0 DEF Level
<1>3. \A level \in 1..Level :
       /\ \A e \in strips'[level].variables :
            \/ e \in strips[level].variables
            \/ Kind(e.scope) \in BlockKinds => IsOpen(level, e.scope)
       /\ \A e \in strips'[level].inputs :
            e \in strips[level].inputs \/ Kind(e.scope) = "CATCH"
  BY <1>2 DEF Variables, Inputs
<1> QED
  BY <1>1, <1>2, <1>3 DEF Keeps

LEMMA ScopeRemoved ==
  ASSUME Types, SInv, stack # <<>>, NEW n, RemoveByScope(n), UNCHANGED <<symbols, fault>>
  PROVE  Keeps /\ \A e \in strips'[Level].variables : e.scope # n
<1> DEFINE r == [strips[Level] EXCEPT !.variables = {e \in @ : e.scope # n}]
<1>1. strips[Level] \in Records
  BY RecordFacts
<1>2. /\ r \in Records
      /\ r.variables = {e \in Variables : e.scope # n}
      /\ r.inputs = Inputs
  BY <1>1 DEF Records, Variables, Inputs
<1>3. strips' = [strips EXCEPT ![Level] = r]
  BY DEF RemoveByScope
<1>4. symbols' \subseteq Entries /\ fault' \in {"none", "released", "use after free", "null dereference"}
  BY DEF SInv
<1> HIDE DEF r
<1>5. Keeps /\ strips'[Level] = r
  BY <1>2, <1>3, <1>4, RecordChanges
<1> QED
  BY <1>2, <1>5

(* What statements other than blocks do keeps the records in shape. *)
LEMMA StatementReturns ==
  ASSUME IInv, SInv, stack # <<>>, NEW code, Return(code), Keeps,
         Kind(Top.n) \notin {"FUN", "MODULE", "BODY"}
  PROVE  SInv'
BY PopDrops, DropsKeeps DEF IInv, Return

LEMMA StatementGoesOn ==
  ASSUME IInv, SInv, stack # <<>>, NEW f, f.n = Top.n, Goto(f), Keeps
  PROVE  SInv'
BY GotoStays, StaysKeeps DEF IInv

LEMMA StatementCalls ==
  ASSUME IInv, SInv, stack # <<>>, NEW f, f.n = Top.n, NEW n \in Node, CallChild(f, n), Keeps,
         Kind(n) \notin {"FUN", "MODULE"},
         Kind(n) = "VAR" => n \in Children(Top.n)
  PROVE  SInv'
BY CallAdds, AddsKeeps DEF IInv

(* The place a node stands in is the node it is a part of. *)
LEMMA ParentOf ==
  ASSUME NEW p \in Node, NEW n \in Node, n \in Children(p)
  PROVE  Parent[n] = p
<1>1. \A q \in Node : n \in Children(q) => q = p
  <2>1. ASSUME NEW q \in Node, n \in Children(q), q # p
        PROVE  FALSE
    <3>1. n \in Children(p) \cap Children(q) /\ n # None
      BY <2>1, AstAssumption
    <3> QED
      BY <2>1, <3>1, TreeAssumption
  <2> QED
    BY <2>1
<1>2. (CHOOSE q \in Node : n \in Children(q)) = p
  BY <1>1
<1> QED
  BY <1>2 DEF Parent

LEMMA ItemsAreChildren ==
  ASSUME NEW n \in Node, NEW i \in 1..Len(Items(n))
  PROVE  /\ Items(n)[i] \in Node /\ Items(n)[i] \in Children(n)
         /\ Kind(Items(n)[i]) \notin {"FUN", "MODULE"}
  BY AstFacts DEF Children

-----------------------------------------------------------------------------
(* Calls: the record of an activation comes with its function and goes with it. *)
LEMMA CallFunScopes ==
  ASSUME IInv, SInv, CallFun
  PROVE  SInv'
<1> DEFINE f == Ast[Top.n].callee
           r == [variables |-> {},
                 inputs |-> IF Ast[f].key = None THEN {} ELSE {Entry(f, Ast[f].key, Top.n)}]
<1>1. /\ stack # <<>> /\ f # None /\ CallChild(Top, f)
      /\ strips' = Append(strips, r) /\ symbols' = symbols /\ fault' = fault
  BY DEF CallFun, Evaluating
<1>2. /\ Top.n \in Node /\ f \in Node /\ Kind(f) = "FUN" /\ Depth \in Nat \ {0}
      /\ Level \in Nat \ {0} /\ Level = Act(stack, Depth) /\ strips \in Seq(Records)
  BY <1>1, Quiet, AstFacts, RecordFacts DEF IInv, SInv, Shape
<1>3. r \in Records /\ \A e \in r.inputs : e.scope = f
  <2>1. Ast[f] \in AstRecords
    BY <1>2, AstAssumption
  <2>2. Ast[f].key # None => Ast[f].key \in STRING
    BY <2>1 DEF AstRecords
  <2> QED
    BY <1>2, <2>2 DEF Records, Entries, Entry
<1> HIDE DEF f
<1>4. Adds(f)
  BY <1>1, <1>2, CallAdds DEF IInv
<1>5. r.variables = {}
  OBVIOUS
<1> HIDE DEF r
<1>6. /\ strips' \in Seq(Records) /\ Level' = Level + 1
      /\ strips'[Level + 1] = r
      /\ \A level \in 1..Level : strips'[level] = strips[level]
  BY <1>1, <1>2, <1>3 DEF Level
<1>7. \A k \in 0..Depth : Act(stack', k) = Act(stack, k)
  BY <1>2, <1>4, SameAct DEF Adds
<1>8. Act(stack', Depth + 1) = Level + 1
  <2>1. Act(stack', Depth + 1) = Act(stack', Depth) + 1
    BY <1>2, <1>4, ActFacts DEF Adds
  <2> QED
    BY <1>2, <1>7, <2>1
<1>9. Shape'
  <2>1. stack' # <<>> /\ Level' = Act(stack', Depth')
    BY <1>4, <1>6, <1>8 DEF Adds
  <2>2. ASSUME NEW i \in 2..Depth'
        PROVE  /\ Kind(stack'[i].n) # "MODULE"
               /\ Kind(stack'[i].n) = "VAR" => stack'[i].n \in Children(stack'[i - 1].n)
    <3>1. CASE i = Depth + 1
      BY <1>2, <1>4, <3>1 DEF Adds
    <3>2. CASE i # Depth + 1
      <4>1. i \in 2..Depth /\ i \in 1..Depth /\ i - 1 \in 1..Depth
        BY <1>2, <1>4, <3>2 DEF Adds
      <4> QED
        BY <4>1, <1>4 DEF SInv, Shape, Adds
    <3> QED
      BY <3>1, <3>2
  <2> QED
    BY <2>1, <2>2 DEF Shape
<1>10. \A level, x : IsOpen(level, x) => IsOpen(level, x)'
  BY <1>2, <1>4, <1>7 DEF IsOpen, Adds
<1>11. ASSUME NEW level, level = Level + 1, NEW x, x = f
       PROVE  IsOpen(level, x)'
  BY <1>2, <1>4, <1>8, <1>11 DEF IsOpen, Adds
<1>12. ASSUME NEW level \in 1..Level'
       PROVE  /\ \A e \in strips'[level].variables :
                    Kind(e.scope) \in BlockKinds => IsOpen(level, e.scope)'
              /\ \A e \in strips'[level].inputs :
                    \/ Kind(e.scope) = "CATCH"
                    \/ Kind(e.scope) = "FUN" /\ IsOpen(level, e.scope)'
  <2>1. CASE level = Level + 1
    BY <1>2, <1>3, <1>5, <1>6, <1>11, <2>1
  <2>2. CASE level # Level + 1
    <3>1. level \in 1..Level
      BY <1>2, <1>6, <2>2
    <3>2. strips'[level] = strips[level]
      BY <1>6, <3>1
    <3> QED
      BY <1>10, <3>1, <3>2 DEF SInv, Scopes
  <2> QED
    BY <2>1, <2>2
<1>13. Scopes'
  BY <1>12 DEF Scopes
<1> QED
  BY <1>1, <1>6, <1>9, <1>13 DEF SInv

LEMMA FunEndScopes ==
  ASSUME IInv, SInv, FunEnd
  PROVE  SInv'
<1>1. /\ stack # <<>> /\ Kind(Top.n) = "FUN" /\ stack' = Pop(stack)
      /\ strips' = Pop(strips) /\ symbols' = symbols /\ fault' = fault
  BY DEF FunEnd, At
<1>2. /\ Depth \in Nat \ {0} /\ Top = stack[Depth]
      /\ Level \in Nat \ {0} /\ Level = Act(stack, Depth) /\ strips \in Seq(Records)
  BY <1>1, Quiet, RecordFacts DEF IInv, SInv, Shape
<1>3. Drops
  BY <1>1, PopDrops DEF IInv
<1>4. Depth > 1 /\ stack' # <<>>
  BY <1>1, <1>2, <1>3 DEF IInv, Control, Drops, Depth
<1>5. /\ strips' \in Seq(Records) /\ Level' = Level - 1
      /\ \A level \in 1..Level - 1 : strips'[level] = strips[level]
  <2>1. strips # <<>>
    BY <1>2 DEF Level
  <2> QED
    BY <1>1, <1>2, <2>1, Dropped DEF Level
<1>6. \A k \in 0..Depth - 1 : Act(stack', k) = Act(stack, k)
  <2>1. Depth - 1 \in Nat /\ \A i \in 1..Depth - 1 : stack'[i].n = stack[i].n
    BY <1>2, <1>3 DEF Drops
  <2> QED
    BY <2>1, SameAct
<1>7. Level = Act(stack, Depth - 1) + 1 /\ Act(stack, Depth - 1) \in Nat
  <2>1. Depth - 1 \in Nat /\ (Depth - 1) + 1 = Depth
    BY <1>2
  <2> QED
    BY <1>1, <1>2, <2>1, ActFacts
<1>8. Shape'
  <2>1. Level' = Act(stack', Depth')
    BY <1>2, <1>3, <1>5, <1>6, <1>7 DEF Drops
  <2>2. ASSUME NEW i \in 2..Depth'
        PROVE  /\ Kind(stack'[i].n) # "MODULE"
               /\ Kind(stack'[i].n) = "VAR" => stack'[i].n \in Children(stack'[i - 1].n)
    <3>1. i \in 2..Depth /\ i \in 1..Depth - 1 /\ i - 1 \in 1..Depth - 1
      BY <1>2, <1>3 DEF Drops
    <3> QED
      BY <1>3, <3>1 DEF SInv, Shape, Drops
  <2> QED
    BY <1>4, <2>1, <2>2 DEF Shape
<1>9. ASSUME NEW level \in 1..Level', NEW x, IsOpen(level, x)
      PROVE  IsOpen(level, x)'
  <2>1. PICK i \in 1..Depth : Act(stack, i) = level /\ stack[i].n = x
    BY <1>9 DEF IsOpen
  <2>2. i # Depth
    BY <1>2, <1>5, <2>1
  <2>3. i \in 1..Depth - 1 /\ i \in 0..Depth - 1
    BY <1>2, <2>2
  <2> QED
    BY <1>3, <1>6, <2>1, <2>3 DEF IsOpen, Drops
<1>10. Scopes'
  <2>1. \A level \in 1..Level' : level \in 1..Level /\ strips'[level] = strips[level]
    BY <1>2, <1>5
  <2> QED
    BY <1>9, <2>1 DEF SInv, Scopes
<1> QED
  BY <1>1, <1>5, <1>8, <1>10 DEF SInv

LEMMA FunStartScopes ==
  ASSUME IInv, SInv, FunStart
  PROVE  SInv'
<1> DEFINE f == [Top EXCEPT !.pc = "body"]
           n == Ast[Top.n].body
           r == [strips[Level] EXCEPT !.variables = @ \cup Inputs]
<1>1. /\ stack # <<>> /\ Kind(Top.n) = "FUN" /\ CallChild(f, n)
      /\ strips' = [strips EXCEPT ![Level] = r]
      /\ symbols' = symbols /\ fault' = fault
  BY DEF FunStart, At
<1>2. f.n = Top.n /\ n \in Node /\ Kind(n) = "BODY"
  BY <1>1, Quiet, AstFacts DEF Frames
<1>3. /\ r \in Records
      /\ r.variables = Variables \cup Inputs /\ r.inputs = Inputs
  BY <1>1, RecordFacts DEF IInv, Records, Variables, Inputs
<1>4. \A e \in Inputs : Kind(e.scope) \in BlockKinds => IsOpen(Level, e.scope)
  BY <1>1, RecordFacts DEF IInv, SInv, Scopes, Inputs, BlockKinds
<1> HIDE DEF f, n, r
<1>5. Keeps
  BY <1>1, <1>3, <1>4, RecordChanges DEF IInv, SInv
<1> QED
  BY <1>1, <1>2, <1>5, StatementCalls


-----------------------------------------------------------------------------
(* Blocks and declarations. *)
LEMMA NextItemScopes ==
  ASSUME IInv, SInv, NextItem
  PROVE  SInv'
<1> DEFINE f == [Top EXCEPT !.i = @ + 1]
           n == Items(Top.n)[Top.i + 1]
<1>1. /\ stack # <<>> /\ Top.i < Len(Items(Top.n)) /\ CallChild(f, n)
      /\ UNCHANGED <<strips, symbols, fault>>
  BY DEF NextItem
<1>2. Top \in Frames /\ Top.n \in Node /\ Top.i \in Nat /\ f.n = Top.n
  BY <1>1, Quiet, FrameFacts, FrameNext
<1>3. n \in Node /\ n \in Children(Top.n) /\ Kind(n) \notin {"FUN", "MODULE"}
  <2>1. Len(Items(Top.n)) \in Nat
    BY <1>2, AstFacts
  <2>2. Top.i + 1 \in 1..Len(Items(Top.n))
    BY <1>1, <1>2, <2>1
  <2> QED
    BY <1>2, <2>2, ItemsAreChildren
<1> HIDE DEF f, n
<1> QED
  BY <1>1, <1>2, <1>3, Unmoved, StatementCalls

LEMMA ItemsEndScopes ==
  ASSUME IInv, SInv, ItemsEnd
  PROVE  SInv'
<1>1. /\ stack # <<>> /\ Kind(Top.n) \in {"MODULE", "BODY"} /\ stack' = Pop(stack)
      /\ IF Kind(Top.n) = "MODULE" THEN strips' = Pop(strips) ELSE RemoveByScope(Top.n)
      /\ symbols' = symbols /\ fault' = fault
  BY DEF ItemsEnd, At, Return, CloseBody
<1>2. Drops
  BY <1>1, PopDrops DEF IInv
<1>3. CASE Kind(Top.n) = "MODULE"
  <2>1. /\ Depth \in Nat \ {0} /\ Top = stack[Depth]
        /\ Level \in Nat \ {0} /\ Level = Act(stack, Depth) /\ strips \in Seq(Records)
    BY <1>1, Quiet, RecordFacts DEF IInv, SInv, Shape
  <2>2. Depth = 1
    <3>1. \A i \in 2..Depth : Kind(stack[i].n) # "MODULE"
      BY DEF SInv, Shape
    <3>2. Depth \notin 2..Depth
      BY <1>3, <2>1, <3>1
    <3> QED
      BY <2>1, <3>2
  <2>3. Level = 1
    BY <1>3, <2>1, <2>2, ActFacts
  <2>4. stack' = <<>>
    BY <1>2, <2>2 DEF Drops
  <2>5. strips' \in Seq(Records) /\ Len(strips') = 0
    <3>1. strips # <<>>
      BY <2>1 DEF Level
    <3> QED
      BY <1>1, <1>3, <2>1, <2>3, <3>1, Dropped DEF Level
  <2>6. strips' = <<>> /\ Level' = 0
    BY <2>5 DEF Level
  <2>7. Depth' = 0
    BY <2>4 DEF Depth
  <2>8. Shape' /\ Scopes'
    BY <2>4, <2>6, <2>7 DEF Shape, Scopes
  <2> QED
    BY <1>1, <2>5, <2>8 DEF SInv
<1>4. CASE Kind(Top.n) = "BODY"
  <2>1. Keeps /\ \A e \in strips'[Level].variables : e.scope # Top.n
    BY <1>1, <1>4, ScopeRemoved DEF IInv
  <2> QED
    BY <1>1, <1>2, <1>4, <2>1, DropsKeeps DEF IInv
<1> QED
  BY <1>1, <1>3, <1>4

LEMMA VariablePushed ==
  ASSUME Types, SInv, stack # <<>>, NEW e \in Entries, PushVariable(e),
         Kind(e.scope) \in BlockKinds => IsOpen(Level, e.scope),
         UNCHANGED <<symbols, fault>>
  PROVE  Keeps
<1> DEFINE r == [strips[Level] EXCEPT !.variables =
                   IF Declared(@, e.scope, e.key) THEN @ ELSE @ \cup {e}]
<1>1. strips[Level] \in Records
  BY RecordFacts
<1>2. /\ r \in Records
      /\ \A x \in r.variables : x \in Variables \/ x = e
      /\ r.inputs = Inputs
  BY <1>1 DEF Records, Variables, Inputs
<1>3. strips' = [strips EXCEPT ![Level] = r]
  BY DEF PushVariable
<1>4. symbols' \subseteq Entries /\ fault' \in {"none", "released", "use after free", "null dereference"}
  BY DEF SInv
<1> HIDE DEF r
<1> QED
  BY <1>2, <1>3, <1>4, RecordChanges

\* The check of a declared type leaves the records alone.
LEMMA CheckTypeScopes ==
  ASSUME IInv, SInv, CheckType
  PROVE  SInv'
<1> DEFINE f == [Top EXCEPT !.pc = "checked"]
<1>1. /\ stack # <<>> /\ Kind(Top.n) = "VAR" /\ UNCHANGED <<strips, symbols>>
      /\ fault' \in {fault, "released"}
      /\ (Goto(f) /\ UNCHANGED fault) \/ (Return(ERROR) /\ UNCHANGED fault) \/ stack' = stack
  BY DEF CheckType, At
<1>2. Top \in Frames /\ f.n = Top.n
  BY <1>1, Quiet, FrameAt DEF Points
<1> HIDE DEF f
<1>3. CASE Goto(f) /\ UNCHANGED fault
  BY <1>1, <1>2, <1>3, Unmoved, StatementGoesOn
<1>4. CASE Return(ERROR) /\ UNCHANGED fault
  BY <1>1, <1>4, Unmoved, StatementReturns
<1>5. CASE stack' = stack
  <2>1. Shape' /\ Scopes'
    BY <1>1, <1>5 DEF SInv, Shape, Scopes, Depth, Level, IsOpen
  <2> QED
    BY <1>1, <2>1 DEF SInv
<1> QED
  BY <1>1, <1>3, <1>4, <1>5

\* A declaration's scope is the block or loop it stands in, whose function is below.
LEMMA VarScopes ==
  ASSUME IInv, SInv, Var
  PROVE  SInv'
<1> DEFINE n == Top.n
           scope == Parent[n]
           e == Entry(scope, Ast[n].key, n)
<1>1. /\ stack # <<>> /\ Kind(n) = "VAR" /\ fault' = fault
      /\ \E code : Return(code)
      /\ \/ UNCHANGED strips /\ symbols' \in {symbols, symbols \cup {e}}
         \/ PushVariable(e) /\ UNCHANGED symbols
  BY DEF Var, At
<1>2. /\ n \in Node /\ Depth \in Nat \ {0} /\ Top = stack[Depth]
      /\ Level = Act(stack, Depth)
  BY <1>1, Quiet DEF SInv, Shape
<1>3. Depth > 1
  BY <1>1, <1>2 DEF IInv, Control
<1>4. /\ Depth - 1 \in 1..Depth /\ stack[Depth - 1].n \in Node
      /\ n \in Children(stack[Depth - 1].n)
  <2>1. Depth \in 2..Depth /\ Depth - 1 \in 1..Depth
    BY <1>2, <1>3
  <2> QED
    BY <1>1, <1>2, <2>1, TopFacts, FrameFacts DEF IInv, SInv, Shape
<1>5. scope = stack[Depth - 1].n
  BY <1>2, <1>4, ParentOf
<1>6. Act(stack, Depth - 1) = Level
  <2>1. Depth - 1 \in Nat /\ (Depth - 1) + 1 = Depth
    BY <1>2
  <2> QED
    BY <1>1, <1>2, <2>1, ActFacts
<1>7. IsOpen(Level, scope)
  BY <1>4, <1>5, <1>6 DEF IsOpen
<1>8. e \in Entries /\ e.scope = scope
  <2>1. Ast[n] \in AstRecords /\ Ast[n].key # None
    BY <1>1, <1>2, AstAssumption
  <2>2. Ast[n].key \in STRING
    BY <2>1 DEF AstRecords
  <2> QED
    BY <1>2, <1>4, <1>5, <2>2 DEF Entries, Entry
<1> HIDE DEF scope, e
<1>9. Keeps
  <2>1. CASE UNCHANGED strips
    BY <1>1, <1>8, <2>1 DEF SInv, Keeps, Level, PushVariable
  <2>2. CASE PushVariable(e) /\ UNCHANGED symbols
    BY <1>1, <1>7, <1>8, <2>2, VariablePushed DEF IInv
  <2> QED
    BY <1>1, <2>1, <2>2
<1> QED
  BY <1>1, <1>9, StatementReturns

-----------------------------------------------------------------------------
(* Statements that leave the records alone. *)
LEMMA SimpleScopes ==
  ASSUME IInv, SInv, Expr \/ IfEnd \/ Throw \/ ReturnStatement \/ Jump
  PROVE  SInv'
<1>1. /\ stack # <<>> /\ Kind(Top.n) \notin {"FUN", "MODULE", "BODY"}
      /\ \E code : Return(code)
      /\ UNCHANGED <<strips, symbols, fault>>
  BY DEF Expr, IfEnd, Throw, ReturnStatement, Jump, At
<1> QED
  BY <1>1, Unmoved, StatementReturns

LEMMA IfScopes ==
  ASSUME IInv, SInv, If
  PROVE  SInv'
<1> DEFINE f == [Top EXCEPT !.pc = "branch"]
<1>1. /\ stack # <<>> /\ Kind(Top.n) = "IF"
      /\ UNCHANGED <<strips, symbols, fault>>
      /\ \/ Return(ERROR)
         \/ CallChild(f, Ast[Top.n].body)
         \/ Return(OK)
         \/ Ast[Top.n].other # None /\ CallChild(f, Ast[Top.n].other)
  BY DEF If, At
<1>2. Top \in Frames /\ Top.n \in Node /\ f.n = Top.n /\ Keeps
  BY <1>1, Quiet, FrameAt, Unmoved DEF Points
<1>3. Ast[Top.n].body \in Node /\ Kind(Ast[Top.n].body) = "BODY"
  BY <1>1, <1>2, AstFacts
<1>4. Ast[Top.n].other # None =>
        Ast[Top.n].other \in Node /\ Kind(Ast[Top.n].other) \in {"BODY", "IF"}
  BY <1>1, <1>2, AstFacts
<1> HIDE DEF f
<1> QED
  BY <1>1, <1>2, <1>3, <1>4, StatementReturns, StatementCalls

-----------------------------------------------------------------------------
(* Loops: the scope of a loop is no block, and its variables come and go with its steps. *)
LEMMA ForInitScopes ==
  ASSUME IInv, SInv, ForInit
  PROVE  SInv'
<1> DEFINE f == [Top EXCEPT !.i = @ + 1]
           g == [Top EXCEPT !.pc = "cond"]
           n == Items(Top.n)[Top.i + 1]
<1>1. /\ stack # <<>> /\ Kind(Top.n) = "FOR"
      /\ UNCHANGED <<strips, symbols, fault>>
      /\ \/ Return(ERROR)
         \/ Top.i < Len(Items(Top.n)) /\ CallChild(f, n)
         \/ Goto(g)
  BY DEF ForInit, At
<1>2. /\ Top \in Frames /\ Top.n \in Node /\ Top.i \in Nat /\ Keeps
      /\ f.n = Top.n /\ g.n = Top.n
  BY <1>1, Quiet, FrameFacts, FrameNext, FrameAt, Unmoved DEF Points
<1>3. Top.i < Len(Items(Top.n)) =>
        n \in Node /\ n \in Children(Top.n) /\ Kind(n) \notin {"FUN", "MODULE"}
  <2>1. Len(Items(Top.n)) \in Nat
    BY <1>2, AstFacts
  <2>2. Top.i < Len(Items(Top.n)) => Top.i + 1 \in 1..Len(Items(Top.n))
    BY <1>2, <2>1
  <2> QED
    BY <1>2, <2>2, ItemsAreChildren
<1> HIDE DEF f, g, n
<1> QED
  BY <1>1, <1>2, <1>3, StatementReturns, StatementCalls, StatementGoesOn

LEMMA ForConditionScopes ==
  ASSUME IInv, SInv, ForCondition
  PROVE  SInv'
<1> DEFINE f == [Top EXCEPT !.pc = "body"]
<1>1. /\ stack # <<>> /\ Kind(Top.n) = "FOR" /\ UNCHANGED <<symbols, fault>>
      /\ \/ Return(ERROR) /\ UNCHANGED strips
         \/ CallChild(f, Ast[Top.n].body) /\ UNCHANGED strips
         \/ Return(OK) /\ RemoveByScope(Top.n)
  BY DEF ForCondition, At, CloseLoop
<1>2. Top \in Frames /\ Top.n \in Node /\ f.n = Top.n
  BY <1>1, Quiet, FrameAt DEF Points
<1>3. Ast[Top.n].body \in Node /\ Kind(Ast[Top.n].body) = "BODY"
  BY <1>1, <1>2, AstFacts
<1>4. Keeps
  BY <1>1, Unmoved, ScopeRemoved DEF IInv
<1> HIDE DEF f
<1> QED
  BY <1>1, <1>2, <1>3, <1>4, StatementReturns, StatementCalls

LEMMA LoopGoesOnScopes ==
  ASSUME IInv, SInv, ForIncrement \/ ForinIterator
  PROVE  SInv'
<1>1. /\ stack # <<>> /\ Kind(Top.n) \in {"FOR", "FORIN"} /\ UNCHANGED <<strips, symbols, fault>>
      /\ \/ Return(ERROR)
         \/ \E pc \in Points : Goto([Top EXCEPT !.pc = pc])
  BY DEF ForIncrement, ForinIterator, At, Points
<1>2. Top \in Frames /\ Keeps /\ \A pc \in Points : [Top EXCEPT !.pc = pc].n = Top.n
  BY <1>1, Quiet, FrameAt, Unmoved
<1>3. CASE \E pc \in Points : Goto([Top EXCEPT !.pc = pc])
  <2>1. PICK pc \in Points : Goto([Top EXCEPT !.pc = pc])
    BY <1>3
  <2> DEFINE f == [Top EXCEPT !.pc = pc]
  <2>2. f.n = Top.n /\ Goto(f)
    BY <1>2, <2>1
  <2> HIDE DEF f
  <2> QED
    BY <1>1, <1>2, <2>2, StatementGoesOn
<1> QED
  BY <1>1, <1>2, <1>3, StatementReturns

LEMMA ForinNextScopes ==
  ASSUME IInv, SInv, ForinNext
  PROVE  SInv'
<1> DEFINE f == [Top EXCEPT !.pc = "body"]
           e == Entry(Top.n, Ast[Top.n].key, Top.n)
<1>1. /\ stack # <<>> /\ Kind(Top.n) = "FORIN" /\ UNCHANGED <<symbols, fault>>
      /\ \/ Return(OK) /\ RemoveByScope(Top.n)
         \/ Return(ERROR) /\ UNCHANGED strips
         \/ CallChild(f, Ast[Top.n].body) /\ PushVariable(e)
  BY DEF ForinNext, At, CloseLoop
<1>2. Top \in Frames /\ Top.n \in Node /\ f.n = Top.n
  BY <1>1, Quiet, FrameAt DEF Points
<1>3. Ast[Top.n].body \in Node /\ Kind(Ast[Top.n].body) = "BODY"
  BY <1>1, <1>2, AstFacts
<1>4. e \in Entries /\ e.scope = Top.n
  <2>1. Ast[Top.n] \in AstRecords /\ Ast[Top.n].key # None
    BY <1>1, <1>2, AstAssumption
  <2>2. Ast[Top.n].key \in STRING
    BY <2>1 DEF AstRecords
  <2> QED
    BY <1>2, <2>2 DEF Entries, Entry
<1> HIDE DEF e
<1>5. Kind(e.scope) \notin BlockKinds
  BY <1>1, <1>4 DEF BlockKinds
<1>6. Keeps
  BY <1>1, <1>4, <1>5, Unmoved, ScopeRemoved, VariablePushed DEF IInv
<1> HIDE DEF f
<1> QED
  BY <1>1, <1>2, <1>3, <1>6, StatementReturns, StatementCalls

LEMMA LoopBodyEndScopes ==
  ASSUME IInv, SInv, LoopBodyEnd
  PROVE  SInv'
<1> DEFINE f == [Top EXCEPT !.pc = IF Kind(Top.n) = "FOR" THEN "incr" ELSE "next"]
<1>1. /\ stack # <<>> /\ Kind(Top.n) \in {"FOR", "FORIN"} /\ UNCHANGED <<symbols, fault>>
      /\ UNCHANGED strips \/ RemoveByScope(Top.n)
      /\ Goto(f) \/ \E code : Return(code)
  BY DEF LoopBodyEnd, At, CloseLoop
<1>2. Top \in Frames /\ f.n = Top.n
  BY <1>1, Quiet DEF Frames
<1>3. Keeps
  BY <1>1, Unmoved, ScopeRemoved DEF IInv
<1> HIDE DEF f
<1> QED
  BY <1>1, <1>2, <1>3, StatementReturns, StatementGoesOn

-----------------------------------------------------------------------------
(* The try statement. *)
LEMMA TryScopes ==
  ASSUME IInv, SInv, TryBody \/ TryBodyEnd \/ TryEnd \/ TryPass \/ TryMismatch
  PROVE  SInv'
<1>1. /\ stack # <<>> /\ Kind(Top.n) = "TRY" /\ UNCHANGED <<strips, symbols, fault>>
      /\ \/ \E code : Return(code)
         \/ CallChild([Top EXCEPT !.pc = "body"], Ast[Top.n].body)
         \/ Goto([Top EXCEPT !.pc = "catch", !.code = ret, !.b = CellAt(1)])
         \/ \E i \in DOMAIN expections : Goto([Top EXCEPT !.b = CellAfter(i)])
  BY DEF TryBody, TryBodyEnd, TryEnd, TryPass, TryMismatch, Catches, At
<1>2. /\ Top \in Frames /\ Top.n \in Node /\ Keeps
      /\ Ast[Top.n].body \in Node /\ Kind(Ast[Top.n].body) = "BODY"
  BY <1>1, Quiet, AstFacts, Unmoved
<1>3. CASE \E code : Return(code)
  BY <1>1, <1>2, <1>3, StatementReturns
<1>4. CASE \E f : f.n = Top.n /\ CallChild(f, Ast[Top.n].body)
  BY <1>1, <1>2, <1>4, StatementCalls
<1>5. CASE \E f : f.n = Top.n /\ Goto(f)
  BY <1>1, <1>2, <1>5, StatementGoesOn
<1>6. [Top EXCEPT !.pc = "body"].n = Top.n
  BY <1>2 DEF Frames
<1>7. [Top EXCEPT !.pc = "catch", !.code = ret, !.b = CellAt(1)].n = Top.n
  BY <1>2 DEF Frames
<1>8. \A i : [Top EXCEPT !.b = CellAfter(i)].n = Top.n
  BY <1>2 DEF Frames
<1> QED
  BY <1>1, <1>3, <1>4, <1>5, <1>6, <1>7, <1>8


\* The clause's parameter goes through the inputs; only what is of the clause becomes
\* a variable.
LEMMA TryCatchScopes ==
  ASSUME IInv, SInv, TryCatch
  PROVE  SInv'
<1> DEFINE clause == Ast[Top.n].other
           key == Ast[clause].key
           inputs(i) == IF \E e \in Inputs : e.key = key THEN Inputs
                        ELSE Inputs \cup {Entry(clause, key, expections[i].value)}
           pushed(i) == {e \in inputs(i) : ~Declared(Variables, e.scope, e.key)}
           r(i) == [variables |-> strips[Level].variables \cup
                                  {e \in pushed(i) : e.scope = clause /\ e.key = key},
                    inputs |-> inputs(i)]
           f(i) == [Top EXCEPT !.pc = "handling", !.b = CellAfter(i),
                               !.expection = expections[i].value]
<1>1. PICK i \in DOMAIN expections :
        /\ stack # <<>> /\ Kind(Top.n) = "TRY" /\ clause # None /\ key # None
        /\ symbols' = symbols
        /\ \/ /\ strips' = [strips EXCEPT ![Level] = r(i)]
              /\ CallChild(f(i), Ast[clause].body)
              /\ fault' = fault
           \/ /\ fault' = "null dereference"
              /\ UNCHANGED <<stack, strips>>
  BY DEF TryCatch, Catches, At
<1>2. /\ Top \in Frames /\ Top.n \in Node
      /\ clause \in Node /\ Kind(clause) = "CATCH"
      /\ f(i).n = Top.n
  BY <1>1, Quiet, AstFacts DEF Frames
<1>3. CASE CallChild(f(i), Ast[clause].body) /\ strips' = [strips EXCEPT ![Level] = r(i)]
           /\ fault' = fault
  <2>1. Ast[clause].body \in Node /\ Kind(Ast[clause].body) = "BODY"
    BY <1>2, AstFacts
  <2>2. Entry(clause, key, expections[i].value) \in Entries
    <3>1. Ast[clause] \in AstRecords
      BY <1>2, AstAssumption
    <3>2. key \in STRING
      BY <1>1, <3>1 DEF AstRecords
    <3>3. expections[i].value \in Node
      BY <1>1, QueueFacts DEF IInv
    <3> QED
      BY <1>2, <3>2, <3>3 DEF Entries, Entry
  <2>3. \A e \in inputs(i) : e \in Entries /\ (e \in Inputs \/ Kind(e.scope) = "CATCH")
    <3>1. Inputs \subseteq Entries
      BY <1>1, RecordFacts DEF IInv
    <3>2. Entry(clause, key, expections[i].value).scope = clause
      BY DEF Entry
    <3> QED
      BY <1>2, <2>2, <3>1, <3>2
  <2>4. /\ strips[Level] \in Records /\ strips[Level].variables = Variables
        /\ Variables \subseteq Entries
    BY <1>1, RecordFacts DEF IInv, Variables
  <2>5. Kind(clause) \notin BlockKinds
    BY <1>2 DEF BlockKinds
  <2> HIDE DEF inputs
  <2>6. /\ r(i).inputs = inputs(i)
        /\ \A e \in r(i).variables : e \in Variables \/ (e \in inputs(i) /\ e.scope = clause)
    BY <2>4
  <2>7. r(i) \in Records
    BY <2>3, <2>4 DEF Records
  <2> HIDE DEF r, f
  <2>8. symbols' \subseteq Entries /\ fault' \in {"none", "released", "use after free", "null dereference"}
    BY <1>1, <1>3 DEF SInv
  <2>9. Keeps
    BY <1>1, <1>3, <2>3, <2>5, <2>6, <2>7, <2>8, RecordChanges DEF IInv
  <2> QED
    BY <1>1, <1>2, <1>3, <2>1, <2>9, StatementCalls
<1>4. CASE fault' = "null dereference" /\ UNCHANGED <<stack, strips>>
  <2>1. Keeps
    BY <1>1, <1>4 DEF SInv, Keeps, Level
  <2>2. Stays
    BY <1>1, <1>4 DEF Stays, Depth
  <2> QED
    BY <1>1, <2>1, <2>2, StaysKeeps DEF IInv
<1> HIDE DEF r, f, inputs, pushed
<1> QED
  BY <1>1, <1>3, <1>4

LEMMA TryCatchEndScopes ==
  ASSUME IInv, SInv, TryCatchEnd
  PROVE  SInv'
<1> DEFINE f == [Top EXCEPT !.pc = "catch", !.expection = None]
<1>1. /\ stack # <<>> /\ Kind(Top.n) = "TRY" /\ UNCHANGED <<symbols, fault>>
      /\ \/ Return(ret) /\ UNCHANGED strips
         \/ Goto(f) /\ RemoveByScope(Ast[Top.n].other)
  BY DEF TryCatchEnd, At
<1>2. Top \in Frames /\ f.n = Top.n
  BY <1>1, Quiet DEF Frames
<1>3. Keeps
  BY <1>1, Unmoved, ScopeRemoved DEF IInv
<1> HIDE DEF f
<1> QED
  BY <1>1, <1>2, <1>3, StatementReturns, StatementGoesOn


-----------------------------------------------------------------------------
(* A program starts with the module's frame and an empty record. *)
LEMMA ScopesInit == Init => SInv
<1> SUFFICES ASSUME Init PROVE SInv
  OBVIOUS
<1> DEFINE n == CHOOSE m \in Node : Kind(m) = "MODULE"
           r == [variables |-> {}, inputs |-> {}]
<1>1. n \in Node /\ Kind(n) = "MODULE"
  BY AstAssumption
<1> HIDE DEF n
<1>2. stack = <<Frame(n, "start")>> /\ strips = <<r>> /\ symbols = {} /\ fault = "none"
  BY DEF Init, n
<1>3. r \in Records /\ r.variables = {} /\ r.inputs = {}
  BY DEF Records
<1> HIDE DEF r
<1>4. /\ strips \in Seq(Records) /\ Level = 1 /\ strips[1] = r
      /\ Depth = 1 /\ stack # <<>> /\ stack[1].n = n
  BY <1>1, <1>2, <1>3, NewFrame DEF Level, Depth
<1>5. Shape
  <2>1. Act(stack, 0 + 1) = 1 /\ 0 + 1 = 1
    BY <1>1, <1>4, ActFacts
  <2> QED
    BY <1>4, <2>1 DEF Shape
<1>6. Scopes
  BY <1>3, <1>4 DEF Scopes
<1> QED
  BY <1>2, <1>4, <1>5, <1>6 DEF SInv

(* Every action keeps the records in shape. *)
LEMMA ScopesStep == IInv /\ SInv /\ [Next]_vars => SInv'
<1> SUFFICES ASSUME IInv, SInv, [Next]_vars PROVE SInv'
  OBVIOUS
<1>1. CASE CallFun \/ FunStart \/ FunEnd \/ NextItem \/ ItemsEnd
  BY <1>1, CallFunScopes, FunStartScopes, FunEndScopes, NextItemScopes, ItemsEndScopes
<1>2. CASE CheckType \/ Var \/ Expr \/ If \/ IfEnd \/ Throw \/ ReturnStatement \/ Jump
  BY <1>2, CheckTypeScopes, VarScopes, SimpleScopes, IfScopes
<1>3. CASE ForInit \/ ForCondition \/ ForIncrement \/ ForinIterator \/ ForinNext \/ LoopBodyEnd
  BY <1>3, ForInitScopes, ForConditionScopes, LoopGoesOnScopes, ForinNextScopes,
     LoopBodyEndScopes
<1>4. CASE TryBody \/ TryBodyEnd \/ TryEnd \/ TryPass \/ TryMismatch \/ TryCatch \/ TryCatchEnd
  BY <1>4, TryScopes, TryCatchScopes, TryCatchEndScopes
<1>5. CASE Evaluate \/ TryDangling \/ UNCHANGED vars
  <2>1. /\ stack' = stack /\ strips' = strips /\ symbols' = symbols
        /\ fault' \in {fault, "use after free"}
    BY <1>5 DEF Evaluate, TryDangling, vars
  <2>2. Shape' /\ Scopes'
    BY <2>1 DEF SInv, Shape, Scopes, Depth, Level, IsOpen
  <2> QED
    BY <2>1, <2>2 DEF SInv
<1> QED
  BY <1>1, <1>2, <1>3, <1>4, <1>5 DEF Next, Step, Terminated

LEMMA ScopesInvariant == Spec => [](IInv /\ SInv)
  BY InvariantInit, InvariantStep, ScopesInit, ScopesStep, PTL DEF Spec

(* In every program, the variables of execute.c have their types; the records of the
   activations and the symbol table only hold entries. *)
THEOREM TypesHold == Spec => []TypeOK
<1>1. IInv /\ SInv => TypeOK
  BY DEF IInv, Types, SInv, TypeOK, Records
<1> QED
  BY <1>1, ScopesInvariant, PTL

(* In every program, whatever code a body or a function is left with, its variables are
   gone: a record holds none of a block that is not running in its activation. *)
THEOREM BlockScopesHold == Spec => []BlockScopesClosed
<1>1. ASSUME SInv
      PROVE  BlockScopesClosed
  <2>1. DOMAIN strips = 1..Level
    <3>1. strips \in Seq(Records)
      BY <1>1 DEF SInv
    <3> QED
      BY <3>1 DEF Level
  <2>2. \A i : Activation(i) = Act(stack, i)
    BY DEF Activation, Act
  <2>3. ASSUME NEW level, NEW x, IsOpen(level, x)
        PROVE  x \in OpenScopes(level)
    <3>1. PICK i \in 1..Depth : Act(stack, i) = level /\ stack[i].n = x
      BY <2>3 DEF IsOpen
    <3>2. i \in {j \in 1..Depth : Activation(j) = level}
      BY <2>2, <3>1
    <3> QED
      BY <3>1, <3>2 DEF OpenScopes
  <2> QED
    BY <1>1, <2>1, <2>3 DEF SInv, Scopes, BlockScopesClosed, BlockKinds
<1> QED
  BY <1>1, ScopesInvariant, PTL

(* A step that leaves a loop with anything but an error removes its scope. *)
LEMMA LoopsClose ==
  ASSUME IInv, SInv, [Next]_vars,
         stack # <<>>, Top.n \in Loops, Len(stack') < Depth, ret' # ERROR
  PROVE  \A e \in strips'[Level].variables : e.scope # Top.n
<1>1. Kind(Top.n) \in {"FOR", "FORIN"}
  BY DEF Loops
<1>2. Depth \in Nat
  BY Quiet
<1>3. \A f : f.n = Top.n => ~Goto(f) /\ \A n \in Node : ~CallChild(f, n)
  BY <1>2, CallAdds, GotoStays DEF IInv, Adds, Stays, Depth
<1>4. ForCondition \/ ForinNext \/ LoopBodyEnd
  <2>1. ~(FunStart \/ FunEnd \/ NextItem \/ ItemsEnd \/ CheckType \/ Var \/ Expr \/ If \/ IfEnd \/ Throw
          \/ ReturnStatement \/ Jump)
    BY <1>1 DEF FunStart, FunEnd, NextItem, ItemsEnd, CheckType, Var, Expr, If, IfEnd, Throw,
       ReturnStatement, Jump, At
  <2>2. ~(TryBody \/ TryBodyEnd \/ TryEnd \/ TryDangling \/ TryPass \/ TryMismatch \/ TryCatch
          \/ TryCatchEnd)
    BY <1>1 DEF TryBody, TryBodyEnd, TryEnd, TryDangling, TryPass, TryMismatch, TryCatch,
       TryCatchEnd, Catches, At
  <2>3. ~(Evaluate \/ UNCHANGED vars)
    BY <1>2 DEF Evaluate, vars, Depth
  <2>4. ~CallFun
    <3>1. CallFun => Ast[Top.n].callee \in Node /\ CallChild(Top, Ast[Top.n].callee)
      BY Quiet, AstFacts DEF CallFun
    <3> QED
      BY <1>3, <3>1
  <2>5. ~(ForInit \/ ForIncrement \/ ForinIterator)
    <3> DEFINE f == [Top EXCEPT !.i = @ + 1]
               g == [Top EXCEPT !.pc = "cond"]
               h == [Top EXCEPT !.pc = "next"]
               n == Items(Top.n)[Top.i + 1]
    <3>1. /\ Top \in Frames /\ Top.n \in Node /\ Top.i \in Nat
          /\ f.n = Top.n /\ g.n = Top.n /\ h.n = Top.n
      BY Quiet, FrameFacts, FrameNext, FrameAt DEF Points
    <3>2. Top.i < Len(Items(Top.n)) => n \in Node
      BY <3>1, AstFacts
    <3>3. ForInit \/ ForIncrement \/ ForinIterator =>
            \/ ret' = ERROR
            \/ Top.i < Len(Items(Top.n)) /\ CallChild(f, n)
            \/ Goto(g) \/ Goto(h)
      BY DEF ForInit, ForIncrement, ForinIterator, Return
    <3> HIDE DEF f, g, h, n
    <3> QED
      BY <1>3, <3>1, <3>2, <3>3
  <2> QED
    BY <2>1, <2>2, <2>3, <2>4, <2>5 DEF Next, Step, Terminated
<1>5. RemoveByScope(Top.n) /\ UNCHANGED <<symbols, fault>>
  <2>1. CASE ForCondition
    <3>1. [Top EXCEPT !.pc = "body"].n = Top.n /\ Ast[Top.n].body \in Node
      BY <1>1, Quiet, FrameAt, AstFacts DEF Points
    <3> QED
      BY <1>3, <2>1, <3>1 DEF ForCondition, CloseLoop, Return
  <2>2. CASE ForinNext
    <3>1. [Top EXCEPT !.pc = "body"].n = Top.n /\ Ast[Top.n].body \in Node
      BY <1>1, Quiet, FrameAt, AstFacts DEF Points
    <3> QED
      BY <1>3, <2>2, <3>1 DEF ForinNext, CloseLoop, Return
  <2>3. CASE LoopBodyEnd
    <3> DEFINE f == [Top EXCEPT !.pc = IF Kind(Top.n) = "FOR" THEN "incr" ELSE "next"]
    <3>1. f.n = Top.n
      BY Quiet DEF Frames
    <3>2. \/ Return(ERROR) \/ Goto(f)
          \/ RemoveByScope(Top.n) /\ UNCHANGED <<symbols, fault>>
      BY <2>3 DEF LoopBodyEnd, CloseLoop
    <3> HIDE DEF f
    <3> QED
      BY <1>3, <3>1, <3>2 DEF Return
  <2> QED
    BY <1>4, <2>1, <2>2, <2>3
<1> QED
  BY <1>5, ScopeRemoved DEF IInv

(* In every program, a loop that is left by anything but an error leaves none of its
   variables in the record of its activation. *)
THEOREM LoopScopesHold == Spec => LoopScopesClosed
  BY ScopesInvariant, LoopsClose, PTL DEF Spec, LoopScopesClosed

-----------------------------------------------------------------------------
(* Labelled breaks and continues.  around[n] are loops that n stands in, inside its
   function; LabelsNameLoopsAround says what they and the labels have to be like. *)

\* Loop x runs in the innermost activation.
Runs(x) == \E i \in 1..Depth : Act(stack, i) = Act(stack, Depth) /\ stack[i].n = x

\* Whatever stands in a loop has the loop below it, in its own activation.
Covered(around) ==
  \A i \in 1..Depth : \A x \in around[stack[i].n] :
     \E j \in 1..i : stack[j].n = x /\ Act(stack, j) = Act(stack, i)

\* rax carries the target of a jump while the jump is on its way to it.
JumpRuns ==
  rax # None /\ Kind(rax) # "RETURN" =>
     ret \in {BREAK, CONTINUE} /\ rax \in Loops /\ Ast[rax].label # None /\ Runs(rax)

JInv(around) == Covered(around) /\ JumpRuns

(* Activations only count up along the stack. *)
LEMMA ActGrows ==
  ASSUME NEW s, NEW i \in Nat, NEW k \in 0..i
  PROVE  Act(s, k) <= Act(s, i)
<1> DEFINE funs(m) == {j \in 1..m : Kind(s[j].n) = "FUN"}
<1>1. IsFiniteSet(1..i) /\ funs(i) \in SUBSET (1..i)
  BY FS_Interval
<1>2. IsFiniteSet(funs(i)) /\ funs(k) \in SUBSET funs(i)
  BY <1>1, FS_Subset
<1>3. /\ IsFiniteSet(funs(k)) /\ Cardinality(funs(k)) <= Cardinality(funs(i))
      /\ Cardinality(funs(k)) \in Nat /\ Cardinality(funs(i)) \in Nat
  <2> HIDE DEF funs
  <2> QED
    BY <1>2, FS_Subset, FS_CardinalityType
<1>4. Act(s, k) = 1 + Cardinality(funs(k)) /\ Act(s, i) = 1 + Cardinality(funs(i))
  BY DEF Act
<1> HIDE DEF funs
<1> QED
  BY <1>3, <1>4

\* What a step may put on the stack: a function's frame, where no loop is around, or
\* that of something that stands where the top frame does.
Fits(around, n) ==
  \/ around[n] = {}
  \/ Kind(n) # "FUN" /\ around[n] \subseteq around[Top.n] \cup ({Top.n} \cap Loops)

Moves(around) ==
  \/ stack' = stack
  \/ Stays
  \/ Drops
  \/ \E n \in Node : Adds(n) /\ Fits(around, n)

(* A part of a statement stands in the loops the statement stands in, and in itself. *)
LEMMA ChildFits ==
  ASSUME NEW around, LabelsNameLoopsAround(around),
         NEW p \in Node, NEW n \in Node, n \in Children(p)
  PROVE  /\ Kind(n) = "FUN" => around[n] = {}
         /\ around[n] \subseteq around[p] \cup ({p} \cap Loops)
<1>1. Parent[n] = p /\ p # None
  BY ParentOf, AstAssumption
<1>2. around[n] \subseteq IF Kind(n) \in {"FUN", "MODULE"} \/ Parent[n] = None THEN {}
                          ELSE around[Parent[n]] \cup ({Parent[n]} \cap Loops)
  BY DEF LabelsNameLoopsAround
<1> QED
  BY <1>1, <1>2

(* The frame of a call of a function, and of a statement's own part. *)
LEMMA CallMoves ==
  ASSUME Types, stack # <<>>, NEW around, LabelsNameLoopsAround(around),
         NEW f, f.n = Top.n, NEW n \in Node, CallChild(f, n),
         Kind(n) = "FUN" \/ n \in Children(Top.n)
  PROVE  Moves(around)
<1>1. Adds(n) /\ Top.n \in Node
  BY CallAdds, TopFacts
<1>2. Fits(around, n)
  <2>1. CASE Kind(n) = "FUN"
    BY <2>1 DEF LabelsNameLoopsAround, Fits
  <2>2. CASE n \in Children(Top.n)
    BY <1>1, <2>2, ChildFits DEF Fits
  <2> QED
    BY <2>1, <2>2
<1> QED
  BY <1>1, <1>2 DEF Moves

(* What Moves says of the frames keeps the loops below what stands in them. *)
LEMMA CoveredStep ==
  ASSUME Types, stack # <<>>, NEW around, Covered(around), Moves(around)
  PROVE  Covered(around)'
<1>1. Depth \in Nat \ {0} /\ Top = stack[Depth] /\ Depth \in 1..Depth
  BY TopFacts
<1>2. CASE stack' = stack
  BY <1>2 DEF Covered, Depth
<1>3. CASE Stays
  <2>1. \A k \in 0..Depth : Act(stack', k) = Act(stack, k)
    BY <1>1, <1>3, SameAct DEF Stays
  <2>2. Depth' = Depth /\ \A k \in 1..Depth : stack'[k].n = stack[k].n
    BY <1>3 DEF Stays
  <2>3. ASSUME NEW i \in 1..Depth, NEW x \in around[stack'[i].n]
        PROVE  \E j \in 1..i : stack'[j].n = x /\ Act(stack', j) = Act(stack', i)
    <3>1. PICK j \in 1..i : stack[j].n = x /\ Act(stack, j) = Act(stack, i)
      BY <2>2, <2>3 DEF Covered
    <3>2. j \in 1..Depth /\ j \in 0..Depth /\ i \in 0..Depth
      BY <1>1
    <3> QED
      BY <2>1, <2>2, <3>1, <3>2
  <2> QED
    BY <2>2, <2>3 DEF Covered
<1>4. CASE Drops
  <2>1. \A k \in 0..Depth - 1 : Act(stack', k) = Act(stack, k)
    <3>1. Depth - 1 \in Nat /\ \A i \in 1..Depth - 1 : stack'[i].n = stack[i].n
      BY <1>1, <1>4 DEF Drops
    <3> QED
      BY <3>1, SameAct
  <2>2. Depth' = Depth - 1 /\ \A k \in 1..Depth - 1 : stack'[k].n = stack[k].n
    BY <1>4 DEF Drops
  <2>3. ASSUME NEW i \in 1..Depth - 1, NEW x \in around[stack'[i].n]
        PROVE  \E j \in 1..i : stack'[j].n = x /\ Act(stack', j) = Act(stack', i)
    <3>0. i \in 1..Depth
      BY <1>1
    <3>1. PICK j \in 1..i : stack[j].n = x /\ Act(stack, j) = Act(stack, i)
      BY <2>2, <2>3, <3>0 DEF Covered
    <3>2. j \in 1..Depth - 1 /\ j \in 0..Depth - 1 /\ i \in 0..Depth - 1
      BY <1>1
    <3> QED
      BY <2>1, <2>2, <3>1, <3>2
  <2> QED
    BY <2>2, <2>3 DEF Covered
<1>5. ASSUME NEW n \in Node, Adds(n), Fits(around, n)
      PROVE  Covered(around)'
  <2>1. \A k \in 0..Depth : Act(stack', k) = Act(stack, k)
    BY <1>1, <1>5, SameAct DEF Adds
  <2>2. /\ Depth' = Depth + 1 /\ stack'[Depth + 1].n = n
        /\ \A k \in 1..Depth : stack'[k].n = stack[k].n
    BY <1>5 DEF Adds
  <2>3. ASSUME NEW i \in 1..Depth, NEW x \in around[stack[i].n]
        PROVE  \E j \in 1..i : stack'[j].n = x /\ Act(stack', j) = Act(stack', i)
    <3>1. PICK j \in 1..i : stack[j].n = x /\ Act(stack, j) = Act(stack, i)
      BY <2>3 DEF Covered
    <3>2. j \in 1..Depth /\ j \in 0..Depth /\ i \in 0..Depth
      BY <1>1
    <3> QED
      BY <2>1, <2>2, <3>1, <3>2
  <2>4. ASSUME NEW x \in around[n]
        PROVE  \E j \in 1..Depth + 1 : /\ stack'[j].n = x
                                       /\ Act(stack', j) = Act(stack', Depth + 1)
    <3>1. Kind(n) # "FUN" /\ (x \in around[Top.n] \/ x = Top.n)
      BY <1>5, <2>4 DEF Fits
    <3>2. Act(stack', Depth + 1) = Act(stack', Depth)
      BY <1>1, <2>2, <3>1, ActFacts
    <3>3. CASE x = Top.n
      BY <1>1, <2>2, <3>2, <3>3
    <3>4. CASE x \in around[Top.n]
      <4>1. PICK j \in 1..Depth : stack'[j].n = x /\ Act(stack', j) = Act(stack', Depth)
        BY <1>1, <2>3, <3>4
      <4>2. j \in 1..Depth + 1
        BY <1>1
      <4> QED
        BY <3>2, <4>1, <4>2
    <3> QED
      BY <3>1, <3>3, <3>4
  <2>5. ASSUME NEW i \in 1..Depth + 1, NEW x \in around[stack'[i].n]
        PROVE  \E j \in 1..i : stack'[j].n = x /\ Act(stack', j) = Act(stack', i)
    <3>1. CASE i = Depth + 1
      BY <2>2, <2>4, <2>5, <3>1
    <3>2. CASE i # Depth + 1
      <4>1. i \in 1..Depth
        BY <1>1, <3>2
      <4> QED
        BY <2>2, <2>3, <2>5, <4>1
    <3> QED
      BY <3>1, <3>2
  <2> QED
    BY <2>2, <2>5 DEF Covered
<1> QED
  BY <1>2, <1>3, <1>4, <1>5 DEF Moves

(* While no break or continue is on its way, rax holds no target. *)
LEMMA NoJump ==
  ASSUME JumpRuns, ret \notin {BREAK, CONTINUE}, rax' \in {rax, None}
  PROVE  JumpRuns'
BY DEF JumpRuns

(* A loop below the frame that goes is still there, unless that frame is a function's. *)
LEMMA StillRuns ==
  ASSUME Types, stack # <<>>, stack' = Pop(stack), Kind(Top.n) # "FUN",
         NEW x, x # Top.n, Runs(x)
  PROVE  \E i \in 1..Depth' : Act(stack', i) = Act(stack', Depth') /\ stack'[i].n = x
<1>1. Depth \in Nat \ {0} /\ Top = stack[Depth]
  BY TopFacts
<1>2. PICK i \in 1..Depth : Act(stack, i) = Act(stack, Depth) /\ stack[i].n = x
  BY DEF Runs
<1>3. i \in 1..Depth - 1 /\ i \in 0..Depth - 1 /\ Depth - 1 \in 0..Depth - 1 /\ Depth - 1 \in Nat
  BY <1>1, <1>2
<1>4. Depth' = Depth - 1 /\ \A k \in 1..Depth - 1 : stack'[k].n = stack[k].n
  BY PopStep
<1>5. \A k \in 0..Depth - 1 : Act(stack', k) = Act(stack, k)
  BY <1>3, <1>4, SameAct
<1>6. Act(stack, Depth) = Act(stack, Depth - 1)
  <2>1. (Depth - 1) + 1 = Depth
    BY <1>1
  <2> QED
    BY <1>1, <1>3, <2>1, ActFacts
<1> QED
  BY <1>2, <1>3, <1>4, <1>5, <1>6

(* A code that is passed on takes its jump with it, unless the jump is for the frame
   that passes it on. *)
LEMMA PassesOn ==
  ASSUME Types, JumpRuns, stack # <<>>, stack' = Pop(stack), ret' = ret, rax' = rax,
         Kind(Top.n) # "FUN", rax # Top.n
  PROVE  JumpRuns'
<1> SUFFICES ASSUME rax # None, Kind(rax) # "RETURN"
             PROVE  JumpRuns'
  BY DEF JumpRuns
<1>1. ret \in {BREAK, CONTINUE} /\ rax \in Loops /\ Ast[rax].label # None /\ Runs(rax)
  BY DEF JumpRuns
<1> PICK x : x = rax
  OBVIOUS
<1>2. \E i \in 1..Depth' : Act(stack', i) = Act(stack', Depth') /\ stack'[i].n = x
  BY <1>1, StillRuns
<1> QED
  BY <1>1, <1>2 DEF JumpRuns, Runs

(* No jump is on its way out of a function: its loops are in its own activation. *)
LEMMA NoJumpOut ==
  ASSUME Types, JumpRuns, stack # <<>>, Kind(Top.n) = "FUN"
  PROVE  rax = None \/ Kind(rax) = "RETURN"
<1> SUFFICES ASSUME rax # None, Kind(rax) # "RETURN"
             PROVE  FALSE
  OBVIOUS
<1>1. Depth \in Nat \ {0} /\ Top = stack[Depth] /\ Depth - 1 \in Nat
  BY TopFacts
<1>2. rax \in Loops /\ Runs(rax)
  BY DEF JumpRuns
<1>3. PICK i \in 1..Depth : Act(stack, i) = Act(stack, Depth) /\ stack[i].n = rax
  BY <1>2 DEF Runs
<1>4. i # Depth
  BY <1>1, <1>2, <1>3 DEF Loops
<1>5. i \in 0..Depth - 1 /\ (Depth - 1) + 1 = Depth
  BY <1>1, <1>4
<1>6. Act(stack, Depth) = Act(stack, Depth - 1) + 1 /\ Act(stack, Depth - 1) \in Nat
  BY <1>1, <1>5, ActFacts
<1>7. Act(stack, i) <= Act(stack, Depth - 1)
  BY <1>1, <1>5, ActGrows
<1> QED
  BY <1>3, <1>6, <1>7

-----------------------------------------------------------------------------
\* What every step keeps for the jumps: the loops below what stands in them, and the
\* target in rax.
Jumps(around) == Moves(around) /\ JumpRuns'

(* The three ways to go on: no jump is on its way, or the step passes it on. *)
LEMMA CallJumps ==
  ASSUME IInv, JumpRuns, stack # <<>>, NEW around, LabelsNameLoopsAround(around),
         NEW f, f.n = Top.n, NEW n \in Node, CallChild(f, n),
         Kind(n) = "FUN" \/ n \in Children(Top.n),
         ret \notin {BREAK, CONTINUE}, rax' = rax
  PROVE  Jumps(around)
<1>1. Moves(around)
  BY CallMoves DEF IInv
<1>2. JumpRuns'
  BY NoJump
<1> QED
  BY <1>1, <1>2 DEF Jumps

LEMMA GotoJumps ==
  ASSUME IInv, JumpRuns, stack # <<>>, NEW around, NEW f, f.n = Top.n, Goto(f),
         rax' = None \/ (ret \notin {BREAK, CONTINUE} /\ rax' = rax)
  PROVE  Jumps(around)
<1>1. Moves(around)
  BY GotoStays DEF IInv, Moves
<1>2. JumpRuns'
  BY NoJump DEF JumpRuns
<1> QED
  BY <1>1, <1>2 DEF Jumps

LEMMA ReturnJumps ==
  ASSUME IInv, JumpRuns, stack # <<>>, NEW around, stack' = Pop(stack),
         \/ rax' = None
         \/ ret \notin {BREAK, CONTINUE} /\ rax' = rax
         \/ ret' = ret /\ rax' = rax /\ Kind(Top.n) # "FUN" /\ rax # Top.n
  PROVE  Jumps(around)
<1>1. Moves(around)
  BY PopDrops DEF IInv, Moves
<1>2. JumpRuns'
  <2>1. CASE rax' = None
    BY <2>1 DEF JumpRuns
  <2>2. CASE ret \notin {BREAK, CONTINUE} /\ rax' = rax
    BY <2>2, NoJump
  <2>3. CASE ret' = ret /\ rax' = rax /\ Kind(Top.n) # "FUN" /\ rax # Top.n
    BY <2>3, PassesOn DEF IInv
  <2> QED
    BY <2>1, <2>2, <2>3
<1> QED
  BY <1>1, <1>2 DEF Jumps

(* A frame that is no loop's is nobody's target. *)
LEMMA NoTarget ==
  ASSUME IInv, JumpRuns, stack # <<>>, Top.n \notin Loops, Kind(Top.n) # "RETURN",
         ret \in {BREAK, CONTINUE}
  PROVE  rax # Top.n
<1>1. Top.n \in Node /\ None \notin Node
  BY Quiet, AstAssumption
<1> QED
  BY <1>1 DEF JumpRuns

(* Calls. *)
LEMMA CallsJump ==
  ASSUME IInv, JumpRuns, NEW around, LabelsNameLoopsAround(around),
         CallFun \/ FunStart \/ FunEnd
  PROVE  Jumps(around)
<1>1. CASE CallFun
  <2> PICK g : g = Ast[Top.n].callee
    OBVIOUS
  <2>1. stack # <<>> /\ ret = Running /\ rax' = rax /\ g # None /\ CallChild(Top, g)
    BY <1>1 DEF CallFun, Evaluating
  <2>2. g \in Node /\ Kind(g) = "FUN"
    BY <2>1, Quiet, AstFacts
  <2> QED
    BY <2>1, <2>2, CallJumps DEF Running, BREAK, CONTINUE
<1>2. CASE FunStart
  <2> PICK f : f = [Top EXCEPT !.pc = "body"]
    OBVIOUS
  <2> PICK n : n = Ast[Top.n].body
    OBVIOUS
  <2>1. /\ stack # <<>> /\ Kind(Top.n) = "FUN" /\ Top.pc = "start"
        /\ CallChild(f, n) /\ rax' = rax
    BY <1>2 DEF FunStart, At
  <2>2. ~Waits(Top)
    BY <2>1 DEF Waits
  <2>3. Top \in Frames /\ Top.n \in Node /\ ret = Running
    BY <2>1, <2>2, Quiet
  <2>4. f.n = Top.n
    BY <2>3, FrameAt DEF Points
  <2>5. n \in Node /\ n \in Children(Top.n)
    BY <2>1, <2>3, AstFacts DEF Children
  <2>6. ret \notin {BREAK, CONTINUE}
    BY <2>3 DEF Running, BREAK, CONTINUE
  <2> QED
    BY <2>1, <2>4, <2>5, <2>6, CallJumps
<1>3. CASE FunEnd
  <2>1. stack # <<>> /\ Kind(Top.n) = "FUN" /\ stack' = Pop(stack) /\ rax' \in {rax, None}
    BY <1>3 DEF FunEnd, At, TakeRax
  <2>2. rax = None \/ Kind(rax) = "RETURN"
    BY <2>1, NoJumpOut DEF IInv
  <2>3. JumpRuns'
    BY <2>1, <2>2 DEF JumpRuns
  <2> QED
    BY <2>1, <2>3, PopDrops DEF IInv, Moves, Jumps
<1> QED
  BY <1>1, <1>2, <1>3

(* Blocks and statements that pass a code on, or see none. *)
LEMMA ItemsJump ==
  ASSUME IInv, JumpRuns, NEW around, LabelsNameLoopsAround(around), NextItem \/ ItemsEnd
  PROVE  Jumps(around)
<1>1. CASE NextItem
  <2> PICK f : f = [Top EXCEPT !.i = @ + 1]
    OBVIOUS
  <2> PICK n : n = Items(Top.n)[Top.i + 1]
    OBVIOUS
  <2>1. /\ stack # <<>> /\ Top.i < Len(Items(Top.n)) /\ CallChild(f, n)
        /\ ret \in {Running, OK} /\ rax' = rax
    BY <1>1 DEF NextItem
  <2>2. Top \in Frames /\ Top.n \in Node /\ Top.i \in Nat /\ f.n = Top.n
    BY <2>1, Quiet, FrameFacts, FrameNext
  <2>3. n \in Node /\ n \in Children(Top.n)
    <3>1. Len(Items(Top.n)) \in Nat
      BY <2>2, AstFacts
    <3>2. Top.i + 1 \in 1..Len(Items(Top.n))
      BY <2>1, <2>2, <3>1
    <3> QED
      BY <2>2, <3>2, ItemsAreChildren
  <2>4. ret \notin {BREAK, CONTINUE}
    BY <2>1 DEF Running, OK, BREAK, CONTINUE
  <2> QED
    BY <2>1, <2>2, <2>3, <2>4, CallJumps
<1>2. CASE ItemsEnd
  <2>1. /\ stack # <<>> /\ Kind(Top.n) \in {"MODULE", "BODY"} /\ stack' = Pop(stack)
        /\ rax' = rax
        /\ ret' = ret \/ ret \in {Running, OK}
    BY <1>2 DEF ItemsEnd, At, Return
  <2>2. ret \in {BREAK, CONTINUE} => rax # Top.n
    BY <2>1, NoTarget DEF Loops
  <2> QED
    BY <2>1, <2>2, ReturnJumps DEF Running, OK, BREAK, CONTINUE
<1> QED
  BY <1>1, <1>2

(* Statements that call nothing: only a jump sets a target, and it stands in its loop. *)
LEMMA SimpleJumps ==
  ASSUME IInv, JumpRuns, NEW around, Var \/ Expr \/ Throw \/ ReturnStatement
  PROVE  Jumps(around)
<1>1. /\ stack # <<>> /\ Kind(Top.n) \in {"VAR", "EXPR", "THROW", "RETURN"}
      /\ stack' = Pop(stack) /\ rax' \in {rax, Top.n}
      /\ rax' = Top.n => rax' = rax \/ Kind(Top.n) = "RETURN"
  BY DEF Var, Expr, Throw, ReturnStatement, At, Return
<1>2. ~Waits(Top)
  BY <1>1 DEF Waits
<1>3. ret = Running
  BY <1>1, <1>2, Quiet
<1>4. CASE rax' = rax
  BY <1>1, <1>3, <1>4, ReturnJumps DEF Running, BREAK, CONTINUE
<1>5. CASE rax' = Top.n /\ Kind(Top.n) = "RETURN"
  <2>1. JumpRuns'
    BY <1>5 DEF JumpRuns
  <2> QED
    BY <1>1, <2>1, PopDrops DEF IInv, Moves, Jumps
<1> QED
  BY <1>1, <1>4, <1>5

(* Nor does the check of a declared type. *)
LEMMA CheckTypeJumps ==
  ASSUME IInv, JumpRuns, NEW around, CheckType
  PROVE  Jumps(around) \/ UNCHANGED <<stack, ret, rax>>
<1> DEFINE f == [Top EXCEPT !.pc = "checked"]
<1>1. /\ stack # <<>> /\ Kind(Top.n) = "VAR" /\ rax' = rax
      /\ Goto(f) \/ Return(ERROR) \/ UNCHANGED <<stack, ret, rax>>
  BY DEF CheckType, At
<1>2. ~Waits(Top)
  BY <1>1 DEF Waits
<1>3. ret = Running /\ Top \in Frames /\ f.n = Top.n
  BY <1>1, <1>2, Quiet, FrameAt DEF Points
<1> HIDE DEF f
<1>4. CASE Goto(f)
  BY <1>1, <1>3, <1>4, GotoJumps DEF Running, BREAK, CONTINUE
<1>5. CASE Return(ERROR)
  BY <1>1, <1>3, <1>5, ReturnJumps DEF Return, Running, BREAK, CONTINUE
<1> QED
  BY <1>1, <1>4, <1>5

LEMMA JumpJumps ==
  ASSUME IInv, NEW around, LabelsNameLoopsAround(around), JInv(around), Jump
  PROVE  Jumps(around)
<1> PICK n : n = Top.n
  OBVIOUS
<1> PICK t : t = LabelTarget[n]
  OBVIOUS
<1>1. /\ stack # <<>> /\ Kind(n) \in {"BREAK", "CONTINUE"} /\ Top.pc = "start"
      /\ stack' = Pop(stack)
      /\ \/ rax' = rax
         \/ Ast[n].label # None /\ t \in Loops /\ rax' = t /\ ret' \in {BREAK, CONTINUE}
  BY DEF Jump, At, Return
<1>2. ~Waits(Top)
  BY <1>1 DEF Waits
<1>3. ret = Running /\ n \in Node /\ Depth \in Nat \ {0} /\ Depth \in 1..Depth
      /\ Top = stack[Depth]
  BY <1>1, <1>2, Quiet
<1>4. CASE rax' = rax
  BY <1>1, <1>3, <1>4, ReturnJumps DEF JInv, Running, BREAK, CONTINUE
<1>5. CASE Ast[n].label # None /\ t \in Loops /\ rax' = t /\ ret' \in {BREAK, CONTINUE}
  <2>1. t \in around[n] /\ Ast[t].label = Ast[n].label
    BY <1>1, <1>3, <1>5 DEF LabelsNameLoopsAround
  <2>2. Runs(t)
    BY <1>3, <2>1 DEF JInv, Covered, Runs
  <2>3. t # n /\ Kind(n) # "FUN"
    BY <1>1, <1>5 DEF Loops
  <2>4. \E i \in 1..Depth' : Act(stack', i) = Act(stack', Depth') /\ stack'[i].n = t
    BY <1>1, <2>2, <2>3, StillRuns DEF IInv
  <2>5. JumpRuns'
    BY <1>5, <2>1, <2>4 DEF JumpRuns, Runs
  <2> QED
    BY <1>1, <2>5, PopDrops DEF IInv, Moves, Jumps
<1> QED
  BY <1>1, <1>4, <1>5

LEMMA IfJumps ==
  ASSUME IInv, JumpRuns, NEW around, LabelsNameLoopsAround(around), If \/ IfEnd
  PROVE  Jumps(around)
<1>1. CASE If
  <2> PICK f : f = [Top EXCEPT !.pc = "branch"]
    OBVIOUS
  <2>1. /\ stack # <<>> /\ Kind(Top.n) = "IF" /\ Top.pc = "start" /\ rax' = rax
        /\ \/ stack' = Pop(stack)
           \/ CallChild(f, Ast[Top.n].body)
           \/ Ast[Top.n].other # None /\ CallChild(f, Ast[Top.n].other)
    BY <1>1 DEF If, At, Return
  <2>2. ~Waits(Top)
    BY <2>1 DEF Waits
  <2>3. Top \in Frames /\ Top.n \in Node /\ f.n = Top.n /\ ret = Running
    BY <2>1, <2>2, Quiet, FrameAt DEF Points
  <2>4. /\ Ast[Top.n].body \in Node /\ Ast[Top.n].body \in Children(Top.n)
        /\ Ast[Top.n].other # None =>
             Ast[Top.n].other \in Node /\ Ast[Top.n].other \in Children(Top.n)
    BY <2>1, <2>3, AstFacts DEF Children
  <2>5. ret \notin {BREAK, CONTINUE}
    BY <2>3 DEF Running, BREAK, CONTINUE
  <2>6. CASE stack' = Pop(stack)
    BY <2>1, <2>5, <2>6, ReturnJumps
  <2>7. CASE \E n \in Node : n \in Children(Top.n) /\ CallChild(f, n)
    BY <2>1, <2>3, <2>5, <2>7, CallJumps
  <2> QED
    BY <2>1, <2>4, <2>6, <2>7
<1>2. CASE IfEnd
  <2>1. /\ stack # <<>> /\ Kind(Top.n) = "IF" /\ stack' = Pop(stack)
        /\ rax' = rax /\ ret' = ret
    BY <1>2 DEF IfEnd, At, Return
  <2>2. ret \in {BREAK, CONTINUE} => rax # Top.n
    BY <2>1, NoTarget DEF Loops
  <2> QED
    BY <2>1, <2>2, ReturnJumps
<1> QED
  BY <1>1, <1>2

-----------------------------------------------------------------------------
(* Loops: what a loop does not take, it passes on; a jump for it by name is not that. *)
LEMMA LoopJumps ==
  ASSUME IInv, JumpRuns, NEW around, LabelsNameLoopsAround(around),
         ForInit \/ ForCondition \/ ForIncrement \/ ForinIterator \/ ForinNext
  PROVE  Jumps(around)
<1>1. stack # <<>> /\ Kind(Top.n) \in {"FOR", "FORIN"} /\ rax' = rax
  BY DEF ForInit, ForCondition, ForIncrement, ForinIterator, ForinNext, At
<1>2. ret \notin {BREAK, CONTINUE}
  <2>1. CASE ForInit
    BY <2>1 DEF ForInit, Return, Running, OK, ERROR, BREAK, CONTINUE
  <2>2. CASE ForCondition \/ ForIncrement \/ ForinIterator \/ ForinNext
    <3>1. ~Waits(Top)
      BY <2>2 DEF ForCondition, ForIncrement, ForinIterator, ForinNext, At, Waits
    <3> QED
      BY <1>1, <3>1, Quiet DEF Running, BREAK, CONTINUE
  <2> QED
    BY <2>1, <2>2
<1>3. /\ Top \in Frames /\ Top.n \in Node /\ Top.i \in Nat
      /\ \A pc \in Points : [Top EXCEPT !.pc = pc].n = Top.n
      /\ [Top EXCEPT !.i = @ + 1].n = Top.n
  BY <1>1, Quiet, FrameFacts, FrameAt, FrameNext
<1>4. \A pc \in {"cond", "next", "body"} : pc \in Points
  BY DEF Points
<1>5. Ast[Top.n].body \in Node /\ Ast[Top.n].body \in Children(Top.n)
  BY <1>1, <1>3, AstFacts DEF Children
<1>6. \/ stack' = Pop(stack)
      \/ \E pc \in {"cond", "next"} : Goto([Top EXCEPT !.pc = pc])
      \/ CallChild([Top EXCEPT !.pc = "body"], Ast[Top.n].body)
      \/ /\ Top.i < Len(Items(Top.n))
         /\ CallChild([Top EXCEPT !.i = @ + 1], Items(Top.n)[Top.i + 1])
  BY DEF ForInit, ForCondition, ForIncrement, ForinIterator, ForinNext, Return
<1>7. CASE stack' = Pop(stack)
  BY <1>1, <1>2, <1>7, ReturnJumps
<1>8. CASE \E f : f.n = Top.n /\ Goto(f)
  BY <1>1, <1>2, <1>8, GotoJumps
<1>9. CASE \E f : \E n \in Node : f.n = Top.n /\ n \in Children(Top.n) /\ CallChild(f, n)
  BY <1>1, <1>2, <1>9, CallJumps
<1>10. Top.i < Len(Items(Top.n)) =>
         Items(Top.n)[Top.i + 1] \in Node /\ Items(Top.n)[Top.i + 1] \in Children(Top.n)
  <2>1. Len(Items(Top.n)) \in Nat
    BY <1>3, AstFacts
  <2>2. Top.i < Len(Items(Top.n)) => Top.i + 1 \in 1..Len(Items(Top.n))
    BY <1>3, <2>1
  <2> QED
    BY <1>3, <2>2, ItemsAreChildren
<1> QED
  BY <1>3, <1>4, <1>5, <1>6, <1>7, <1>8, <1>9, <1>10

LEMMA LoopBodyEndJumps ==
  ASSUME IInv, JumpRuns, NEW around, LoopBodyEnd
  PROVE  Jumps(around)
<1> PICK f : f = [Top EXCEPT !.pc = IF Kind(Top.n) = "FOR" THEN "incr" ELSE "next"]
  OBVIOUS
<1>1. /\ stack # <<>> /\ Kind(Top.n) \in {"FOR", "FORIN"}
      /\ \/ ret = ERROR /\ stack' = Pop(stack) /\ rax' = rax
         \/ ret = OK /\ Goto(f) /\ rax' = rax
         \/ ret = CONTINUE /\ Goto(f) /\ rax' = None
         \/ stack' = Pop(stack) /\ rax' = None
         \/ ret \in {THROW, RETURN} /\ stack' = Pop(stack) /\ rax' = rax
         \/ ~IsFor(Top.n) /\ stack' = Pop(stack) /\ ret' = ret /\ rax' = rax
  BY DEF LoopBodyEnd, At, Return, GoesOn, ClearRax, OK, CONTINUE
<1>2. Top \in Frames /\ f.n = Top.n /\ Kind(Top.n) # "FUN"
  BY <1>1, Quiet DEF Frames
<1>3. ret \in {ERROR, OK, THROW, RETURN} => ret \notin {BREAK, CONTINUE}
  BY DEF ERROR, OK, THROW, RETURN, BREAK, CONTINUE
<1>4. ret \in {BREAK, CONTINUE} /\ ~IsFor(Top.n) => rax # Top.n
  BY <1>1 DEF IsFor, JumpRuns
<1>5. CASE stack' = Pop(stack)
  <2>1. \/ rax' = None
        \/ ret \notin {BREAK, CONTINUE} /\ rax' = rax
        \/ ret' = ret /\ rax' = rax /\ Kind(Top.n) # "FUN" /\ rax # Top.n
    BY <1>1, <1>2, <1>3, <1>4
  <2> QED
    BY <1>1, <1>5, <2>1, ReturnJumps
<1>6. CASE Goto(f) /\ (rax' = None \/ (ret = OK /\ rax' = rax))
  BY <1>1, <1>2, <1>3, <1>6, GotoJumps
<1> QED
  BY <1>1, <1>5, <1>6

(* The try statement passes on what it does not handle. *)
LEMMA TryJumps ==
  ASSUME IInv, JumpRuns, NEW around, LabelsNameLoopsAround(around),
         TryBody \/ TryEnd \/ TryPass \/ TryMismatch
  PROVE  Jumps(around)
<1>1. /\ stack # <<>> /\ Kind(Top.n) = "TRY" /\ Top.pc \in {"start", "catch"} /\ rax' = rax
      /\ \/ stack' = Pop(stack)
         \/ CallChild([Top EXCEPT !.pc = "body"], Ast[Top.n].body)
         \/ \E i \in DOMAIN expections : Goto([Top EXCEPT !.b = CellAfter(i)])
  BY DEF TryBody, TryEnd, TryPass, TryMismatch, Catches, At, Return
<1>2. ~Waits(Top)
  BY <1>1 DEF Waits
<1>3. /\ Top \in Frames /\ Top.n \in Node /\ ret = Running
      /\ Ast[Top.n].body \in Node /\ Ast[Top.n].body \in Children(Top.n)
  BY <1>1, <1>2, Quiet, AstFacts DEF Children
<1>4. ret \notin {BREAK, CONTINUE}
  BY <1>3 DEF Running, BREAK, CONTINUE
<1>5. [Top EXCEPT !.pc = "body"].n = Top.n /\ \A i : [Top EXCEPT !.b = CellAfter(i)].n = Top.n
  BY <1>3 DEF Frames
<1>6. CASE stack' = Pop(stack)
  BY <1>1, <1>4, <1>6, ReturnJumps
<1>7. CASE \E f : f.n = Top.n /\ Goto(f)
  BY <1>1, <1>4, <1>7, GotoJumps
<1>8. CASE \E f : f.n = Top.n /\ CallChild(f, Ast[Top.n].body)
  BY <1>1, <1>3, <1>4, <1>8, CallJumps
<1> QED
  BY <1>1, <1>5, <1>6, <1>7, <1>8

LEMMA TryBodyEndJumps ==
  ASSUME IInv, JumpRuns, NEW around, TryBodyEnd \/ TryCatchEnd
  PROVE  Jumps(around)
<1>1. /\ stack # <<>> /\ Kind(Top.n) = "TRY" /\ rax' = rax
      /\ \/ stack' = Pop(stack) /\ ret' = ret
         \/ /\ ret \notin {BREAK, CONTINUE}
            /\ \/ Goto([Top EXCEPT !.pc = "catch", !.code = ret, !.b = CellAt(1)])
               \/ Goto([Top EXCEPT !.pc = "catch", !.expection = None])
  BY DEF TryBodyEnd, TryCatchEnd, At, Return, Handles, ERROR, THROW, BREAK, CONTINUE
<1>2. /\ [Top EXCEPT !.pc = "catch", !.code = ret, !.b = CellAt(1)].n = Top.n
      /\ [Top EXCEPT !.pc = "catch", !.expection = None].n = Top.n
  BY <1>1, Quiet DEF Frames
<1>3. ret \in {BREAK, CONTINUE} => rax # Top.n
  BY <1>1, NoTarget DEF Loops
<1>4. CASE stack' = Pop(stack) /\ ret' = ret
  BY <1>1, <1>3, <1>4, ReturnJumps
<1>5. CASE ret \notin {BREAK, CONTINUE} /\ \E f : f.n = Top.n /\ Goto(f)
  BY <1>1, <1>5, GotoJumps
<1> QED
  BY <1>1, <1>2, <1>4, <1>5

(* A catch body stands in a clause, and the clause where its try does. *)
LEMMA TryCatchJumps ==
  ASSUME IInv, JumpRuns, NEW around, LabelsNameLoopsAround(around), TryCatch
  PROVE  Jumps(around)
<1> PICK clause : clause = Ast[Top.n].other
  OBVIOUS
<1> PICK body : body = Ast[clause].body
  OBVIOUS
<1>1. PICK i \in DOMAIN expections :
        /\ stack # <<>> /\ Kind(Top.n) = "TRY" /\ Top.pc = "catch" /\ clause # None
        /\ rax' = rax
        /\ \/ CallChild([Top EXCEPT !.pc = "handling", !.b = CellAfter(i),
                                    !.expection = expections[i].value], body)
           \/ UNCHANGED stack
  BY DEF TryCatch, Catches, At
<1>2. ~Waits(Top)
  BY <1>1 DEF Waits
<1>3. Top \in Frames /\ Top.n \in Node /\ ret = Running
  BY <1>1, <1>2, Quiet
<1>4. ret \notin {BREAK, CONTINUE}
  BY <1>3 DEF Running, BREAK, CONTINUE
<1>5. JumpRuns'
  BY <1>1, <1>4, NoJump
<1>6. CASE UNCHANGED stack
  BY <1>5, <1>6 DEF Moves, Jumps
<1>7. CASE \E f : f.n = Top.n /\ CallChild(f, body)
  <2>1. clause \in Node /\ Kind(clause) = "CATCH" /\ clause \in Children(Top.n)
    BY <1>1, <1>3, AstFacts DEF Children
  <2>2. body \in Node /\ Kind(body) = "BODY" /\ body \in Children(clause)
    BY <2>1, AstFacts DEF Children
  <2>3. clause \notin Loops /\ Top.n \notin Loops
    BY <1>1, <2>1 DEF Loops
  <2>4. around[clause] \subseteq around[Top.n] /\ around[body] \subseteq around[clause]
    BY <1>3, <2>1, <2>2, <2>3, ChildFits
  <2>5. Fits(around, body)
    BY <2>2, <2>4 DEF Fits
  <2>6. Adds(body)
    BY <1>1, <1>7, <2>2, CallAdds DEF IInv
  <2> QED
    BY <1>5, <2>2, <2>5, <2>6 DEF Moves, Jumps
<1>8. [Top EXCEPT !.pc = "handling", !.b = CellAfter(i),
                  !.expection = expections[i].value].n = Top.n
  BY <1>3 DEF Frames
<1> QED
  BY <1>1, <1>6, <1>7, <1>8

-----------------------------------------------------------------------------
(* Every action keeps the jumps' invariant. *)
LEMMA JumpsStep ==
  ASSUME NEW around, LabelsNameLoopsAround(around)
  PROVE  IInv /\ JInv(around) /\ [Next]_vars => JInv(around)'
<1> SUFFICES ASSUME IInv, JInv(around), [Next]_vars PROVE JInv(around)'
  OBVIOUS
<1>1. CASE stack' = stack /\ ret' = ret /\ rax' = rax
  BY <1>1 DEF JInv, JumpRuns, Runs, Covered, Depth
<1>2. CASE Jumps(around) /\ stack # <<>>
  BY <1>2, CoveredStep DEF IInv, JInv, Jumps
<1>3. stack = <<>> \/ Evaluate \/ TryDangling \/ UNCHANGED vars
        => stack' = stack /\ ret' = ret /\ rax' = rax
  BY DEF Next, Step, Terminated, vars, Evaluate, TryDangling, CallFun, Evaluating, FunStart,
     FunEnd, NextItem, ItemsEnd, CheckType, Var, Expr, If, IfEnd, Throw, ReturnStatement,
     Jump, ForInit, ForCondition, ForIncrement, ForinIterator, ForinNext, LoopBodyEnd, TryBody, TryBodyEnd,
     TryEnd, TryPass, TryMismatch, TryCatch, TryCatchEnd, Catches, At
<1>4. CASE CallFun \/ FunStart \/ FunEnd \/ NextItem \/ ItemsEnd
  BY <1>1, <1>2, <1>3, <1>4, CallsJump, ItemsJump DEF JInv
<1>5. CASE CheckType \/ Var \/ Expr \/ If \/ IfEnd \/ Throw \/ ReturnStatement \/ Jump
  BY <1>1, <1>2, <1>3, <1>5, CheckTypeJumps, SimpleJumps, IfJumps, JumpJumps DEF JInv
<1>6. CASE ForInit \/ ForCondition \/ ForIncrement \/ ForinIterator \/ ForinNext \/ LoopBodyEnd
  BY <1>1, <1>2, <1>3, <1>6, LoopJumps, LoopBodyEndJumps DEF JInv
<1>7. CASE TryBody \/ TryBodyEnd \/ TryEnd \/ TryPass \/ TryMismatch \/ TryCatch \/ TryCatchEnd
  BY <1>1, <1>2, <1>3, <1>7, TryJumps, TryBodyEndJumps, TryCatchJumps DEF JInv
<1> QED
  BY <1>1, <1>3, <1>4, <1>5, <1>6, <1>7 DEF Next, Step, Terminated

(* A program starts in its module, in no loop, and with no jump. *)
LEMMA JumpsInit ==
  ASSUME NEW around, LabelsNameLoopsAround(around)
  PROVE  Init => JInv(around)
<1> SUFFICES ASSUME Init PROVE JInv(around)
  OBVIOUS
<1> PICK n : n = CHOOSE m \in Node : Kind(m) = "MODULE"
  OBVIOUS
<1>1. n \in Node /\ Kind(n) = "MODULE"
  BY AstAssumption
<1>2. stack = <<Frame(n, "start")>> /\ rax = None
  BY DEF Init
<1>3. Depth = 1 /\ stack[1].n = n
  BY <1>1, <1>2, NewFrame DEF Depth
<1>4. around[n] = {}
  BY <1>1 DEF LabelsNameLoopsAround
<1>5. Covered(around)
  BY <1>3, <1>4 DEF Covered
<1> QED
  BY <1>2, <1>5 DEF JInv, JumpRuns

(* In a program whose labels name loops around their jumps, inside their function: a
   labelled break or continue on its way is for a loop that still runs in the innermost
   activation, so that it is taken by that loop and never leaves a function. *)
THEOREM JumpsHaveTargets ==
  ASSUME NEW around, LabelsNameLoopsAround(around)
  PROVE  Spec => []JumpHasTarget
<1>1. Init => JInv(around)
  BY JumpsInit
<1>2. IInv /\ JInv(around) /\ [Next]_vars => JInv(around)'
  BY JumpsStep
<1>3. ASSUME IInv, SInv, JInv(around)
      PROVE  JumpHasTarget
  <2> SUFFICES ASSUME ret \in {BREAK, CONTINUE}, rax # None
               PROVE  \E i \in 1..Depth : stack[i].n = rax /\ Activation(i) = Level
    BY DEF JumpHasTarget
  <2>1. Kind(rax) # "RETURN"
    BY <1>3 DEF IInv, ReturnValueInFlight, RETURN, BREAK, CONTINUE
  <2>2. PICK i \in 1..Depth : Act(stack, i) = Act(stack, Depth) /\ stack[i].n = rax
    BY <1>3, <2>1 DEF JInv, JumpRuns, Runs
  <2>3. stack # <<>>
    BY <2>2 DEF Depth
  <2>4. Level = Act(stack, Depth)
    BY <1>3, <2>3 DEF SInv, Shape
  <2>5. Activation(i) = Act(stack, i)
    BY DEF Activation, Act
  <2> QED
    BY <2>2, <2>4, <2>5
<1> QED
  BY <1>1, <1>2, <1>3, ScopesInvariant, PTL DEF Spec
=============================================================================
