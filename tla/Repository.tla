----------------------------- MODULE Repository -----------------------------
(***************************************************************************)
(* The module loader: repository.c, with the two places that call it while *)
(* another load is under way, not_semantic_using (parser/semantic) for     *)
(* each `using' of a module and not_primary_selection for a name that a    *)
(* `using' imports, and main, which loads the first file.                  *)
(*                                                                         *)
(* A load appends the module to the list before it analyses and executes   *)
(* it, so that a module that is used in a circle is found there.  The C    *)
(* stack of loads is the variable `stack'.  A path stands for a normalized *)
(* file name, which is what the list is searched for.                      *)
(***************************************************************************)
EXTENDS Naturals, Sequences, FiniteSets

CONSTANTS Path,    \* the files
          Main,    \* the file given on the command line
          Uses,    \* the `using' items of each file, in order
          Native   \* the files that describe a shared library (JSON)

ASSUME PathAssumption == /\ Main \in Path
                         /\ Uses \in [Path -> Seq(Path)]
                         /\ Native \subseteq Path
                         /\ \A p \in Native : Uses[p] = <<>>

VARIABLES
  loaded,  \* the paths in repository->queue
  stack,   \* the loads that analyse or run their module, innermost last
  ret,     \* what the last not_repository_load returned
  runs,    \* how many times not_execute_run was called for each path
  done     \* how the load that appended each path ended: "no", "ok" or "failed"

vars == <<loaded, stack, ret, runs, done>>

Depth == Len(stack)
Top == stack[Depth]
Load(p, pc, i) == [path |-> p, pc |-> pc, i |-> i]
Pop(s) == SubSeq(s, 1, Len(s) - 1)
Used(p) == {Uses[p][i] : i \in 1..Len(Uses[p])}

\* The modules whose code can run while p runs: p, and what it uses, directly or not.
Reachable ==
  LET within[n \in Nat] ==
        [p \in Path |->
           IF n = 0 THEN {p} ELSE within[n - 1][p] \cup UNION {Used(q) : q \in within[n - 1][p]}]
  IN  within[Cardinality(Path)]

Init == /\ loaded = {}
        /\ stack = <<>>
        /\ ret = "none"
        /\ runs = [p \in Path |-> 0]
        /\ done = [p \in Path |-> "no"]

-----------------------------------------------------------------------------
\* A path in the list is answered with its entry, whatever state it is in.  Before
\* this come wrong forms of it: one waits until the module has run, one tries again
\* what has failed.
ListedUnlessFailed(p) == p \in loaded /\ done[p] # "failed"
ListedWhenRun(p) == p \in loaded /\ done[p] = "ok"
Listed(p) == p \in loaded

\* not_repository_load(base, p), called by a load (or main) whose stack is s.
Call(p, s) ==
  \/ /\ Listed(p)
     /\ stack' = s
     /\ ret' = "entry"
     /\ UNCHANGED <<loaded, runs, done>>
  \/ /\ ~Listed(p)             \* cannot be opened, read or parsed
     /\ stack' = s
     /\ ret' = "error"
     /\ UNCHANGED <<loaded, runs, done>>
  \/ /\ ~Listed(p)
     /\ p \in Native
     /\ loaded' = loaded \cup {p}
     /\ done' = [done EXCEPT ![p] = "ok"]
     /\ stack' = s
     /\ ret' = "entry"
     /\ UNCHANGED runs
  \/ /\ ~Listed(p)
     /\ p \notin Native
     /\ loaded' = loaded \cup {p}
     /\ stack' = Append(s, Load(p, "semantic", 0))
     /\ ret' = "none"
     /\ UNCHANGED <<runs, done>>

\* The innermost load returns.
Return(how) == /\ stack' = Pop(stack)
               /\ ret' = IF how = "ok" THEN "entry" ELSE "error"
               /\ done' = [done EXCEPT ![Top.path] = how]
               /\ UNCHANGED <<loaded, runs>>

At(pc) == stack # <<>> /\ Top.pc = pc

\* main
MainLoad == /\ stack = <<>>
            /\ ret = "none"
            /\ Call(Main, stack)

\* not_semantic_module reaches the next `using' item, or finds an error in any item,
\* or is through.  Before the last comes a wrong form that leaves out an item.
Using == /\ At("semantic")
         /\ ret # "error"
         /\ Top.i < Len(Uses[Top.path])
         /\ Call(Uses[Top.path][Top.i + 1],
                 [stack EXCEPT ![Depth] = Load(Top.path, "semantic", Top.i + 1)])

SemanticFails == At("semantic") /\ Return("failed")

ThroughAllButOne == Top.i + 1 >= Len(Uses[Top.path])
Through == Top.i = Len(Uses[Top.path])
SemanticEnd == /\ At("semantic")
               /\ ret # "error"
               /\ Through
               /\ stack' = [stack EXCEPT ![Depth] = Load(Top.path, "run", Top.i)]
               /\ ret' = "none"
               /\ runs' = [runs EXCEPT ![Top.path] = @ + 1]
               /\ UNCHANGED <<loaded, done>>

\* The running module, or code it has reached, mentions an imported name.  If that
\* load fails, a try may catch it and the module runs on.
Lookup == /\ At("run")
          /\ \E m \in loaded \cap Reachable[Top.path] : \E p \in Used(m) : Call(p, stack)

RunFails == At("run") /\ Return("failed")
RunEnd == At("run") /\ Return("ok")

\* main has its answer and exits.
Exited == stack = <<>> /\ ret # "none" /\ UNCHANGED vars

Next == \/ MainLoad \/ Using \/ SemanticFails \/ SemanticEnd
        \/ Lookup \/ RunFails \/ RunEnd \/ Exited

Spec == Init /\ [][Next]_vars

-----------------------------------------------------------------------------
Loads == [path : Path, pc : {"semantic", "run"}, i : Nat]

(* The types of the variables. *)
TypeOK ==
  /\ loaded \subseteq Path
  /\ stack \in Seq(Loads)
  /\ ret \in {"none", "entry", "error"}
  /\ runs \in [Path -> Nat]
  /\ done \in [Path -> {"no", "ok", "failed"}]

(* A file is executed at most once, however often and in whatever circles it is used. *)
RunsOnce == \A p \in Path : runs[p] <= 1

(* A file is never loaded inside its own load: the recursion of loads, and with it the
   C stack, is no deeper than there are files. *)
NoLoadInItself ==
  \A i, j \in 1..Depth : stack[i].path = stack[j].path => i = j

(* When a module runs, the load of each module it uses has returned, or is one of
   those that led to it (a circle). *)
UsesBeforeRun ==
  \A i \in 1..Depth : stack[i].pc = "run" =>
     \A q \in Used(stack[i].path) :
        done[q] # "no" \/ \E j \in 1..i : stack[j].path = q
=============================================================================
