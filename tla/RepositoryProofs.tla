-------------------------- MODULE RepositoryProofs --------------------------
(***************************************************************************)
(* The loader runs each file once and never loads it inside its own load,  *)
(* for any set of files that use each other in any way.                    *)
(*                                                                         *)
(* The list is what makes it so: a load appends its path before it does    *)
(* anything that could load again, and what is appended stays.  The        *)
(* invariant therefore ties the list to the stack of loads (StackListed,   *)
(* ListedSettled) and to the runs, and says how far a load has come        *)
(* through the files its module uses (UsesListed).                         *)
(***************************************************************************)
EXTENDS Repository, SequenceTheorems, TLAPS

\* Each load on the stack is of a listed path, has not ended, and has run its module
\* once if it has come to that.
StackListed ==
  \A i \in 1..Depth :
    /\ stack[i].path \in loaded
    /\ done[stack[i].path] = "no"
    /\ runs[stack[i].path] = IF stack[i].pc = "run" THEN 1 ELSE 0

UnlistedUntouched == \A p \in Path \ loaded : runs[p] = 0 /\ done[p] = "no"

\* No listed path is forgotten: its load has ended or is on the stack.
ListedSettled ==
  \A p \in loaded : done[p] # "no" \/ \E i \in 1..Depth : stack[i].path = p

\* What a load has gone through is listed, except the one that has just failed.
UsesListed ==
  \A i \in 1..Depth :
    /\ stack[i].pc = "run" => stack[i].i = Len(Uses[stack[i].path])
    /\ \A k \in 1..stack[i].i :
          \/ k \in 1..Len(Uses[stack[i].path]) /\ Uses[stack[i].path][k] \in loaded
          \/ i = Depth /\ ret = "error" /\ stack[i].pc = "semantic"

IInv == /\ TypeOK
        /\ NoLoadInItself
        /\ StackListed
        /\ UnlistedUntouched
        /\ RunsOnce
        /\ ListedSettled
        /\ UsesListed
        /\ UsesBeforeRun

(* The frames are records of a path, what the load is doing and how far it has come. *)
LEMMA FrameTypes ==
  ASSUME NEW s \in Seq(Loads)
  PROVE  /\ Len(s) \in Nat
         /\ \A i \in 1..Len(s) : /\ s[i] \in Loads
                                 /\ s[i].path \in Path
                                 /\ s[i].pc \in {"semantic", "run"}
                                 /\ s[i].i \in Nat
<1>1. Len(s) \in Nat /\ \A i \in 1..Len(s) : s[i] \in Loads
  OBVIOUS
<1> QED
  BY <1>1 DEF Loads

(* What becomes of the frames below the innermost one when that returns. *)
LEMMA PopFacts ==
  ASSUME NEW s \in Seq(Loads), s # <<>>
  PROVE  /\ Pop(s) \in Seq(Loads)
         /\ Len(Pop(s)) = Len(s) - 1
         /\ \A i \in 1..Len(s) - 1 : Pop(s)[i] = s[i]
<1> DEFINE n == Len(s) - 1
<1>1. n \in Nat
  OBVIOUS
<1>2. \A i \in 1..n : s[i] \in Loads
  OBVIOUS
<1> HIDE DEF n
<1>3. /\ SubSeq(s, 1, n) \in Seq(Loads)
      /\ Len(SubSeq(s, 1, n)) = IF 1 <= n THEN n - 1 + 1 ELSE 0
      /\ \A i \in 1..n - 1 + 1 : SubSeq(s, 1, n)[i] = s[1 + i - 1]
  BY <1>1, <1>2, SubSeqProperties
<1> DEFINE t == SubSeq(s, 1, n)
<1> HIDE DEF t
<1>4. t \in Seq(Loads) /\ Len(t) = n /\ \A i \in 1..n : t[i] = s[i]
  <2>1. n - 1 + 1 = n /\ (1 <= n \/ n = 0) /\ \A i \in 1..n : 1 + i - 1 = i
    BY <1>1
  <2> QED
    BY <1>1, <1>3, <2>1 DEF t
<1> QED
  BY <1>4 DEF t, n, Pop

(* What becomes of the frames when the innermost one is replaced. *)
LEMMA ReplaceFacts ==
  ASSUME NEW s \in Seq(Loads), s # <<>>, NEW f \in Loads
  PROVE  LET t == [s EXCEPT ![Len(s)] = f]
         IN  /\ Len(s) \in 1..Len(s)
             /\ t \in Seq(Loads)
             /\ Len(t) = Len(s)
             /\ \A i \in 1..Len(s) : t[i] = IF i = Len(s) THEN f ELSE s[i]
  OBVIOUS

(* The end of a load, good or bad, keeps the invariant. *)
LEMMA ReturnStep ==
  ASSUME IInv, stack # <<>>, NEW how \in {"ok", "failed"}, Return(how)
  PROVE  IInv'
<1>1. /\ stack \in Seq(Loads) /\ stack' \in Seq(Loads)
      /\ Depth \in Nat \ {0} /\ Depth' = Depth - 1
      /\ \A i \in 1..Depth - 1 : stack'[i] = stack[i]
  <2>1. stack \in Seq(Loads) /\ stack' = Pop(stack)
    BY DEF IInv, TypeOK, Return
  <2>2. Len(stack) \in Nat \ {0}
    BY <2>1
  <2> QED
    BY <2>1, <2>2, PopFacts DEF Depth
<1>2. \A i \in 1..Depth : stack[i].path \in Path
  BY <1>1, FrameTypes DEF Depth
<1>3. /\ loaded' = loaded /\ runs' = runs
      /\ ret' \in {"entry", "error"}
      /\ done' = [done EXCEPT ![stack[Depth].path] = how]
  BY DEF Return, Top
<1>4. done \in [Path -> {"no", "ok", "failed"}] /\ runs \in [Path -> Nat] /\ loaded \subseteq Path
  BY DEF IInv, TypeOK
<1>5. TypeOK'
  BY <1>1, <1>3, <1>4 DEF TypeOK
<1>6. NoLoadInItself' /\ RunsOnce'
  BY <1>1, <1>3 DEF IInv, NoLoadInItself, RunsOnce
<1>7. StackListed'
  BY <1>1, <1>2, <1>3, <1>4 DEF IInv, NoLoadInItself, StackListed
<1>8. UnlistedUntouched'
  BY <1>1, <1>2, <1>3, <1>4 DEF IInv, UnlistedUntouched, StackListed
<1>9. ListedSettled'
  <2> SUFFICES ASSUME NEW p \in loaded, done'[p] = "no"
               PROVE  \E i \in 1..Depth - 1 : stack'[i].path = p
    BY <1>1, <1>3 DEF ListedSettled
  <2>1. done[p] = "no" /\ p # stack[Depth].path
    BY <1>1, <1>2, <1>3, <1>4
  <2>2. PICK i \in 1..Depth : stack[i].path = p
    BY <2>1 DEF IInv, ListedSettled
  <2> QED
    BY <1>1, <2>1, <2>2
<1>10. UsesListed'
  BY <1>1, <1>3 DEF IInv, UsesListed
<1>11. UsesBeforeRun'
  <2> SUFFICES ASSUME NEW i \in 1..Depth', stack'[i].pc = "run", NEW q \in Used(stack'[i].path)
               PROVE  done'[q] # "no" \/ \E j \in 1..i : stack'[j].path = q
    BY DEF UsesBeforeRun
  <2>1. i \in 1..Depth - 1 /\ stack'[i] = stack[i]
    BY <1>1
  <2>2. done[q] # "no" \/ \E j \in 1..i : stack[j].path = q
    BY <1>1, <2>1 DEF IInv, UsesBeforeRun
  <2>3. q \in Path
    BY <1>1, <1>2, <2>1, PathAssumption DEF Used
  <2> QED
    BY <1>1, <1>3, <1>4, <2>1, <2>2, <2>3
<1> QED
  BY <1>5, <1>6, <1>7, <1>8, <1>9, <1>10, <1>11 DEF IInv

(* The step from the analysis of a module to its run keeps the invariant. *)
LEMMA SemanticEndStep ==
  ASSUME IInv, SemanticEnd
  PROVE  IInv'
<1>0. stack \in Seq(Loads) /\ stack # <<>> /\ Depth \in 1..Depth /\ Top \in Loads
  BY FrameTypes DEF IInv, TypeOK, SemanticEnd, At, Depth, Top
<1>1. /\ Load(Top.path, "run", Top.i) \in Loads
      /\ Load(Top.path, "run", Top.i).path = Top.path
      /\ Load(Top.path, "run", Top.i).pc = "run"
      /\ Load(Top.path, "run", Top.i).i = Top.i
  BY <1>0 DEF Load, Loads
<1>2. /\ Depth \in Nat
      /\ stack' \in Seq(Loads) /\ Depth' = Depth
      /\ \A i \in 1..Depth : /\ stack'[i].path = stack[i].path
                             /\ stack'[i].i = stack[i].i
                             /\ stack'[i].pc = IF i = Depth THEN "run" ELSE stack[i].pc
  BY <1>0, <1>1, ReplaceFacts DEF SemanticEnd, Depth, Top
<1>3. \A i \in 1..Depth : stack[i].path \in Path /\ stack[i].i \in Nat
  BY <1>0, FrameTypes DEF Depth
<1>4. /\ loaded' = loaded /\ done' = done /\ ret # "error" /\ ret' = "none"
      /\ stack[Depth].pc = "semantic"
      /\ stack[Depth].i = Len(Uses[stack[Depth].path])
      /\ runs' = [runs EXCEPT ![stack[Depth].path] = @ + 1]
  BY DEF SemanticEnd, At, Through, Top
<1>5. done \in [Path -> {"no", "ok", "failed"}] /\ runs \in [Path -> Nat] /\ loaded \subseteq Path
  BY DEF IInv, TypeOK
<1>6. TypeOK'
  BY <1>0, <1>2, <1>3, <1>4, <1>5 DEF TypeOK
<1>7. NoLoadInItself'
  BY <1>2 DEF IInv, NoLoadInItself
<1>8. StackListed' /\ UnlistedUntouched' /\ RunsOnce'
  <2>1. runs[stack[Depth].path] = 0 /\ stack[Depth].path \in loaded
    BY <1>0, <1>4 DEF IInv, StackListed
  <2>2. UnlistedUntouched' /\ RunsOnce'
    BY <1>0, <1>3, <1>4, <1>5, <2>1 DEF IInv, UnlistedUntouched, RunsOnce
  <2>3. StackListed'
    <3> SUFFICES ASSUME NEW i \in 1..Depth
                 PROVE  /\ stack[i].path \in loaded
                        /\ done[stack[i].path] = "no"
                        /\ runs'[stack[i].path] = IF stack'[i].pc = "run" THEN 1 ELSE 0
      BY <1>2, <1>4 DEF StackListed
    <3>1. CASE i = Depth
      BY <1>2, <1>3, <1>4, <1>5, <2>1, <3>1 DEF IInv, StackListed
    <3>2. CASE i # Depth
      <4>1. stack[i].path # stack[Depth].path
        BY <1>0, <3>2 DEF IInv, NoLoadInItself
      <4> QED
        BY <1>2, <1>3, <1>4, <1>5, <3>2, <4>1 DEF IInv, StackListed
    <3> QED
      BY <3>1, <3>2
  <2> QED
    BY <2>2, <2>3
<1>9. ListedSettled'
  BY <1>2, <1>4 DEF IInv, ListedSettled
<1>10. UsesListed'
  BY <1>0, <1>2, <1>4 DEF IInv, UsesListed
<1>11. \A q \in Used(stack[Depth].path) : q \in loaded
  BY <1>0, <1>3, <1>4 DEF IInv, UsesListed, Used
<1>12. UsesBeforeRun'
  <2> SUFFICES ASSUME NEW i \in 1..Depth, stack'[i].pc = "run",
                      NEW q \in Used(stack[i].path)
               PROVE  done[q] # "no" \/ \E j \in 1..i : stack[j].path = q
    BY <1>2, <1>4 DEF UsesBeforeRun
  <2>1. CASE i = Depth
    BY <1>11, <2>1 DEF IInv, ListedSettled
  <2>2. CASE i # Depth
    BY <1>2, <2>2 DEF IInv, UsesBeforeRun
  <2> QED
    BY <2>1, <2>2
<1> QED
  BY <1>6, <1>7, <1>8, <1>9, <1>10, <1>12 DEF IInv

(* The caller's stack s, when it calls the loader: the stack with, perhaps, one more item
   gone through in its innermost frame, which is p, the path that is loaded now. *)
Calls(p, s) ==
  /\ s \in Seq(Loads)
  /\ Len(s) = Depth
  /\ \A i \in 1..Depth : s[i].path = stack[i].path /\ s[i].pc = stack[i].pc
  /\ \A i \in 1..Depth :
       \A k \in 1..s[i].i :
          \/ k \in 1..Len(Uses[s[i].path]) /\ Uses[s[i].path][k] \in loaded
          \/ /\ i = Depth /\ stack[i].pc = "semantic"
             /\ k \in 1..Len(Uses[s[i].path]) /\ Uses[s[i].path][k] = p
  /\ \A i \in 1..Depth : s[i].pc = "run" => s[i].i = Len(Uses[s[i].path])

(* A load that is answered at once keeps the invariant: it is listed, it cannot be read,
   or it describes a shared library. *)
LEMMA AnswerStep ==
  ASSUME IInv, NEW p \in Path, NEW s, Calls(p, s), stack' = s, runs' = runs,
         \/ loaded' = loaded /\ done' = done /\ ret' = "entry" /\ p \in loaded
         \/ loaded' = loaded /\ done' = done /\ ret' = "error"
         \/ /\ p \notin loaded /\ loaded' = loaded \cup {p}
            /\ done' = [done EXCEPT ![p] = "ok"] /\ ret' = "entry"
  PROVE  IInv'
<1>1. /\ Depth \in Nat /\ Depth' = Depth
      /\ stack' \in Seq(Loads)
      /\ \A i \in 1..Depth : stack'[i].path = stack[i].path /\ stack'[i].pc = stack[i].pc
  BY FrameTypes DEF Calls, Depth
<1>2. done \in [Path -> {"no", "ok", "failed"}] /\ runs \in [Path -> Nat] /\ loaded \subseteq Path
  BY DEF IInv, TypeOK
<1>3. /\ loaded \subseteq loaded'
      /\ \A q \in loaded : done'[q] = done[q]
      /\ \A q \in loaded' : q \in loaded \/ done'[q] # "no"
      /\ \A q \in Path \ loaded' : done'[q] = done[q]
      /\ loaded' \subseteq Path
      /\ \A q \in Path : done[q] # "no" => done'[q] # "no"
      /\ done' \in [Path -> {"no", "ok", "failed"}]
  BY <1>2
<1>4. TypeOK'
  BY <1>1, <1>2, <1>3 DEF TypeOK
<1>5. NoLoadInItself' /\ RunsOnce'
  BY <1>1 DEF IInv, NoLoadInItself, RunsOnce
<1>6. StackListed'
  BY <1>1, <1>3 DEF IInv, StackListed
<1>7. UnlistedUntouched'
  BY <1>2, <1>3 DEF IInv, UnlistedUntouched
<1>8. ListedSettled'
  BY <1>1, <1>3 DEF IInv, ListedSettled
<1>9. UsesListed'
  BY <1>1, <1>3 DEF Calls, UsesListed
<1>10. UsesBeforeRun'
  <2> SUFFICES ASSUME NEW i \in 1..Depth, stack[i].pc = "run", NEW q \in Used(stack[i].path)
               PROVE  done'[q] # "no" \/ \E j \in 1..i : stack[j].path = q
    BY <1>1 DEF UsesBeforeRun
  <2>1. q \in Path
    <3>1. stack[i].path \in Path
      BY FrameTypes DEF IInv, TypeOK, Depth
    <3> QED
      BY <3>1, PathAssumption DEF Used
  <2> QED
    BY <1>3, <2>1 DEF IInv, UsesBeforeRun
<1> QED
  BY <1>4, <1>5, <1>6, <1>7, <1>8, <1>9, <1>10 DEF IInv

(* A load that begins to analyse its module keeps the invariant. *)
LEMMA BeginStep ==
  ASSUME IInv, NEW p \in Path \ loaded, NEW s, Calls(p, s),
         stack' = Append(s, Load(p, "semantic", 0)),
         loaded' = loaded \cup {p}, ret' = "none", runs' = runs, done' = done
  PROVE  IInv'
<1>1. Load(p, "semantic", 0) \in Loads
  BY DEF Load, Loads
<1>2. /\ Depth \in Nat /\ Depth' = Depth + 1
      /\ stack' \in Seq(Loads)
      /\ \A i \in 1..Depth : stack'[i] = s[i]
      /\ stack'[Depth + 1] = Load(p, "semantic", 0)
  BY <1>1, FrameTypes DEF Calls, Depth
<1>3. /\ \A i \in 1..Depth : stack'[i].path = stack[i].path /\ stack'[i].pc = stack[i].pc
      /\ stack'[Depth'].path = p /\ stack'[Depth'].pc = "semantic" /\ stack'[Depth'].i = 0
  BY <1>2 DEF Calls, Load
<1>4. done \in [Path -> {"no", "ok", "failed"}] /\ runs \in [Path -> Nat] /\ loaded \subseteq Path
  BY DEF IInv, TypeOK
<1>5. runs[p] = 0 /\ done[p] = "no"
  BY DEF IInv, UnlistedUntouched
<1>6. TypeOK'
  BY <1>2, <1>4 DEF TypeOK
<1>7. /\ \A i \in 1..Depth : stack[i].path \in loaded /\ stack[i].path # p
      /\ \A i \in 1..Depth' : i \in 1..Depth \/ i = Depth'
      /\ \A i \in 1..Depth : i \in 1..Depth'
      /\ Depth' \in 1..Depth'
  BY <1>2 DEF IInv, StackListed
<1>8. NoLoadInItself' /\ StackListed'
  <2>1. NoLoadInItself'
    <3> SUFFICES ASSUME NEW i \in 1..Depth', NEW j \in 1..Depth', stack'[i].path = stack'[j].path
                 PROVE  i = j
      BY DEF NoLoadInItself
    <3>1. CASE i \in 1..Depth /\ j \in 1..Depth
      <4>1. stack[i].path = stack[j].path
        BY <1>3, <3>1
      <4> QED
        BY <3>1, <4>1 DEF IInv, NoLoadInItself
    <3>2. CASE i = Depth' \/ j = Depth'
      BY <1>3, <1>7, <3>2
    <3> QED
      BY <1>7, <3>1, <3>2
  <2>2. ASSUME NEW i \in 1..Depth'
        PROVE  /\ stack'[i].path \in loaded'
               /\ done'[stack'[i].path] = "no"
               /\ runs'[stack'[i].path] = IF stack'[i].pc = "run" THEN 1 ELSE 0
    <3>1. CASE i \in 1..Depth
      BY <1>3, <1>7, <3>1 DEF IInv, StackListed
    <3>2. CASE i = Depth'
      BY <1>3, <1>5, <3>2
    <3> QED
      BY <1>7, <3>1, <3>2
  <2> QED
    BY <2>1, <2>2 DEF StackListed
<1>9. UnlistedUntouched' /\ RunsOnce'
  BY DEF IInv, UnlistedUntouched, RunsOnce
<1>10. ListedSettled'
  <2> SUFFICES ASSUME NEW q \in loaded', done[q] = "no"
               PROVE  \E i \in 1..Depth' : stack'[i].path = q
    BY DEF ListedSettled
  <2>1. CASE q = p
    BY <1>3, <1>7, <2>1
  <2>2. CASE q \in loaded
    <3>1. PICK i \in 1..Depth : stack[i].path = q
      BY <2>2 DEF IInv, ListedSettled
    <3> QED
      BY <1>3, <1>7, <3>1
  <2> QED
    BY <2>1, <2>2
<1>11. UsesListed'
  BY <1>2, <1>3 DEF Calls, UsesListed
<1>12. UsesBeforeRun'
  <2> SUFFICES ASSUME NEW i \in 1..Depth', stack'[i].pc = "run", NEW q \in Used(stack'[i].path)
               PROVE  done[q] # "no" \/ \E j \in 1..i : stack'[j].path = q
    BY DEF UsesBeforeRun
  <2>1. i \in 1..Depth /\ stack'[i].path = stack[i].path /\ stack[i].pc = "run"
    BY <1>3, <1>7
  <2>2. done[q] # "no" \/ \E j \in 1..i : stack[j].path = q
    BY <2>1 DEF IInv, UsesBeforeRun
  <2>3. \A j \in 1..i : j \in 1..Depth
    BY <1>2, <2>1
  <2> QED
    BY <1>3, <2>2, <2>3
<1> QED
  BY <1>6, <1>8, <1>9, <1>10, <1>11, <1>12 DEF IInv

(* Every call of the loader keeps the invariant. *)
LEMMA CallStep ==
  ASSUME IInv, NEW p \in Path, NEW s, Calls(p, s), Call(p, s)
  PROVE  IInv'
  BY AnswerStep, BeginStep DEF Call, Listed

(* Every action keeps the invariant. *)
LEMMA InvariantStep == IInv /\ [Next]_vars => IInv'
<1> SUFFICES ASSUME IInv, [Next]_vars PROVE IInv'
  OBVIOUS
<1>0. /\ stack \in Seq(Loads) /\ Depth \in Nat
      /\ \A i \in 1..Depth : stack[i] \in Loads /\ stack[i].path \in Path /\ stack[i].i \in Nat
  BY FrameTypes DEF IInv, TypeOK, Depth
<1>1. CASE MainLoad
  <2>1. Calls(Main, stack) /\ Call(Main, stack) /\ Main \in Path
    BY <1>0, <1>1, PathAssumption DEF MainLoad, Calls, Depth
  <2> QED
    BY <2>1, CallStep
<1>2. CASE Using
  <2> DEFINE f == Load(Top.path, "semantic", Top.i + 1)
             s == [stack EXCEPT ![Depth] = f]
  <2>1. /\ stack # <<>> /\ Depth \in 1..Depth
        /\ stack[Depth].pc = "semantic" /\ ret # "error"
        /\ Top.i + 1 \in 1..Len(Uses[Top.path])
        /\ Call(Uses[Top.path][Top.i + 1], s)
    <3>1. stack # <<>> /\ stack[Depth].pc = "semantic" /\ ret # "error"
      BY <1>2 DEF Using, At, Top
    <3>2. Depth \in 1..Depth
      BY <1>0, <3>1 DEF Depth
    <3>3. Top.i \in Nat /\ Len(Uses[Top.path]) \in Nat
      BY <1>0, <3>2, PathAssumption DEF Top
    <3>4. Top.i < Len(Uses[Top.path]) /\ Call(Uses[Top.path][Top.i + 1], s)
      BY <1>2 DEF Using
    <3> QED
      BY <3>1, <3>2, <3>3, <3>4
  <2>2. Uses[Top.path][Top.i + 1] \in Path
    BY <1>0, <2>1, PathAssumption DEF Top
  <2>3. f \in Loads /\ f.path = Top.path /\ f.pc = "semantic" /\ f.i = Top.i + 1
    BY <1>0, <2>1 DEF Loads, Load, Top
  <2> HIDE DEF f
  <2>4. /\ s \in Seq(Loads) /\ Len(s) = Depth
        /\ \A i \in 1..Depth : s[i] = IF i = Depth THEN f ELSE stack[i]
    BY <1>0, <2>1, <2>3, ReplaceFacts DEF Depth
  <2> HIDE DEF s
  <2>5. \A i \in 1..Depth : s[i].path = stack[i].path /\ s[i].pc = stack[i].pc
    BY <2>1, <2>3, <2>4 DEF Top
  <2>6. \A i \in 1..Depth : s[i].pc = "run" => s[i].i = Len(Uses[s[i].path])
    BY <2>1, <2>3, <2>4, <2>5 DEF IInv, UsesListed
  <2>7. ASSUME NEW i \in 1..Depth, NEW k \in 1..s[i].i
        PROVE  \/ k \in 1..Len(Uses[s[i].path]) /\ Uses[s[i].path][k] \in loaded
               \/ /\ i = Depth /\ stack[i].pc = "semantic"
                  /\ k \in 1..Len(Uses[s[i].path])
                  /\ Uses[s[i].path][k] = Uses[Top.path][Top.i + 1]
    <3>1. CASE i = Depth /\ k = Top.i + 1
      BY <2>1, <2>3, <2>4, <3>1
    <3>2. CASE ~(i = Depth /\ k = Top.i + 1)
      <4>1. k \in 1..stack[i].i /\ s[i].path = stack[i].path
        BY <1>0, <2>1, <2>3, <2>4, <2>5, <3>2 DEF Top
      <4> QED
        BY <2>1, <4>1 DEF IInv, UsesListed
    <3> QED
      BY <3>1, <3>2
  <2>8. Calls(Uses[Top.path][Top.i + 1], s)
    BY <2>4, <2>5, <2>6, <2>7 DEF Calls
  <2> QED
    BY <2>1, <2>2, <2>8, CallStep
<1>3. CASE SemanticFails
  BY <1>3, ReturnStep DEF SemanticFails, At
<1>4. CASE SemanticEnd
  BY <1>4, SemanticEndStep
<1>5. CASE Lookup
  <2>1. PICK m \in loaded \cap Reachable[Top.path] : \E p \in Used(m) : Call(p, stack)
    BY <1>5 DEF Lookup
  <2>2. PICK p \in Used(m) : Call(p, stack)
    BY <2>1
  <2>3. p \in Path
    BY PathAssumption DEF IInv, TypeOK, Used
  <2>4. Depth \in 1..Depth /\ stack[Depth].pc = "run"
    BY <1>0, <1>5 DEF Lookup, At, Top, Depth
  <2>5. Calls(p, stack)
    BY <1>0, <2>4 DEF IInv, UsesListed, Calls, Depth
  <2> QED
    BY <2>2, <2>3, <2>5, CallStep
<1>6. CASE RunFails
  BY <1>6, ReturnStep DEF RunFails, At
<1>7. CASE RunEnd
  BY <1>7, ReturnStep DEF RunEnd, At
<1>8. CASE Exited \/ UNCHANGED vars
  <2>1. /\ loaded' = loaded /\ stack' = stack /\ ret' = ret /\ runs' = runs /\ done' = done
        /\ Depth' = Depth
    BY <1>8 DEF Exited, vars, Depth
  <2>2. TypeOK' /\ NoLoadInItself' /\ StackListed' /\ UnlistedUntouched' /\ RunsOnce'
    BY <2>1 DEF IInv, TypeOK, NoLoadInItself, StackListed, UnlistedUntouched, RunsOnce
  <2>3. ListedSettled' /\ UsesListed' /\ UsesBeforeRun'
    BY <2>1 DEF IInv, ListedSettled, UsesListed, UsesBeforeRun
  <2> QED
    BY <2>2, <2>3 DEF IInv
<1> QED
  BY <1>1, <1>2, <1>3, <1>4, <1>5, <1>6, <1>7, <1>8 DEF Next

LEMMA InvariantInit == Init => IInv
  BY PathAssumption
     DEF Init, IInv, TypeOK, NoLoadInItself, StackListed, UnlistedUntouched, RunsOnce,
         ListedSettled, UsesListed, UsesBeforeRun, Depth

(* The variables keep their types. *)
THEOREM TypeCorrect == Spec => []TypeOK
  BY InvariantInit, InvariantStep, PTL DEF Spec, IInv

(* A file is executed at most once, in whatever circles files use each other. *)
THEOREM OneRun == Spec => []RunsOnce
  BY InvariantInit, InvariantStep, PTL DEF Spec, IInv

(* A file is never loaded inside its own load. *)
THEOREM LoadsNest == Spec => []NoLoadInItself
  BY InvariantInit, InvariantStep, PTL DEF Spec, IInv

(* A module runs after the modules it uses, circles excepted. *)
THEOREM UsesFirst == Spec => []UsesBeforeRun
  BY InvariantInit, InvariantStep, PTL DEF Spec, IInv
=============================================================================
