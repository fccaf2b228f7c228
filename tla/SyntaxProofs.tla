---------------------------- MODULE SyntaxProofs ----------------------------
(***************************************************************************)
(* Theorems about the parser (Syntax), for every text:                     *)
(*                                                                         *)
(*   TypeSafe            its types                                         *)
(*   BodiesAreCounted    the depths are the bodies being parsed            *)
(*   ErrorsAreHeard      an accepted module has no other error than one    *)
(*                       behind a "<" or in a package                      *)
(*   AcceptedIsBalanced  without an error, nothing is left saved or open   *)
(*   LeavesStandInOrder  the leaves stand in the order of the source       *)
(*                                                                         *)
(* The steps still to take, todo, stand for the calls on the parser's      *)
(* stack.  The grammar is typed: of every list of steps it is shown how    *)
(* many saved states it owes (it will release or restore) and that every   *)
(* body it enters it leaves (Flow, Sound), one rule after another.  While  *)
(* a module is parsed, todo is a course of such steps, and what is saved   *)
(* and counted is what the course owes and has open (Standing).  That is   *)
(* inductive: a step is replaced by steps that owe as much (TurnedTo), an  *)
(* error drops steps (Restored, Swallowed), a restore brings back the      *)
(* depths that belong to where the parser goes on.                         *)
(*                                                                         *)
(* That the leaves stay in order rests on which steps follow a save: the   *)
(* few lists of them (Window) read on, and make leaves only behind the     *)
(* saved place, until the state is given back, and whoever goes on after   *)
(* an error keeps only leaves made before the place it goes on from        *)
(* (OnTheWay, LInv).                                                       *)
(***************************************************************************)
EXTENDS Syntax, FiniteSetTheorems, SequenceTheorems, WellFoundedInduction, TLAPS
-----------------------------------------------------------------------------
\* What the source must have in it for an error to go unheard.
Words == {"<", "using"}
Depths == {"loop", "fun"}
Rules == DOMAIN Grammar
\* The rules that reach a package need its word, which only module looks for.
Needs(r) == IF r \in {"using", "packages", "package"} THEN {"using"} ELSE {}

\* What a step adds to the bodies that are open behind it.
Turn(s, d) == IF s.op = "leave" /\ s.in = d THEN 1
              ELSE IF s.op = "enter" /\ s.in = d THEN -1 ELSE 0

\* Before each step of q, and at its end: the states that are owed, and the
\* bodies that are open.
Course(S, q, owed, open, g) ==
  /\ \E T : q \in Seq(T)
  /\ owed \in [1..Len(q) + 1 -> Nat]
  /\ open \in [Depths -> [1..Len(q) + 1 -> Nat]]
  /\ \A i \in 1..Len(q) :
       /\ owed[i] = owed[i + 1] \/ owed[i] = owed[i + 1] + 1
       /\ \E h \in SUBSET g : <<q[i], owed[i] - owed[i + 1], h>> \in S
       /\ \A d \in Depths : open[d][i] = open[d][i + 1] + Turn(q[i], d)

\* A course that owes n states, leaves no body open, and gives a state back only
\* where none of its own bodies is open.  Its steps are among S, and none of
\* them is one that only the machine makes, or one that saves.
Flow(S, q, n, g) ==
  \E owed, open :
    /\ Course(S, q, owed, open, g)
    /\ owed[1] = n /\ owed[Len(q) + 1] = 0
    /\ \A d \in Depths : open[d][1] = 0 /\ open[d][Len(q) + 1] = 0
    /\ \A i \in 1..Len(q) :
         /\ q[i].op \notin {"save", "closing", "unchecked"}
         /\ owed[i] # owed[i + 1] => \A d \in Depths : open[d][i] = 0

\* The two lists that save a state: the attempt at generic arguments behind a
\* "<", and the names in the header of a for.
Angle  == <<Save, Skip, Cut, Option(">", <<Fail>>), Concepts>>
Name2  == <<Skip, Rule("id")>> \o for_in(2)
More   == Branch("," :> Name2, for_in(1))
Name1  == <<Match({"var"}), Rule("id"), More>>
NoName == <<Release, Rule("region_for_loop")>>
Tried  == Branch("var" :> Name1, NoName)
Header == <<Save, Tried>>

\* A course that saves a state first, and gives it back.
Saving(S, q, n, g) ==
  n = 0 /\ q \in {Angle, Header} /\ \E r : q = <<Save>> \o r /\ Flow(S, r, 1, g)

Arm(S, q, n, g) == Flow(S, q, n, g) \/ Saving(S, q, n, g)

\* A step that owes n states behind the words g: what it may turn into, on every
\* token, owes as many.
Sound(S, s, n, g) ==
  /\ g \in SUBSET Words
  /\ \/ s.op = "match" /\ n = 0 /\ (s.leaf => "EOF" \notin s.on)
     \/ s.op \in {"next", "gt", "fail"} /\ n = 0
     \/ s.op \in {"enter", "leave"} /\ s.in \in Depths /\ n = 0
     \/ s.op = "release" /\ n = 1
     \/ s.op = "restore" /\ n = 1 /\ s.drop \in Nat
     \/ s.op = "concepts" /\ n = 1 /\ "<" \in g
     \/ s.op = "closing" /\ n = 1 /\ "<" \in g /\ s.keep \in Nat
     \/ s.op = "unchecked" /\ n = 0 /\ "using" \in g /\ s.keep \in Nat
     \/ s.op = "careless" /\ n = 0 /\ "using" \in g /\ s.rule \in Rules /\ Needs(s.rule) \subseteq g
     \/ s.op \in {"rule", "chain"} /\ n = 0 /\ s.rule \in Rules /\ Needs(s.rule) \subseteq g
     \/ /\ s.op = "branch" /\ n \in {0, 1}
        /\ \A t \in DOMAIN s.arms : Arm(S, s.arms[t], n, g \union ({t} \intersect Words))
        /\ Arm(S, s.other, n, g)
     \/ s.op \in {"repeat", "until"} /\ n = 0 /\ Flow(S, s.steps, 0, g)
     \/ s.op = "within" /\ n = 0 /\ Flow(S, s.steps, 0, g) /\ Flow(S, s.other, 0, g)

\* A set of steps in which each is sound: the typing of the grammar.
Closed(S) == \A x \in S : x = <<x[1], x[2], x[3]>> /\ Sound(S, x[1], x[2], x[3])
-----------------------------------------------------------------------------
\* A course stays one among more steps, behind more words.
LEMMA MoreFlows ==
  ASSUME NEW S, NEW T, S \subseteq T, NEW q, NEW n, NEW g, NEW h, g \subseteq h
  PROVE  /\ Flow(S, q, n, g) => Flow(T, q, n, h)
         /\ Arm(S, q, n, g) => Arm(T, q, n, h)
<1>1. ASSUME NEW r, NEW m, Flow(S, r, m, g)
      PROVE  Flow(T, r, m, h)
  <2>1. PICK owed, open :
          /\ Course(S, r, owed, open, g)
          /\ owed[1] = m /\ owed[Len(r) + 1] = 0
          /\ \A d \in Depths : open[d][1] = 0 /\ open[d][Len(r) + 1] = 0
          /\ \A i \in 1..Len(r) :
               /\ r[i].op \notin {"save", "closing", "unchecked"}
               /\ owed[i] # owed[i + 1] => \A d \in Depths : open[d][i] = 0
    BY <1>1 DEF Flow
  <2>2. Course(T, r, owed, open, h)
    <3>1. ASSUME NEW i \in 1..Len(r)
          PROVE  \E k \in SUBSET h : <<r[i], owed[i] - owed[i + 1], k>> \in T
      BY <2>1 DEF Course
    <3> QED
      BY <2>1, <3>1 DEF Course
  <2> QED
    BY <2>1, <2>2 DEF Flow
<1> QED
  BY <1>1 DEF Arm, Saving

\* So does a sound step.
LEMMA MoreSound ==
  ASSUME NEW S, NEW T, S \subseteq T, NEW s, NEW n, NEW g, Sound(S, s, n, g)
  PROVE  Sound(T, s, n, g)
<1>1. \A q, m, h : (Flow(S, q, m, h) => Flow(T, q, m, h)) /\ (Arm(S, q, m, h) => Arm(T, q, m, h))
  BY MoreFlows
<1> QED
  BY <1>1 DEF Sound

\* Sets of sound steps are joined,
LEMMA UnionIsClosed ==
  ASSUME NEW X, \A S \in X : Closed(S)
  PROVE  Closed(UNION X)
<1> SUFFICES ASSUME NEW S \in X, NEW x \in S
             PROVE  x = <<x[1], x[2], x[3]>> /\ Sound(UNION X, x[1], x[2], x[3])
  BY DEF Closed
<1>1. x = <<x[1], x[2], x[3]>> /\ Sound(S, x[1], x[2], x[3])
  BY DEF Closed
<1>2. S \subseteq UNION X
  OBVIOUS
<1> QED
  BY <1>1, <1>2, MoreSound

\* and are extended by a step that is sound already.
LEMMA OneMoreIsClosed ==
  ASSUME NEW S, Closed(S), NEW s, NEW n, NEW g, Sound(S, s, n, g)
  PROVE  Closed(S \union {<<s, n, g>>})
<1> DEFINE T == S \union {<<s, n, g>>}
<1>1. S \subseteq T
  OBVIOUS
<1>2. ASSUME NEW x \in T
      PROVE  x = <<x[1], x[2], x[3]>> /\ Sound(T, x[1], x[2], x[3])
  <2>1. CASE x \in S
    <3>1. x = <<x[1], x[2], x[3]>> /\ Sound(S, x[1], x[2], x[3])
      BY <2>1 DEF Closed
    <3> QED
      BY <1>1, <3>1, MoreSound
  <2>2. CASE x = <<s, n, g>>
    <3>1. x[1] = s /\ x[2] = n /\ x[3] = g
      BY <2>2
    <3> QED
      BY <1>1, <2>2, <3>1, MoreSound
  <2> QED
    BY <2>1, <2>2
<1> QED
  BY <1>2 DEF Closed
-----------------------------------------------------------------------------
\* A list of steps or a step is well typed if it is so in some set of sound steps.
Flows(q, n, g) == \E S : Closed(S) /\ Flow(S, q, n, g)
Turns(q, n, g) == \E S : Closed(S) /\ Arm(S, q, n, g)
Fits(s, n, g)  == \E S : Closed(S) /\ <<s, n, g>> \in S
\* A step that owes nothing and turns nothing.
Plain(s) == Fits(s, 0, {}) /\ s.op \notin {"save", "closing", "unchecked", "enter", "leave"}

\* A sound step is well typed.
LEMMA Fitting ==
  ASSUME NEW S, Closed(S), NEW s, NEW n, NEW g, Sound(S, s, n, g)
  PROVE  Fits(s, n, g)
<1>1. <<s, n, g>> \in S \union {<<s, n, g>>}
  OBVIOUS
<1> QED
  BY <1>1, OneMoreIsClosed DEF Fits

\* The empty set is where the typing starts.
LEMMA NothingIsClosed == Closed({})
BY DEF Closed

\* The empty list owes nothing.
LEMMA EmptyFlows == ASSUME NEW g PROVE Flows(<<>>, 0, g)
<1> DEFINE owed == [i \in 1..1 |-> 0]
           open == [d \in Depths |-> [i \in 1..1 |-> 0]]
<1>1. <<>> \in Seq({}) /\ Len(<<>>) = 0 /\ 1..0 = {} /\ 0 + 1 = 1
  OBVIOUS
<1>2. Course({}, <<>>, owed, open, g)
  BY <1>1 DEF Course
<1>3. Flow({}, <<>>, 0, g)
  BY <1>1, <1>2 DEF Flow
<1> QED
  BY <1>3, NothingIsClosed DEF Flows

\* A list of one step owes what the step does.
LEMMA OneFlows ==
  ASSUME NEW s, NEW n \in {0, 1}, NEW g, NEW h, h \subseteq g, Fits(s, n, h),
         s.op \notin {"save", "closing", "unchecked", "enter", "leave"}
  PROVE  Flows(<<s>>, n, g)
<1> DEFINE owed == [i \in 1..2 |-> IF i = 1 THEN n ELSE 0]
           open == [d \in Depths |-> [i \in 1..2 |-> 0]]
<1>1. PICK S : Closed(S) /\ <<s, n, h>> \in S
  BY DEF Fits
<1>2. <<s>> \in Seq({s}) /\ Len(<<s>>) = 1 /\ <<s>>[1] = s /\ 1 + 1 = 2
  OBVIOUS
<1>3. owed \in [1..2 -> Nat] /\ owed[1] = n /\ owed[2] = 0
  OBVIOUS
<1>4. open \in [Depths -> [1..2 -> Nat]] /\ \A d \in Depths : open[d][1] = 0 /\ open[d][2] = 0
  OBVIOUS
<1>5. \A d \in Depths : Turn(s, d) = 0
  BY DEF Turn
<1>6. n - 0 = n /\ (n = 0 \/ n = 0 + 1) /\ 0 + 0 = 0
  OBVIOUS
<1> HIDE DEF owed, open
<1>7. \A i \in 1..1 : i = 1
  OBVIOUS
<1>8. Course(S, <<s>>, owed, open, g)
  BY <1>1, <1>2, <1>3, <1>4, <1>5, <1>6, <1>7 DEF Course
<1>9. Flow(S, <<s>>, n, g)
  BY <1>2, <1>3, <1>4, <1>7, <1>8 DEF Flow
<1> QED
  BY <1>1, <1>9 DEF Flows

\* The elements of two lists, one behind the other.
LEMMA Joined ==
  ASSUME NEW p, NEW q, \E T : p \in Seq(T), \E T : q \in Seq(T)
  PROVE  /\ \E T : p \o q \in Seq(T)
         /\ Len(p) \in Nat /\ Len(q) \in Nat /\ Len(p \o q) = Len(p) + Len(q)
         /\ \A i \in 1..Len(p) : (p \o q)[i] = p[i]
         /\ \A i \in 1..Len(q) : (p \o q)[Len(p) + i] = q[i]
<1>1. PICK T1 : p \in Seq(T1)
  OBVIOUS
<1>2. PICK T2 : q \in Seq(T2)
  OBVIOUS
<1>3. p \in Seq(T1 \union T2) /\ q \in Seq(T1 \union T2)
  BY <1>1, <1>2
<1> QED
  BY <1>3

\* The end of a course that leaves nothing behind, and the course of p, then q.
Even(p, o1, b1) == o1[Len(p) + 1] = 0 /\ \A d \in Depths : b1[d][Len(p) + 1] = 0
Behind(p, q, o1, b1, o2, b2, owed, open) ==
  /\ \A i \in 1..Len(p) + 1 :
       owed[i] = o1[i] + o2[1] /\ \A d \in Depths : open[d][i] = b1[d][i] + b2[d][1]
  /\ \A i \in 1..Len(q) + 1 :
       owed[Len(p) + i] = o2[i] /\ \A d \in Depths : open[d][Len(p) + i] = b2[d][i]

\* Two courses are joined where the first leaves nothing behind.
LEMMA Joining ==
  ASSUME NEW S, NEW g, NEW p, NEW q, NEW o1, NEW b1, NEW o2, NEW b2,
         Course(S, p, o1, b1, g), Course(S, q, o2, b2, g), Even(p, o1, b1)
  PROVE  \E owed, open : /\ Course(S, p \o q, owed, open, g)
                         /\ Behind(p, q, o1, b1, o2, b2, owed, open)
<1> DEFINE r == p \o q
           k == Len(p)
           j == Len(q)
<1>1. /\ \E T : r \in Seq(T)
      /\ k \in Nat /\ j \in Nat /\ Len(r) = k + j
      /\ \A i \in 1..k : r[i] = p[i]
      /\ \A i \in 1..j : r[k + i] = q[i]
  BY Joined DEF Course
<1>2. /\ o1 \in [1..k + 1 -> Nat] /\ b1 \in [Depths -> [1..k + 1 -> Nat]]
      /\ o2 \in [1..j + 1 -> Nat] /\ b2 \in [Depths -> [1..j + 1 -> Nat]]
      /\ o1[k + 1] = 0 /\ \A d \in Depths : b1[d][k + 1] = 0
  BY DEF Course, Even
<1> DEFINE owed == [i \in 1..k + j + 1 |-> IF i <= k THEN o1[i] + o2[1] ELSE o2[i - k]]
           open == [d \in Depths |-> [i \in 1..k + j + 1 |->
                      IF i <= k THEN b1[d][i] + b2[d][1] ELSE b2[d][i - k]]]
<1> HIDE DEF r, k, j
<1>3. 1 \in 1..j + 1 /\ o2[1] \in Nat /\ \A d \in Depths : b2[d][1] \in Nat
  BY <1>1, <1>2
<1>4. \A i \in 1..k + j + 1 : owed[i] \in Nat /\ \A d \in Depths : open[d][i] \in Nat
  <2> SUFFICES ASSUME NEW i \in 1..k + j + 1
               PROVE  owed[i] \in Nat /\ \A d \in Depths : open[d][i] \in Nat
    OBVIOUS
  <2>1. CASE i <= k
    <3>1. i \in 1..k + 1
      BY <1>1, <2>1
    <3>2. o1[i] \in Nat /\ \A d \in Depths : b1[d][i] \in Nat
      BY <1>2, <3>1
    <3>3. owed[i] = o1[i] + o2[1] /\ \A d \in Depths : open[d][i] = b1[d][i] + b2[d][1]
      BY <2>1
    <3> HIDE DEF owed, open
    <3> QED
      BY <1>3, <3>2, <3>3
  <2>2. CASE ~(i <= k)
    <3>1. i - k \in 1..j + 1
      BY <1>1, <2>2
    <3>2. o2[i - k] \in Nat /\ \A d \in Depths : b2[d][i - k] \in Nat
      BY <1>2, <3>1
    <3>3. owed[i] = o2[i - k] /\ \A d \in Depths : open[d][i] = b2[d][i - k]
      BY <2>2
    <3> HIDE DEF owed, open
    <3> QED
      BY <3>2, <3>3
  <2> QED
    BY <2>1, <2>2
<1>5. ASSUME NEW i \in 1..j + 1
      PROVE  owed[k + i] = o2[i] /\ \A d \in Depths : open[d][k + i] = b2[d][i]
  <2> DEFINE x == k + i
  <2>1. x \in 1..k + j + 1 /\ ~(x <= k) /\ x - k = i
    BY <1>1
  <2> HIDE DEF x
  <2>2. owed[x] = o2[x - k] /\ \A d \in Depths : open[d][x] = b2[d][x - k]
    BY <2>1
  <2> HIDE DEF owed, open
  <2> QED
    BY <2>1, <2>2 DEF x
<1>6. ASSUME NEW i \in 1..k + 1
      PROVE  owed[i] = o1[i] + o2[1] /\ \A d \in Depths : open[d][i] = b1[d][i] + b2[d][1]
  <2>1. CASE i <= k
    <3>1. i \in 1..k + j + 1
      BY <1>1
    <3> QED
      BY <2>1, <3>1
  <2>2. CASE ~(i <= k)
    <3>1. i = k + 1
      BY <1>1, <2>2
    <3>2. owed[k + 1] = o2[1] /\ \A d \in Depths : open[d][k + 1] = b2[d][1]
      BY <1>3, <1>5
    <3> QED
      BY <1>2, <1>3, <3>1, <3>2
  <2> QED
    BY <2>1, <2>2
<1>7. owed \in [1..k + j + 1 -> Nat] /\ open \in [Depths -> [1..k + j + 1 -> Nat]]
  BY <1>4
<1> HIDE DEF owed, open
<1>8. ASSUME NEW i \in 1..k + j
      PROVE  /\ owed[i] = owed[i + 1] \/ owed[i] = owed[i + 1] + 1
             /\ \E h \in SUBSET g : <<r[i], owed[i] - owed[i + 1], h>> \in S
             /\ \A d \in Depths : open[d][i] = open[d][i + 1] + Turn(r[i], d)
  <2>1. CASE i \in 1..k
    <3>1. i \in 1..k + 1 /\ i + 1 \in 1..k + 1
      BY <1>1, <2>1
    <3>2. r[i] = p[i]
      BY <1>1, <2>1
    <3>3. owed[i] = o1[i] + o2[1] /\ owed[i + 1] = o1[i + 1] + o2[1]
      BY <1>6, <3>1
    <3>4. o1[i] \in Nat /\ o1[i + 1] \in Nat
      BY <1>2, <3>1
    <3>5. owed[i] - owed[i + 1] = o1[i] - o1[i + 1]
      BY <1>3, <3>3, <3>4
    <3>6. /\ o1[i] = o1[i + 1] \/ o1[i] = o1[i + 1] + 1
          /\ \E h \in SUBSET g : <<p[i], o1[i] - o1[i + 1], h>> \in S
          /\ \A d \in Depths : b1[d][i] = b1[d][i + 1] + Turn(p[i], d)
      BY <2>1 DEF Course, k
    <3>7. \A d \in Depths : open[d][i] = open[d][i + 1] + Turn(r[i], d)
      <4> SUFFICES ASSUME NEW d \in Depths
                   PROVE  open[d][i] = open[d][i + 1] + Turn(r[i], d)
        OBVIOUS
      <4>1. b1[d][i] \in Nat /\ b1[d][i + 1] \in Nat /\ b2[d][1] \in Nat
        BY <1>2, <1>3, <3>1
      <4>2. open[d][i] = b1[d][i] + b2[d][1] /\ open[d][i + 1] = b1[d][i + 1] + b2[d][1]
        BY <1>6, <3>1
      <4>3. Turn(r[i], d) \in Int
        BY DEF Turn
      <4> QED
        BY <3>2, <3>6, <4>1, <4>2, <4>3
    <3>8. owed[i] = owed[i + 1] \/ owed[i] = owed[i + 1] + 1
      <4>1. o1[i] = o1[i + 1] \/ o1[i] = o1[i + 1] + 1
        BY <3>6
      <4> QED
        BY ONLY <1>3, <3>3, <3>4, <4>1
    <3> QED
      BY <3>2, <3>5, <3>6, <3>7, <3>8
  <2>2. CASE i \notin 1..k
    <3> DEFINE e == i - k
    <3>1. e \in 1..j /\ e \in 1..j + 1 /\ e + 1 \in 1..j + 1 /\ i = k + e /\ i + 1 = k + (e + 1)
      BY <1>1, <2>2
    <3> HIDE DEF e
    <3>2. r[k + e] = q[e]
      BY <1>1, <3>1
    <3>3. owed[k + e] = o2[e] /\ \A d \in Depths : open[d][k + e] = b2[d][e]
      BY <1>5, <3>1
    <3>4. owed[k + (e + 1)] = o2[e + 1] /\ \A d \in Depths : open[d][k + (e + 1)] = b2[d][e + 1]
      BY <1>5, <3>1
    <3>5. /\ o2[e] = o2[e + 1] \/ o2[e] = o2[e + 1] + 1
          /\ \E h \in SUBSET g : <<q[e], o2[e] - o2[e + 1], h>> \in S
          /\ \A d \in Depths : b2[d][e] = b2[d][e + 1] + Turn(q[e], d)
      BY <3>1 DEF Course, j
    <3> QED
      BY <3>1, <3>2, <3>3, <3>4, <3>5
  <2> QED
    BY <2>1, <2>2
<1>9. Course(S, r, owed, open, g)
  BY <1>1, <1>7, <1>8 DEF Course
<1>10. Behind(p, q, o1, b1, o2, b2, owed, open)
  BY <1>5, <1>6 DEF Behind, k, j
<1> QED
  BY <1>9, <1>10 DEF r

\* Two well typed lists are joined if at most one of them owes a state.
LEMMA TwoFlow ==
  ASSUME NEW p, NEW q, NEW m \in {0, 1}, NEW n \in {0, 1}, NEW g,
         Flows(p, m, g), Flows(q, n, g)
  PROVE  m + n \in {0, 1} => Flows(p \o q, m + n, g)
<1>1. PICK S1 : Closed(S1) /\ Flow(S1, p, m, g)
  BY DEF Flows
<1>2. PICK S2 : Closed(S2) /\ Flow(S2, q, n, g)
  BY DEF Flows
<1> DEFINE S == S1 \union S2
<1>3. Closed(S)
  <2>1. Closed(UNION {S1, S2})
    BY <1>1, <1>2, UnionIsClosed
  <2>2. UNION {S1, S2} = S
    OBVIOUS
  <2> QED
    BY <2>1, <2>2
<1>4. Flow(S, p, m, g) /\ Flow(S, q, n, g)
  <2>1. S1 \subseteq S /\ S2 \subseteq S /\ g \subseteq g
    OBVIOUS
  <2> HIDE DEF S
  <2> QED
    BY <1>1, <1>2, <2>1, MoreFlows
<1> HIDE DEF S
<1>5. PICK o1, b1 :
        /\ Course(S, p, o1, b1, g)
        /\ o1[1] = m /\ o1[Len(p) + 1] = 0
        /\ \A d \in Depths : b1[d][1] = 0 /\ b1[d][Len(p) + 1] = 0
        /\ \A i \in 1..Len(p) :
             /\ p[i].op \notin {"save", "closing", "unchecked"}
             /\ o1[i] # o1[i + 1] => \A d \in Depths : b1[d][i] = 0
  BY <1>4 DEF Flow
<1>6. PICK o2, b2 :
        /\ Course(S, q, o2, b2, g)
        /\ o2[1] = n /\ o2[Len(q) + 1] = 0
        /\ \A d \in Depths : b2[d][1] = 0 /\ b2[d][Len(q) + 1] = 0
        /\ \A i \in 1..Len(q) :
             /\ q[i].op \notin {"save", "closing", "unchecked"}
             /\ o2[i] # o2[i + 1] => \A d \in Depths : b2[d][i] = 0
  BY <1>4 DEF Flow
<1> DEFINE r == p \o q
           k == Len(p)
           j == Len(q)
<1>7. /\ k \in Nat /\ j \in Nat /\ Len(r) = k + j
      /\ \A i \in 1..k : r[i] = p[i]
      /\ \A i \in 1..j : r[k + i] = q[i]
  BY <1>5, <1>6, Joined DEF Course
<1>8. PICK owed, open :
        Course(S, r, owed, open, g) /\ Behind(p, q, o1, b1, o2, b2, owed, open)
  <2>1. Even(p, o1, b1)
    BY <1>5 DEF Even
  <2> QED
    BY <1>5, <1>6, <2>1, Joining
<1>9. /\ \A i \in 1..k + 1 :
           owed[i] = o1[i] + o2[1] /\ \A d \in Depths : open[d][i] = b1[d][i] + b2[d][1]
      /\ \A i \in 1..j + 1 :
           owed[k + i] = o2[i] /\ \A d \in Depths : open[d][k + i] = b2[d][i]
  BY <1>8 DEF Behind
<1>10. /\ \A i \in 1..k + 1 : o1[i] \in Nat /\ \A d \in Depths : b1[d][i] \in Nat
       /\ \A i \in 1..j + 1 : o2[i] \in Nat /\ \A d \in Depths : b2[d][i] \in Nat
  BY <1>5, <1>6 DEF Course
<1> HIDE DEF r, k, j
<1>11. 1 \in 1..k + 1 /\ 1 \in 1..j + 1 /\ j + 1 \in 1..j + 1 /\ k + (j + 1) = Len(r) + 1
  BY <1>7
<1>12. owed[1] = m + n /\ owed[Len(r) + 1] = 0
  BY <1>5, <1>6, <1>9, <1>11 DEF k, j
<1>13. ASSUME NEW d \in Depths
       PROVE  open[d][1] = 0 /\ open[d][Len(r) + 1] = 0
  BY <1>5, <1>6, <1>9, <1>11 DEF k, j
<1>14. ASSUME NEW i \in 1..Len(r)
       PROVE  /\ r[i].op \notin {"save", "closing", "unchecked"}
              /\ owed[i] # owed[i + 1] => \A d \in Depths : open[d][i] = 0
  <2>1. CASE i \in 1..k
    <3>1. i \in 1..k + 1 /\ i + 1 \in 1..k + 1 /\ r[i] = p[i]
      BY <1>7, <2>1
    <3>2. owed[i] = o1[i] + n /\ owed[i + 1] = o1[i + 1] + n
      BY <1>6, <1>9, <3>1
    <3>3. owed[i] # owed[i + 1] => o1[i] # o1[i + 1]
      BY <3>2
    <3>4. \A d \in Depths : open[d][i] = b1[d][i] + 0
      BY <1>6, <1>9, <3>1
    <3> QED
      BY <1>5, <2>1, <3>1, <3>3, <3>4 DEF k
  <2>2. CASE i \notin 1..k
    <3> DEFINE e == i - k
    <3>1. e \in 1..j /\ e \in 1..j + 1 /\ e + 1 \in 1..j + 1 /\ i = k + e /\ i + 1 = k + (e + 1)
      BY <1>7, <2>2
    <3> HIDE DEF e
    <3>2. r[i] = q[e] /\ owed[i] = o2[e] /\ owed[i + 1] = o2[e + 1]
      BY <1>7, <1>9, <3>1
    <3>3. \A d \in Depths : open[d][i] = b2[d][e]
      BY <1>9, <3>1
    <3> QED
      BY <1>6, <3>1, <3>2, <3>3 DEF j
  <2> QED
    BY <2>1, <2>2
<1>15. Flow(S, r, m + n, g)
  BY <1>8, <1>12, <1>13, <1>14 DEF Flow
<1> QED
  BY <1>3, <1>15 DEF Flows, r

\* A sequence of steps that open no body and owe no state.
Straight(q) == (\E T : q \in Seq(T)) /\ \A i \in 1..Len(q) : Plain(q[i])

\* A list of plain steps, with bodies that are closed in it, owes nothing.
LEMMA StraightFlows ==
  ASSUME NEW q, NEW g, Straight(q)
  PROVE  Flows(q, 0, g)
<1> DEFINE Proof(i) == CHOOSE S : Closed(S) /\ <<q[i], 0, {}>> \in S
           S == UNION {Proof(i) : i \in 1..Len(q)}
           owed == [i \in 1..Len(q) + 1 |-> 0]
           open == [d \in Depths |-> [i \in 1..Len(q) + 1 |-> 0]]
<1>1. ASSUME NEW i \in 1..Len(q)
      PROVE  /\ Closed(Proof(i)) /\ <<q[i], 0, {}>> \in Proof(i)
             /\ q[i].op \notin {"save", "closing", "unchecked", "enter", "leave"}
  <2>1. Plain(q[i])
    BY DEF Straight
  <2> QED
    BY <2>1 DEF Plain, Fits
<1> HIDE DEF Proof
<1>2. Closed(S)
  BY <1>1, UnionIsClosed
<1>3. \A i \in 1..Len(q) : <<q[i], 0, {}>> \in S
  BY <1>1
<1> HIDE DEF S
<1>4. \E T : q \in Seq(T)
  BY DEF Straight
<1>5. Len(q) \in Nat
  BY <1>4
<1>6. \A i \in 1..Len(q) : i \in 1..Len(q) + 1 /\ i + 1 \in 1..Len(q) + 1
  BY <1>5
<1>7. 1 \in 1..Len(q) + 1 /\ Len(q) + 1 \in 1..Len(q) + 1
  BY <1>5
<1>8. /\ owed \in [1..Len(q) + 1 -> Nat] /\ open \in [Depths -> [1..Len(q) + 1 -> Nat]]
      /\ \A i \in 1..Len(q) + 1 : owed[i] = 0 /\ \A d \in Depths : open[d][i] = 0
  OBVIOUS
<1> HIDE DEF owed, open
<1>9. \A i \in 1..Len(q) : \A d \in Depths : Turn(q[i], d) = 0
  BY <1>1 DEF Turn
<1>10. Course(S, q, owed, open, g)
  <2>1. ASSUME NEW i \in 1..Len(q)
        PROVE  /\ owed[i] = owed[i + 1]
               /\ \E h \in SUBSET g : <<q[i], owed[i] - owed[i + 1], h>> \in S
               /\ \A d \in Depths : open[d][i] = open[d][i + 1] + Turn(q[i], d)
    <3>1. owed[i] = 0 /\ owed[i + 1] = 0 /\ 0 - 0 = 0 /\ 0 + 0 = 0 /\ {} \in SUBSET g
      BY <1>6, <1>8
    <3>2. \E h \in SUBSET g : <<q[i], owed[i] - owed[i + 1], h>> \in S
      BY <1>3, <3>1
    <3>3. \A d \in Depths : open[d][i] = 0 /\ open[d][i + 1] = 0 /\ Turn(q[i], d) = 0
      BY <1>6, <1>8, <1>9
    <3> QED
      BY <3>1, <3>2, <3>3
  <2> QED
    BY <1>4, <1>8, <2>1 DEF Course
<1>11. Flow(S, q, 0, g)
  BY <1>1, <1>6, <1>7, <1>8, <1>10 DEF Flow
<1> QED
  BY <1>2, <1>11 DEF Flows

\* The steps of a loop's or function's body.
LEMMA BodyFlows ==
  ASSUME NEW d \in Depths, NEW r \in Rules, Needs(r) = {}, NEW g
  PROVE  Flows(<<Enter(d), Rule(r), Leave(d)>>, 0, g)
<1> DEFINE q == <<Enter(d), Rule(r), Leave(d)>>
           S == {<<Enter(d), 0, {}>>, <<Rule(r), 0, {}>>, <<Leave(d), 0, {}>>}
           owed == [i \in 1..4 |-> 0]
           open == [c \in Depths |-> [i \in 1..4 |-> IF c = d /\ i \in {2, 3} THEN 1 ELSE 0]]
<1>1. Closed(S)
  <2>1. Sound(S, Enter(d), 0, {}) /\ Sound(S, Leave(d), 0, {}) /\ Sound(S, Rule(r), 0, {})
    BY DEF Sound, Enter, Leave, Rule
  <2> HIDE DEF S
  <2>2. ASSUME NEW x \in S
        PROVE  x = <<x[1], x[2], x[3]>> /\ Sound(S, x[1], x[2], x[3])
    BY <2>1 DEF S
  <2> QED
    BY <2>2 DEF Closed
<1>2. /\ q \in Seq({Enter(d), Rule(r), Leave(d)}) /\ Len(q) = 3
      /\ q[1] = Enter(d) /\ q[2] = Rule(r) /\ q[3] = Leave(d)
  OBVIOUS
<1>3. /\ \A i \in 1..4 : owed[i] = 0
      /\ \A c \in Depths : /\ open[c][1] = 0 /\ open[c][4] = 0
                           /\ open[c][2] = IF c = d THEN 1 ELSE 0
                           /\ open[c][3] = IF c = d THEN 1 ELSE 0
  OBVIOUS
<1>4. owed \in [1..4 -> Nat] /\ open \in [Depths -> [1..4 -> Nat]]
  OBVIOUS
<1>5. {} \in SUBSET g /\ <<Enter(d), 0, {}>> \in S /\ <<Rule(r), 0, {}>> \in S /\ <<Leave(d), 0, {}>> \in S
  OBVIOUS
<1>6. \A c \in Depths : /\ Turn(q[1], c) = IF c = d THEN -1 ELSE 0
                        /\ Turn(q[2], c) = 0
                        /\ Turn(q[3], c) = IF c = d THEN 1 ELSE 0
  BY <1>2 DEF Turn, Enter, Rule, Leave
<1>7. /\ q[1].op = "enter" /\ q[2].op = "rule" /\ q[3].op = "leave"
  BY <1>2 DEF Enter, Rule, Leave
<1> HIDE DEF S, owed, open, q
<1>8. \A i \in 1..3 : /\ i = 1 \/ i = 2 \/ i = 3
                      /\ i \in 1..4 /\ i + 1 \in 1..4
  OBVIOUS
<1>9. ASSUME NEW i \in 1..3
      PROVE  /\ owed[i] = owed[i + 1]
             /\ \E h \in SUBSET g : <<q[i], owed[i] - owed[i + 1], h>> \in S
             /\ \A c \in Depths : open[c][i] = open[c][i + 1] + Turn(q[i], c)
  <2>1. owed[i] = 0 /\ owed[i + 1] = 0 /\ 0 - 0 = 0
    BY <1>3, <1>8
  <2>2. <<q[i], 0, {}>> \in S
    BY <1>2, <1>5, <1>8
  <2>3. \A c \in Depths : open[c][i] = open[c][i + 1] + Turn(q[i], c)
    <3>1. 1 + 1 = 2 /\ 2 + 1 = 3 /\ 3 + 1 = 4
      OBVIOUS
    <3> QED
      BY <1>3, <1>6, <1>8, <3>1
  <2> QED
    BY <1>5, <2>1, <2>2, <2>3
<1>10. Course(S, q, owed, open, g)
  <2>1. 3 + 1 = 4
    OBVIOUS
  <2> QED
    BY <1>2, <1>4, <1>9, <2>1 DEF Course
<1>11. Flow(S, q, 0, g)
  <2>1. 3 + 1 = 4 /\ 1 \in 1..4 /\ 4 \in 1..4
    OBVIOUS
  <2>2. \A i \in 1..3 : q[i].op \notin {"save", "closing", "unchecked"}
    BY <1>7, <1>8
  <2>3. \A i \in 1..3 : owed[i] = owed[i + 1]
    BY <1>9
  <2>4. owed[1] = 0 /\ owed[4] = 0 /\ \A c \in Depths : open[c][1] = 0 /\ open[c][4] = 0
    BY <1>3, <2>1
  <2> QED
    BY <1>2, <1>10, <2>1, <2>2, <2>3, <2>4 DEF Flow
<1> QED
  BY <1>1, <1>11 DEF Flows, q
-----------------------------------------------------------------------------
(***************************************************************************)
(* The steps, one constructor at a time.                                   *)
(***************************************************************************)
\* Steps that only look at tokens are plain; the end is no leaf.
LEMMA SimpleSteps ==
  /\ \A ts : Plain(Match(ts)) /\ ("EOF" \notin ts => Plain(Leaf(ts)))
  /\ Plain(Skip) /\ Plain(Cut) /\ Plain(Fail)
<1>1. \A s : \/ s.op = "match" /\ (s.leaf => "EOF" \notin s.on)
             \/ s.op \in {"next", "gt", "fail"}
             => Plain(s)
  <2> SUFFICES ASSUME NEW s, \/ s.op = "match" /\ (s.leaf => "EOF" \notin s.on)
                             \/ s.op \in {"next", "gt", "fail"}
               PROVE  Plain(s)
    OBVIOUS
  <2>1. Sound({}, s, 0, {})
    BY DEF Sound
  <2>2. Fits(s, 0, {})
    BY <2>1, NothingIsClosed, Fitting
  <2> QED
    BY <2>2 DEF Plain
<1> QED
  BY <1>1 DEF Match, Leaf, Skip, Cut, Fail

\* and so are calls of rules that reach no package.
LEMMA RuleSteps ==
  ASSUME NEW r \in Rules, Needs(r) = {}
  PROVE  /\ Plain(Rule(r))
         /\ \A ts : Plain([op |-> "chain", on |-> ts, rule |-> r])
<1>1. \A s : s.op \in {"rule", "chain"} /\ s.rule = r => Plain(s)
  <2> SUFFICES ASSUME NEW s, s.op \in {"rule", "chain"}, s.rule = r
               PROVE  Plain(s)
    OBVIOUS
  <2>1. Sound({}, s, 0, {})
    BY DEF Sound
  <2>2. Fits(s, 0, {})
    BY <2>1, NothingIsClosed, Fitting
  <2> QED
    BY <2>2 DEF Plain
<1> QED
  BY <1>1 DEF Rule

\* The steps that give a state back, and the call that ignores its result.
LEMMA GivingBack ==
  /\ Fits(Release, 1, {}) /\ Release.op = "release"
  /\ \A k \in Nat : Fits(GiveUp(k), 1, {}) /\ GiveUp(k).op = "restore"
  /\ Fits(Concepts, 1, {"<"}) /\ Concepts.op = "concepts"
  /\ \A r \in Rules : Needs(r) = {} => Fits(Careless(r), 0, {"using"}) /\ Careless(r).op = "careless"
<1>1. \A s, n, g : Sound({}, s, n, g) => Fits(s, n, g)
  BY NothingIsClosed, Fitting
<1>2. Sound({}, Release, 1, {}) /\ \A k \in Nat : Sound({}, GiveUp(k), 1, {})
  BY DEF Sound, Release, GiveUp
<1>3. {"<"} \in SUBSET Words /\ {"using"} \in SUBSET Words
  BY DEF Words
<1>4. Sound({}, Concepts, 1, {"<"})
  BY <1>3 DEF Sound, Concepts
<1>5. \A r \in Rules : Needs(r) = {} => Sound({}, Careless(r), 0, {"using"})
  BY <1>3 DEF Sound, Careless
<1> QED
  BY <1>1, <1>2, <1>4, <1>5 DEF Release, GiveUp, Concepts, Careless

\* Plain steps in a row.
LEMMA StraightTuples ==
  /\ Straight(<<>>)
  /\ \A a : Plain(a) => Straight(<<a>>)
  /\ \A a, b : Plain(a) /\ Plain(b) => Straight(<<a, b>>)
  /\ \A a, b, c : Plain(a) /\ Plain(b) /\ Plain(c) => Straight(<<a, b, c>>)
  /\ \A a, b, c, d : Plain(a) /\ Plain(b) /\ Plain(c) /\ Plain(d) => Straight(<<a, b, c, d>>)
  /\ \A a, b, c, d, e : Plain(a) /\ Plain(b) /\ Plain(c) /\ Plain(d) /\ Plain(e)
                          => Straight(<<a, b, c, d, e>>)
  /\ \A a, b, c, d, e, f : Plain(a) /\ Plain(b) /\ Plain(c) /\ Plain(d) /\ Plain(e) /\ Plain(f)
                             => Straight(<<a, b, c, d, e, f>>)
<1>1. Straight(<<>>)
  <2>1. <<>> \in Seq({}) /\ Len(<<>>) = 0 /\ 1..0 = {}
    OBVIOUS
  <2> QED
    BY <2>1 DEF Straight
<1>2. ASSUME NEW a, Plain(a)
      PROVE  Straight(<<a>>)
  <2>1. <<a>> \in Seq({a}) /\ Len(<<a>>) = 1
    OBVIOUS
  <2>2. \A i \in 1..1 : Plain(<<a>>[i])
    BY <1>2
  <2> QED
    BY <2>1, <2>2 DEF Straight
<1>3. ASSUME NEW a, NEW b, Plain(a), Plain(b)
      PROVE  Straight(<<a, b>>)
  <2>1. <<a, b>> \in Seq({a, b}) /\ Len(<<a, b>>) = 2
    OBVIOUS
  <2>2. \A i \in 1..2 : Plain(<<a, b>>[i])
    BY <1>3
  <2> QED
    BY <2>1, <2>2 DEF Straight
<1>4. ASSUME NEW a, NEW b, NEW c, Plain(a), Plain(b), Plain(c)
      PROVE  Straight(<<a, b, c>>)
  <2>1. <<a, b, c>> \in Seq({a, b, c}) /\ Len(<<a, b, c>>) = 3
    OBVIOUS
  <2>2. \A i \in 1..3 : Plain(<<a, b, c>>[i])
    BY <1>4
  <2> QED
    BY <2>1, <2>2 DEF Straight
<1>5. ASSUME NEW a, NEW b, NEW c, NEW d, Plain(a), Plain(b), Plain(c), Plain(d)
      PROVE  Straight(<<a, b, c, d>>)
  <2>1. <<a, b, c, d>> \in Seq({a, b, c, d}) /\ Len(<<a, b, c, d>>) = 4
    OBVIOUS
  <2>2. \A i \in 1..4 : Plain(<<a, b, c, d>>[i])
    BY <1>5
  <2> QED
    BY <2>1, <2>2 DEF Straight
<1>6. ASSUME NEW a, NEW b, NEW c, NEW d, NEW e, Plain(a), Plain(b), Plain(c), Plain(d), Plain(e)
      PROVE  Straight(<<a, b, c, d, e>>)
  <2>1. <<a, b, c, d, e>> \in Seq({a, b, c, d, e}) /\ Len(<<a, b, c, d, e>>) = 5
    OBVIOUS
  <2>2. \A i \in 1..5 : Plain(<<a, b, c, d, e>>[i])
    BY <1>6
  <2> QED
    BY <2>1, <2>2 DEF Straight
<1>7. ASSUME NEW a, NEW b, NEW c, NEW d, NEW e, NEW f,
             Plain(a), Plain(b), Plain(c), Plain(d), Plain(e), Plain(f)
      PROVE  Straight(<<a, b, c, d, e, f>>)
  <2>1. <<a, b, c, d, e, f>> \in Seq({a, b, c, d, e, f}) /\ Len(<<a, b, c, d, e, f>>) = 6
    OBVIOUS
  <2>2. \A i \in 1..6 : Plain(<<a, b, c, d, e, f>>[i])
    BY <1>7
  <2> QED
    BY <2>1, <2>2 DEF Straight
<1> QED
  BY <1>1, <1>2, <1>3, <1>4, <1>5, <1>6, <1>7

\* Two such rows are joined to one.
LEMMA StraightJoined ==
  \A p, q : Straight(p) /\ Straight(q) => Straight(p \o q)
<1> SUFFICES ASSUME NEW p, NEW q, Straight(p), Straight(q)
             PROVE  Straight(p \o q)
  OBVIOUS
<1>1. /\ \E T : p \o q \in Seq(T)
      /\ Len(p) \in Nat /\ Len(q) \in Nat /\ Len(p \o q) = Len(p) + Len(q)
      /\ \A i \in 1..Len(p) : (p \o q)[i] = p[i]
      /\ \A i \in 1..Len(q) : (p \o q)[Len(p) + i] = q[i]
  BY Joined DEF Straight
<1>2. ASSUME NEW i \in 1..Len(p) + Len(q)
      PROVE  Plain((p \o q)[i])
  <2>1. CASE i \in 1..Len(p)
    BY <1>1, <2>1 DEF Straight
  <2>2. CASE i \notin 1..Len(p)
    <3> DEFINE e == i - Len(p)
    <3>1. e \in 1..Len(q) /\ i = Len(p) + e
      BY <1>1, <2>2
    <3> HIDE DEF e
    <3> QED
      BY <1>1, <3>1 DEF Straight
  <2> QED
    BY <2>1, <2>2
<1> QED
  BY <1>1, <1>2 DEF Straight

\* What owes may be taken by a branch.
LEMMA FlowsTurn ==
  /\ \A q, n, g : Flows(q, n, g) => Turns(q, n, g)
  /\ \A q, g : Straight(q) => Flows(q, 0, g) /\ Turns(q, 0, g)
<1>1. \A q, n, g : Flows(q, n, g) => Turns(q, n, g)
  BY DEF Flows, Turns, Arm
<1> QED
  BY <1>1, StraightFlows

\* So may what saves a state and gives it back.
LEMMA SaveTurns ==
  ASSUME NEW q, NEW g, Flows(q, 1, g), <<Save>> \o q \in {Angle, Header}
  PROVE  Turns(<<Save>> \o q, 0, g)
BY DEF Flows, Turns, Arm, Saving

\* The arms of a branch, each of which gives n states back.
Good(f, n, g) == \A t \in DOMAIN f : Turns(f[t], n, g \union ({t} \intersect Words))

\* A branch owes what each of its arms owes.
LEMMA BranchFits ==
  ASSUME NEW f, NEW q, NEW n \in {0, 1}, NEW g \in SUBSET Words, Good(f, n, g), Turns(q, n, g)
  PROVE  Fits(Branch(f, q), n, g) /\ Branch(f, q).op = "branch"
<1> DEFINE s == Branch(f, q)
           Proof(t) == CHOOSE S : Closed(S) /\ Arm(S, f[t], n, g \union ({t} \intersect Words))
<1>1. PICK U : Closed(U) /\ Arm(U, q, n, g)
  BY DEF Turns
<1>2. \A t \in DOMAIN f :
        Closed(Proof(t)) /\ Arm(Proof(t), f[t], n, g \union ({t} \intersect Words))
  BY DEF Good, Turns
<1> HIDE DEF Proof
<1> DEFINE X == {U} \union {Proof(t) : t \in DOMAIN f}
           S == UNION X
<1>3. Closed(S)
  <2>1. \A T \in X : Closed(T)
    BY <1>1, <1>2
  <2> HIDE DEF X
  <2> QED
    BY <2>1, UnionIsClosed
<1>4. U \subseteq S /\ \A t \in DOMAIN f : Proof(t) \subseteq S
  OBVIOUS
<1> HIDE DEF X, S
<1>5. Arm(S, q, n, g)
  BY <1>1, <1>4, MoreFlows
<1>6. ASSUME NEW t \in DOMAIN f
      PROVE  Arm(S, f[t], n, g \union ({t} \intersect Words))
  BY <1>2, <1>4, MoreFlows
<1>7. s.op = "branch" /\ s.arms = f /\ s.other = q
  BY DEF Branch
<1> HIDE DEF s
<1>8. Sound(S, s, n, g)
  BY <1>5, <1>6, <1>7 DEF Sound
<1> QED
  BY <1>3, <1>7, <1>8, Fitting DEF s

\* The arms of a branch, one by one: behind its own token an arm may need its word.
LEMMA GoodArms ==
  /\ \A n, g : Good(<<>>, n, g)
  /\ \A t, q, n, g : Turns(q, n, g \union ({t} \intersect Words)) => Good(t :> q, n, g)
  /\ \A e, f, n, g : Good(e, n, g) /\ Good(f, n, g) => Good(e @@ f, n, g)
  /\ \A ts, q, n, g : (\A h : Turns(q, n, h)) => Good(Arms(ts, q), n, g)
<1>1. \A n, g : Good(<<>>, n, g)
  <2>1. DOMAIN <<>> = {}
    OBVIOUS
  <2> QED
    BY <2>1 DEF Good
<1>2. \A t, q, n, g : Turns(q, n, g \union ({t} \intersect Words)) => Good(t :> q, n, g)
  BY DEF Good, :>
<1>3. ASSUME NEW e, NEW f, NEW n, NEW g, Good(e, n, g), Good(f, n, g)
      PROVE  Good(e @@ f, n, g)
  <2> DEFINE u == FirstOf(e, f)
  <2>1. e @@ f = u
    BY DEF @@
  <2>2. DOMAIN u = DOMAIN e \union DOMAIN f
    BY DEF FirstOf
  <2>3. ASSUME NEW t \in DOMAIN e
        PROVE  u[t] = e[t]
    BY DEF FirstOf
  <2>4. ASSUME NEW t \in DOMAIN f, t \notin DOMAIN e
        PROVE  u[t] = f[t]
    BY <2>4 DEF FirstOf
  <2> HIDE DEF u
  <2>5. Good(u, n, g)
    BY <1>3, <2>2, <2>3, <2>4 DEF Good
  <2> QED
    BY <2>1, <2>5
<1>4. \A ts, q, n, g : (\A h : Turns(q, n, h)) => Good(Arms(ts, q), n, g)
  BY DEF Good, Arms
<1> QED
  BY <1>1, <1>2, <1>3, <1>4

\* Branches of plain arms are plain,
LEMMA PlainBranches ==
  /\ \A f, q : Good(f, 0, {}) /\ Turns(q, 0, {}) => Plain(Branch(f, q))
  /\ \A t, q : Straight(q) => Plain(Option(t, q)) /\ Plain(Unless(t, q))
<1>1. ASSUME NEW f, NEW q, Good(f, 0, {}), Turns(q, 0, {})
      PROVE  Plain(Branch(f, q))
  <2>1. Fits(Branch(f, q), 0, {}) /\ Branch(f, q).op = "branch"
    BY <1>1, BranchFits
  <2> QED
    BY <2>1 DEF Plain
<1>2. ASSUME NEW t, NEW q, Straight(q)
      PROVE  Plain(Option(t, q)) /\ Plain(Unless(t, q))
  <2>1. \A g : Turns(q, 0, g) /\ Turns(<<>>, 0, g)
    BY <1>2, FlowsTurn, StraightTuples
  <2>2. Good(t :> q, 0, {}) /\ Good(t :> <<>>, 0, {})
    BY <2>1, GoodArms
  <2> QED
    BY <1>1, <2>1, <2>2 DEF Option, Unless
<1> QED
  BY <1>1, <1>2

\* and so are loops of plain steps and the tests of the depths.
LEMMA PlainLoops ==
  /\ \A t, q : Straight(q) => Plain(Repeat(t, q)) /\ Plain(Until(t, q))
  /\ \A d \in Depths : \A p, q : Straight(p) /\ Straight(q) => Plain(Within(d, p, q))
<1>1. ASSUME NEW t, NEW q, Straight(q)
      PROVE  Plain(Repeat(t, q)) /\ Plain(Until(t, q))
  <2>1. PICK S : Closed(S) /\ Flow(S, q, 0, {})
    BY <1>1, StraightFlows DEF Flows
  <2>2. Sound(S, Repeat(t, q), 0, {}) /\ Sound(S, Until(t, q), 0, {})
    BY <2>1 DEF Sound, Repeat, Until
  <2>3. Fits(Repeat(t, q), 0, {}) /\ Fits(Until(t, q), 0, {})
    BY <2>1, <2>2, Fitting
  <2> QED
    BY <2>3 DEF Plain, Repeat, Until
<1>2. ASSUME NEW d \in Depths, NEW p, NEW q, Straight(p), Straight(q)
      PROVE  Plain(Within(d, p, q))
  <2>1. PICK S1 : Closed(S1) /\ Flow(S1, p, 0, {})
    BY <1>2, StraightFlows DEF Flows
  <2>2. PICK S2 : Closed(S2) /\ Flow(S2, q, 0, {})
    BY <1>2, StraightFlows DEF Flows
  <2> DEFINE S == UNION {S1, S2}
  <2>3. S1 \subseteq S /\ S2 \subseteq S
    OBVIOUS
  <2>4. Closed(S)
    BY <2>1, <2>2, UnionIsClosed
  <2> HIDE DEF S
  <2>5. Flow(S, p, 0, {}) /\ Flow(S, q, 0, {})
    BY <2>1, <2>2, <2>3, MoreFlows
  <2>6. Sound(S, Within(d, p, q), 0, {})
    BY <2>5 DEF Sound, Within
  <2>7. Fits(Within(d, p, q), 0, {})
    BY <2>4, <2>6, Fitting
  <2> QED
    BY <2>7 DEF Plain, Within
<1> QED
  BY <1>1, <1>2

\* The lists and the chains of operators that a rule is repeated in.
LEMMA StraightLists ==
  ASSUME NEW r \in Rules, Needs(r) = {}
  PROVE  /\ Straight(ListOf(r))
         /\ \A ts : Straight(Chain(r, ts)) /\ Straight(Pair(r, ts))
<1>1. Plain(Rule(r)) /\ \A ts : Plain([op |-> "chain", on |-> ts, rule |-> r])
  BY RuleSteps
<1>2. Straight(<<Skip, Rule(r)>>)
  BY <1>1, SimpleSteps, StraightTuples
<1>3. Plain(Repeat(",", <<Skip, Rule(r)>>))
  BY <1>2, PlainLoops
<1>4. \A ts : Plain(Branch(Arms(ts, <<Skip, Rule(r)>>), <<>>))
  <2>1. \A ts : Good(Arms(ts, <<Skip, Rule(r)>>), 0, {})
    BY <1>2, FlowsTurn, GoodArms
  <2>2. Turns(<<>>, 0, {})
    BY FlowsTurn, StraightTuples
  <2> QED
    BY <2>1, <2>2, PlainBranches
<1> QED
  BY <1>1, <1>3, <1>4, StraightTuples DEF ListOf, Chain, Pair

\* Tuples, written as joins of shorter ones.
LEMMA TupleJoins ==
  /\ \A a, b : <<a>> \o <<b>> = <<a, b>>
  /\ \A a, b, c : <<a, b>> \o <<c>> = <<a, b, c>>
  /\ \A a, b, c, d : <<a, b>> \o <<c, d>> = <<a, b, c, d>>
  /\ \A a, b, c, d, e : <<a>> \o (<<b, c, d>> \o <<e>>) = <<a, b, c, d, e>>
<1>1. ASSUME NEW a, NEW b
      PROVE  <<a>> \o <<b>> = <<a, b>>
  <2> DEFINE S == {a, b}
             q == <<a>> \o <<b>>
             r == <<a, b>>
  <2>1. q \in Seq(S) /\ r \in Seq(S)
    OBVIOUS
  <2>2. Len(q) = 2 /\ Len(r) = 2
    OBVIOUS
  <2>3. \A i \in 1..2 : q[i] = r[i]
    OBVIOUS
  <2> HIDE DEF q, r, S
  <2>4. q = r
    BY <2>1, <2>2, <2>3, SeqEqual
  <2> QED
    BY <2>4 DEF q, r
<1>2. ASSUME NEW a, NEW b, NEW c
      PROVE  <<a, b>> \o <<c>> = <<a, b, c>>
  <2> DEFINE S == {a, b, c}
             q == <<a, b>> \o <<c>>
             r == <<a, b, c>>
  <2>1. q \in Seq(S) /\ r \in Seq(S)
    OBVIOUS
  <2>2. Len(q) = 3 /\ Len(r) = 3
    OBVIOUS
  <2>3. \A i \in 1..3 : q[i] = r[i]
    OBVIOUS
  <2> HIDE DEF q, r, S
  <2>4. q = r
    BY <2>1, <2>2, <2>3, SeqEqual
  <2> QED
    BY <2>4 DEF q, r
<1>3. ASSUME NEW a, NEW b, NEW c, NEW d
      PROVE  <<a, b>> \o <<c, d>> = <<a, b, c, d>>
  <2> DEFINE S == {a, b, c, d}
             q == <<a, b>> \o <<c, d>>
             r == <<a, b, c, d>>
  <2>1. q \in Seq(S) /\ r \in Seq(S)
    OBVIOUS
  <2>2. Len(q) = 4 /\ Len(r) = 4
    OBVIOUS
  <2>3. \A i \in 1..4 : q[i] = r[i]
    OBVIOUS
  <2> HIDE DEF q, r, S
  <2>4. q = r
    BY <2>1, <2>2, <2>3, SeqEqual
  <2> QED
    BY <2>4 DEF q, r
<1>4. ASSUME NEW a, NEW b, NEW c, NEW d, NEW e
      PROVE  <<a>> \o (<<b, c, d>> \o <<e>>) = <<a, b, c, d, e>>
  <2> DEFINE S == {a, b, c, d, e}
             q == <<a>> \o (<<b, c, d>> \o <<e>>)
             r == <<a, b, c, d, e>>
  <2>1. q \in Seq(S) /\ r \in Seq(S)
    OBVIOUS
  <2>2. Len(q) = 5 /\ Len(r) = 5
    OBVIOUS
  <2>3. \A i \in 1..5 : q[i] = r[i]
    OBVIOUS
  <2> HIDE DEF q, r, S
  <2>4. q = r
    BY <2>1, <2>2, <2>3, SeqEqual
  <2> QED
    BY <2>4 DEF q, r
<1> QED
  BY <1>1, <1>2, <1>3, <1>4
-----------------------------------------------------------------------------
(***************************************************************************)
(* The grammar: every rule is a course of sound steps.                     *)
(***************************************************************************)
\* The names of the rules.
Names ==
  {"id", "number", "char", "string", "null", "undefined", "nan", "this", "kint", "kfloat",
   "kchar", "kstring", "operator", "tuple", "pair", "object", "parenthesis", "lambda",
   "primary", "field", "fields", "argument", "arguments", "postfix", "postfix_more",
   "prefix", "pow", "multiplicative", "addative", "shifting", "relational", "equality",
   "bitwise_and", "bitwise_xor", "bitwise_or", "logical_and", "logical_or", "instanceof",
   "conditional", "expression", "assign", "if_stmt", "entity", "set", "var_stmt",
   "for_init", "region_for_loop", "region_condition", "for_stmt", "break_stmt",
   "continue_stmt", "catch_stmt", "try_stmt", "throw_stmt", "return_stmt", "reference_stmt",
   "readonly_stmt", "statement", "body", "parameter", "parameters", "generic", "generics",
   "class_fun", "class_property", "class_property_static", "class_reference",
   "class_readonly", "class_readonly_static", "class_static", "class_export",
   "class_annotation", "class_block", "heritage", "heritages", "class", "package",
   "packages", "using", "readonly", "static", "export", "export_noted", "note", "notes",
   "annotation", "module"}

\* They are those of the grammar.
LEMMA RuleNames == Rules = Names
BY DEF Rules, Names, Grammar

\* A rule that reaches no package is plain where it is called.
LEMMA PlainRules ==
  \A r \in Names \ {"using", "packages", "package"} :
    /\ r \in Rules /\ Needs(r) = {}
    /\ Plain(Rule(r)) /\ Straight(ListOf(r))
    /\ \A ts : Straight(Chain(r, ts)) /\ Straight(Pair(r, ts))
BY RuleNames, RuleSteps, StraightLists DEF Needs

\* The rules and lists of rules that steps are made of.
LEMMA PlainUses ==
  /\ Plain(Rule("id")) /\ Plain(Rule("number")) /\ Plain(Rule("char"))
  /\ Plain(Rule("string")) /\ Plain(Rule("null")) /\ Plain(Rule("undefined"))
  /\ Plain(Rule("nan")) /\ Plain(Rule("this")) /\ Plain(Rule("kint"))
  /\ Plain(Rule("kfloat")) /\ Plain(Rule("kchar")) /\ Plain(Rule("kstring"))
  /\ Plain(Rule("operator")) /\ Plain(Rule("tuple")) /\ Plain(Rule("object"))
  /\ Plain(Rule("parenthesis")) /\ Plain(Rule("lambda")) /\ Plain(Rule("primary"))
  /\ Plain(Rule("fields")) /\ Plain(Rule("arguments")) /\ Plain(Rule("postfix"))
  /\ Plain(Rule("postfix_more")) /\ Plain(Rule("prefix")) /\ Plain(Rule("instanceof"))
  /\ Plain(Rule("conditional")) /\ Plain(Rule("expression")) /\ Plain(Rule("assign"))
  /\ Plain(Rule("if_stmt")) /\ Plain(Rule("set")) /\ Plain(Rule("var_stmt"))
  /\ Plain(Rule("region_for_loop")) /\ Plain(Rule("region_condition"))
  /\ Plain(Rule("for_stmt")) /\ Plain(Rule("break_stmt"))
  /\ Plain(Rule("continue_stmt")) /\ Plain(Rule("catch_stmt"))
  /\ Plain(Rule("try_stmt")) /\ Plain(Rule("throw_stmt")) /\ Plain(Rule("return_stmt"))
  /\ Plain(Rule("reference_stmt")) /\ Plain(Rule("readonly_stmt"))
  /\ Plain(Rule("statement")) /\ Plain(Rule("body")) /\ Plain(Rule("parameters"))
  /\ Plain(Rule("generics")) /\ Plain(Rule("class_fun"))
  /\ Plain(Rule("class_property")) /\ Plain(Rule("class_property_static"))
  /\ Plain(Rule("class_reference")) /\ Plain(Rule("class_readonly"))
  /\ Plain(Rule("class_readonly_static")) /\ Plain(Rule("class_static"))
  /\ Plain(Rule("class_export")) /\ Plain(Rule("class_annotation"))
  /\ Plain(Rule("class_block")) /\ Plain(Rule("heritages")) /\ Plain(Rule("class"))
  /\ Plain(Rule("readonly")) /\ Plain(Rule("static")) /\ Plain(Rule("export"))
  /\ Plain(Rule("export_noted")) /\ Plain(Rule("note")) /\ Plain(Rule("notes"))
  /\ Plain(Rule("annotation"))
BY PlainRules DEF Names
\* The lists and chains that the grammar uses.
LEMMA StraightUses ==
  /\ Straight(ListOf("pair")) /\ Straight(ListOf("field"))
  /\ Straight(ListOf("argument")) /\ Straight(ListOf("expression"))
  /\ Straight(ListOf("assign")) /\ Straight(ListOf("entity"))
  /\ Straight(ListOf("for_init")) /\ Straight(ListOf("parameter"))
  /\ Straight(ListOf("generic")) /\ Straight(ListOf("heritage"))
BY PlainRules DEF Names
\* The arms of branches that are straight, and branches of such arms.
LEMMA StraightArms ==
  /\ Good(<<>>, 0, {})
  /\ \A t, q : Straight(q) => Good(t :> q, 0, {})
  /\ \A ts, q : Straight(q) => Good(Arms(ts, q), 0, {})
  /\ \A e, f : Good(e, 0, {}) /\ Good(f, 0, {}) => Good(e @@ f, 0, {})
  /\ \A f, q : Good(f, 0, {}) /\ Straight(q) => Plain(Branch(f, q))
<1>1. \A q, g : Straight(q) => Turns(q, 0, g)
  BY FlowsTurn
<1> QED
  BY <1>1, GoodArms, PlainBranches

\* Literals and names (syntax.c, id to kstring).
LEMMA Leaves ==
  /\ Straight(id) /\ Straight(number) /\ Straight(char) /\ Straight(string)
  /\ Straight(null) /\ Straight(undefined) /\ Straight(nan) /\ Straight(this)
  /\ Straight(kint) /\ Straight(kfloat) /\ Straight(kchar) /\ Straight(kstring)
<1>1. \A ts : "EOF" \notin ts => Straight(<<Leaf(ts)>>)
  BY SimpleSteps, StraightTuples
<1> QED
  BY <1>1 DEF id, number, char, string, null, undefined, nan, this, kint, kfloat, kchar,
              kstring, IdTokens

\* Expressions, the attempt at generic arguments among them (postfix).
LEMMA Expressions ==
  /\ Straight(operator) /\ Straight(tuple) /\ Straight(pair) /\ Straight(object)
  /\ Straight(parenthesis) /\ Straight(primary) /\ Straight(field) /\ Straight(fields)
  /\ Straight(argument) /\ Straight(arguments) /\ Straight(postfix) /\ Straight(prefix)
  /\ Straight(conditional) /\ Straight(expression)
<1>1. Straight(operator)
  BY SimpleSteps, StraightTuples, StraightArms DEF operator
<1>2. Straight(tuple)
  BY SimpleSteps, StraightTuples, PlainBranches, StraightUses DEF tuple
<1>3. Straight(pair)
  BY SimpleSteps, StraightTuples, PlainBranches, StraightArms, PlainUses DEF pair
<1>4. Straight(object)
  BY SimpleSteps, StraightTuples, PlainBranches, StraightUses DEF object
<1>5. Straight(parenthesis)
  BY SimpleSteps, StraightTuples, PlainUses DEF parenthesis
<1>6. Straight(primary)
  BY SimpleSteps, StraightTuples, StraightArms, PlainUses DEF primary
<1>7. Straight(field) /\ Straight(fields) /\ Straight(argument) /\ Straight(arguments)
  BY SimpleSteps, StraightTuples, PlainBranches, PlainUses, StraightUses
     DEF field, fields, argument, arguments
<1>8. Straight(postfix)
  BY StraightTuples, PlainUses DEF postfix
<1>9. Straight(prefix)
  BY SimpleSteps, StraightTuples, StraightArms, PlainUses DEF prefix
<1>10. Straight(conditional) /\ Straight(expression)
  BY SimpleSteps, StraightTuples, PlainBranches, PlainUses DEF conditional, expression
<1> QED
  BY <1>1, <1>2, <1>3, <1>4, <1>5, <1>6, <1>7, <1>8, <1>9, <1>10

\* Binary operators.
LEMMA BinaryOperators ==
  /\ Straight(pow) /\ Straight(multiplicative) /\ Straight(addative) /\ Straight(shifting)
  /\ Straight(relational) /\ Straight(equality) /\ Straight(bitwise_and)
  /\ Straight(bitwise_xor) /\ Straight(bitwise_or) /\ Straight(logical_and)
  /\ Straight(logical_or) /\ Straight(instanceof) /\ Straight(assign)
<1>1. /\ \A ts : Straight(Chain("prefix", ts)) /\ Straight(Chain("pow", ts))
      /\ \A ts : Straight(Chain("multiplicative", ts)) /\ Straight(Pair("addative", ts))
      /\ \A ts : Straight(Pair("shifting", ts)) /\ Straight(Pair("relational", ts))
      /\ \A ts : Straight(Chain("equality", ts)) /\ Straight(Chain("bitwise_and", ts))
      /\ \A ts : Straight(Chain("bitwise_xor", ts)) /\ Straight(Chain("bitwise_or", ts))
      /\ \A ts : Straight(Chain("logical_and", ts)) /\ Straight(Pair("logical_or", ts))
      /\ \A ts : Straight(Pair("expression", ts))
  BY PlainRules DEF Names
<1> QED
  BY <1>1 DEF pow, multiplicative, addative, shifting, relational, equality, bitwise_and,
              bitwise_xor, bitwise_or, logical_and, logical_or, instanceof, assign

\* The bodies of functions and loops, and sequences that end in one.
LEMMA Bodied ==
  /\ \A g : Flows(lambda_body, 0, g) /\ Flows(for_body, 0, g)
  /\ \A p, q, g : Straight(p) /\ Flows(q, 0, g) => Flows(p \o q, 0, g)
<1>1. "body" \in Rules /\ Needs("body") = {}
  BY PlainRules DEF Names
<1>2. \A g : Flows(lambda_body, 0, g) /\ Flows(for_body, 0, g)
  <2>1. "loop" \in Depths /\ "fun" \in Depths
    BY DEF Depths
  <2> QED
    BY <1>1, <2>1, BodyFlows DEF lambda_body, for_body
<1>3. ASSUME NEW p, NEW q, NEW g, Straight(p), Flows(q, 0, g)
      PROVE  Flows(p \o q, 0, g)
  <2>1. Flows(p, 0, g) /\ 0 \in {0, 1} /\ 0 + 0 = 0
    BY <1>3, StraightFlows
  <2> QED
    BY <1>3, <2>1, TwoFlow
<1> QED
  BY <1>2, <1>3

\* Functions, whose bodies are counted.
LEMMA Lambdas ==
  /\ Straight(lambda_generics) /\ Straight(Tail(lambda_generics))
  /\ Straight(lambda_parameters) /\ Straight(lambda)
<1>1. Straight(lambda_generics)
  BY SimpleSteps, StraightTuples, PlainBranches, PlainUses DEF lambda_generics
<1>2. Straight(Tail(lambda_generics))
  <2>1. Tail(lambda_generics) =
          <<Cut, Option(">", <<Fail>>), Rule("generics"), Cut, Match({">"})>>
    BY DEF lambda_generics
  <2> QED
    BY <2>1, SimpleSteps, StraightTuples, PlainBranches, PlainUses
<1>3. Straight(lambda_parameters)
  BY SimpleSteps, StraightTuples, PlainBranches, PlainUses DEF lambda_parameters
<1>4. ASSUME NEW end, Turns(end, 0, {})
      PROVE  Straight(lambda_rest(end))
  <2> DEFINE f == ":" :> <<Skip, Rule("postfix"),
                          Branch("->" :> <<Skip, Rule("expression")>>, <<Rule("body")>>)>>
                  @@ "->" :> <<Skip, Rule("expression")>> @@ "{" :> lambda_body
  <2>1. Good("{" :> lambda_body, 0, {})
    BY Bodied, FlowsTurn, GoodArms
  <2>2. Good(f, 0, {})
    BY <2>1, SimpleSteps, StraightTuples, StraightArms, PlainUses
  <2> HIDE DEF f
  <2>3. Plain(Branch(f, end))
    BY <1>4, <2>2, PlainBranches
  <2>4. Plain(Option("<", lambda_generics)) /\ Plain(Option("(", lambda_parameters))
    BY <1>1, <1>3, PlainBranches
  <2>5. Straight(<<Option("<", lambda_generics), Option("(", lambda_parameters), Branch(f, end)>>)
    BY <2>3, <2>4, StraightTuples
  <2> QED
    BY <2>5 DEF lambda_rest, f
<1>5. Straight(lambda)
  <2>1. Straight(lambda_rest(lambda_body)) /\ Straight(lambda_rest(<<>>))
    BY <1>4, Bodied, FlowsTurn, StraightTuples
  <2>2. Straight(<<Rule("id")>> \o lambda_rest(lambda_body))
    BY <2>1, StraightTuples, StraightJoined, PlainUses
  <2> QED
    BY <2>1, <2>2, SimpleSteps, StraightTuples, StraightArms DEF lambda
<1> QED
  BY <1>1, <1>2, <1>3, <1>5

\* A "<" saves a state, and the closing gives it back.
LEMMA PostfixMore == Straight(postfix_more)
<1> DEFINE tried == <<Skip, Cut, Option(">", <<Fail>>)>> \o <<Concepts>>
           f == "<" :> <<Save, Skip, Cut, Option(">", <<Fail>>), Concepts>>
                @@ "[" :> <<Skip, Unless("]", <<Rule("arguments")>>), Match({"]"}), Rule("postfix_more")>>
                @@ "." :> <<Skip, Rule("id"), Rule("postfix_more")>>
                @@ "(" :> <<Skip, Unless(")", <<Rule("arguments")>>), Match({")"}), Rule("postfix_more")>>
<1>1. Flows(tried, 1, {"<"})
  <2>1. Flows(<<Skip, Cut, Option(">", <<Fail>>)>>, 0, {"<"})
    BY SimpleSteps, StraightTuples, PlainBranches, FlowsTurn
  <2>2. Flows(<<Concepts>>, 1, {"<"})
    BY GivingBack, OneFlows
  <2>3. 0 \in {0, 1} /\ 1 \in {0, 1} /\ 0 + 1 = 1
    OBVIOUS
  <2> QED
    BY <2>1, <2>2, <2>3, TwoFlow
<1>2. <<Save>> \o tried = <<Save, Skip, Cut, Option(">", <<Fail>>), Concepts>>
  BY TupleJoins
<1>3. Turns(<<Save, Skip, Cut, Option(">", <<Fail>>), Concepts>>, 0, {"<"})
  BY <1>1, <1>2, SaveTurns DEF Angle
<1>4. Good("<" :> <<Save, Skip, Cut, Option(">", <<Fail>>), Concepts>>, 0, {})
  <2>1. {} \union ({"<"} \intersect Words) = {"<"}
    BY DEF Words
  <2> QED
    BY <1>3, <2>1, GoodArms
<1>5. Good(f, 0, {})
  BY <1>4, SimpleSteps, StraightTuples, PlainBranches, StraightArms, PlainUses
<1> HIDE DEF f
<1>6. Straight(<<Branch(f, <<>>)>>)
  BY <1>5, StraightTuples, StraightArms
<1> QED
  BY <1>6 DEF postfix_more, f

\* Statements but for the loop,
LEMMA SimpleStatements ==
  /\ Straight(if_stmt) /\ Straight(entity) /\ Straight(set) /\ Straight(var_stmt)
  /\ Straight(break_stmt) /\ Straight(continue_stmt) /\ Straight(catch_stmt)
  /\ Straight(try_stmt) /\ Straight(throw_stmt) /\ Straight(return_stmt)
  /\ Straight(reference_stmt) /\ Straight(readonly_stmt) /\ Straight(body)
<1>1. Straight(if_stmt) /\ Straight(entity)
  BY SimpleSteps, StraightTuples, StraightArms, PlainBranches, PlainUses DEF if_stmt, entity
<1>2. Straight(set)
  BY SimpleSteps, StraightTuples, StraightJoined, StraightUses DEF set
<1>3. Straight(var_stmt)
  BY SimpleSteps, StraightTuples, StraightArms, PlainBranches, PlainUses DEF var_stmt
<1>4. Straight(break_stmt) /\ Straight(continue_stmt) /\ Straight(return_stmt)
  BY SimpleSteps, StraightTuples, PlainBranches, PlainUses
     DEF break_stmt, continue_stmt, return_stmt
<1>5. Straight(catch_stmt) /\ Straight(try_stmt)
  BY SimpleSteps, StraightTuples, PlainBranches, PlainUses, Lambdas DEF catch_stmt, try_stmt
<1>6. Straight(throw_stmt) /\ Straight(reference_stmt) /\ Straight(readonly_stmt)
  BY SimpleSteps, StraightTuples, PlainUses DEF throw_stmt, reference_stmt, readonly_stmt
<1>7. Straight(body)
  BY SimpleSteps, StraightTuples, StraightArms, PlainLoops, PlainUses DEF body
<1> QED
  BY <1>1, <1>2, <1>3, <1>4, <1>5, <1>6, <1>7

\* their choice,
LEMMA Statement == Straight(statement)
<1> DEFINE plain == <<Rule("assign"), Match({";"})>>
           closed(r) == <<Rule(r), Match({";"})>>
<1>1. Straight(plain)
  BY SimpleSteps, StraightTuples, PlainUses
<1>2. /\ Straight(closed("var_stmt")) /\ Straight(closed("break_stmt"))
      /\ Straight(closed("continue_stmt")) /\ Straight(closed("return_stmt"))
      /\ Straight(closed("throw_stmt"))
  BY SimpleSteps, StraightTuples, PlainUses
<1> HIDE DEF plain, closed
<1>3. /\ Plain(Within("loop", closed("break_stmt"), plain))
      /\ Plain(Within("loop", closed("continue_stmt"), plain))
      /\ Plain(Within("fun", closed("return_stmt"), plain))
  BY <1>1, <1>2, PlainLoops DEF Depths
<1> DEFINE f == "if" :> <<Rule("if_stmt")>> @@ "try" :> <<Rule("try_stmt")>>
                @@ "for" :> <<Rule("for_stmt")>> @@ "var" :> closed("var_stmt")
                @@ "readonly" :> <<Rule("readonly_stmt")>>
                @@ "reference" :> <<Rule("reference_stmt")>>
                @@ "break" :> <<Within("loop", closed("break_stmt"), plain)>>
                @@ "continue" :> <<Within("loop", closed("continue_stmt"), plain)>>
                @@ "return" :> <<Within("fun", closed("return_stmt"), plain)>>
                @@ "throw" :> closed("throw_stmt")
<1>4. Good(f, 0, {})
  BY <1>2, <1>3, StraightTuples, StraightArms, PlainUses
<1> HIDE DEF f
<1>5. Straight(<<Branch(f, plain)>>)
  BY <1>1, <1>4, StraightTuples, StraightArms
<1> QED
  BY <1>5 DEF statement, f, plain, closed

\* The headers of a for statement end in its body.
LEMMA Headers ==
  /\ Straight(for_init)
  /\ \A g : /\ Flows(region_finish, 0, g) /\ Flows(region_step, 0, g)
            /\ Flows(region_condition, 0, g) /\ Flows(region_for_loop, 0, g)
<1>1. Straight(for_init)
  BY SimpleSteps, StraightTuples, StraightArms, PlainUses DEF for_init
<1>2. \A g : Flows(region_finish, 0, g)
  BY Bodied, SimpleSteps, StraightTuples DEF region_finish
<1>3. \A g : Flows(region_step, 0, g)
  BY <1>2, Bodied, StraightTuples, PlainBranches, StraightUses DEF region_step
<1>4. \A g : Flows(region_condition, 0, g)
  <2>1. Straight(<<Branch(";" :> <<Skip>>, <<Rule("expression"), Match({";"})>>)>>)
    BY SimpleSteps, StraightTuples, StraightArms, PlainUses
  <2> QED
    BY <1>3, <2>1, Bodied DEF region_condition
<1>5. \A g : Flows(region_for_loop, 0, g)
  <2>1. Straight(ListOf("for_init") \o <<Match({";"})>>)
    BY SimpleSteps, StraightTuples, StraightJoined, StraightUses
  <2> QED
    BY <1>4, <2>1, Bodied DEF region_for_loop
<1> QED
  BY <1>1, <1>2, <1>3, <1>4, <1>5

\* Names of a for header: the state saved before them is released behind "in"
\* and restored where something else follows.
LEMMA ForIn == \A k \in Nat : \A g : Flows(for_in(k), 1, g)
<1> SUFFICES ASSUME NEW k \in Nat, NEW g
             PROVE  Flows(for_in(k), 1, g)
  OBVIOUS
<1> DEFINE out == <<Release, Match({"in"}), Rule("expression"), Match({")"})>> \o for_body
           again == <<GiveUp(k), Rule("region_for_loop")>>
<1>1. 0 \in {0, 1} /\ 1 \in {0, 1} /\ 1 + 0 = 1 /\ 0 + 1 = 1
  OBVIOUS
<1>2. \A h : Flows(<<Release>>, 1, h) /\ Flows(<<GiveUp(k)>>, 1, h)
  BY GivingBack, OneFlows
<1>3. \A h : Flows(out, 1, h)
  <2>1. \A h : Flows(<<Match({"in"}), Rule("expression"), Match({")"})>> \o for_body, 0, h)
    BY Bodied, SimpleSteps, StraightTuples, PlainUses
  <2>2. \A h : Flows(<<Release>> \o (<<Match({"in"}), Rule("expression"), Match({")"})>> \o for_body), 1, h)
    BY <1>1, <1>2, <2>1, TwoFlow
  <2>3. out = <<Release>> \o (<<Match({"in"}), Rule("expression"), Match({")"})>> \o for_body)
    BY DEF for_body
  <2> QED
    BY <2>2, <2>3
<1>4. \A h : Flows(again, 1, h)
  <2>1. \A h : Flows(<<Rule("region_for_loop")>>, 0, h)
    BY StraightTuples, FlowsTurn, PlainUses
  <2>2. \A h : Flows(<<GiveUp(k)>> \o <<Rule("region_for_loop")>>, 1, h)
    BY <1>1, <1>2, <2>1, TwoFlow
  <2>3. again = <<GiveUp(k)>> \o <<Rule("region_for_loop")>>
    BY TupleJoins
  <2> QED
    BY <2>2, <2>3
<1> HIDE DEF out, again
<1>5. Fits(Branch("in" :> out, again), 1, {}) /\ Branch("in" :> out, again).op = "branch"
  <2>1. Turns(again, 1, {}) /\ Good("in" :> out, 1, {})
    BY <1>3, <1>4, FlowsTurn, GoodArms
  <2>2. {} \in SUBSET Words
    OBVIOUS
  <2> QED
    BY <1>1, <2>1, <2>2, BranchFits
<1>6. Flows(<<Branch("in" :> out, again)>>, 1, g)
  BY <1>1, <1>5, OneFlows
<1> QED
  BY <1>6 DEF for_in, out, again

\* and the loop, whose header saves a state and whose body is counted.
LEMMA ForStatement == Straight(for_stmt)
<1>1. 0 \in {0, 1} /\ 1 \in {0, 1} /\ 1 + 0 = 1 /\ 0 + 1 = 1 /\ {} \in SUBSET Words
  OBVIOUS
<1> DEFINE inside == Branch(";" :> <<Skip, Rule("region_condition")>>, Header)
           rest == Branch("{" :> for_body, <<Match({"("}), inside>>)
<1>2. \A g : Flows(Name2, 1, g)
  <2>1. \A g : Flows(<<Skip, Rule("id")>>, 0, g)
    BY SimpleSteps, StraightTuples, FlowsTurn, PlainUses
  <2> QED
    BY <1>1, <2>1, ForIn, TwoFlow DEF Name2
<1>3. Fits(More, 1, {}) /\ More.op = "branch"
  <2>1. Turns(for_in(1), 1, {}) /\ Good("," :> Name2, 1, {})
    BY <1>2, ForIn, FlowsTurn, GoodArms
  <2> QED
    BY <1>1, <2>1, BranchFits DEF More
<1>4. \A g : Flows(Name1, 1, g)
  <2>1. \A g : Flows(<<More>>, 1, g)
    BY <1>1, <1>3, OneFlows
  <2>2. \A g : Flows(<<Match({"var"}), Rule("id")>>, 0, g)
    BY SimpleSteps, StraightTuples, FlowsTurn, PlainUses
  <2>3. \A g : Flows(<<Match({"var"}), Rule("id")>> \o <<More>>, 1, g)
    BY <1>1, <2>1, <2>2, TwoFlow
  <2>4. <<Match({"var"}), Rule("id")>> \o <<More>> = Name1
    BY TupleJoins DEF Name1
  <2> QED
    BY <2>3, <2>4
<1>5. \A g : Flows(NoName, 1, g)
  <2>1. \A g : Flows(<<Release>>, 1, g)
    BY <1>1, GivingBack, OneFlows
  <2>2. \A g : Flows(<<Rule("region_for_loop")>>, 0, g)
    BY StraightTuples, FlowsTurn, PlainUses
  <2>3. \A g : Flows(<<Release>> \o <<Rule("region_for_loop")>>, 1, g)
    BY <1>1, <2>1, <2>2, TwoFlow
  <2>4. <<Release>> \o <<Rule("region_for_loop")>> = NoName
    BY TupleJoins DEF NoName
  <2> QED
    BY <2>3, <2>4
<1>6. Fits(Tried, 1, {}) /\ Tried.op = "branch"
  <2>1. Turns(NoName, 1, {}) /\ Good("var" :> Name1, 1, {})
    BY <1>4, <1>5, FlowsTurn, GoodArms
  <2> QED
    BY <1>1, <2>1, BranchFits DEF Tried
<1>7. Turns(Header, 0, {})
  <2>1. Flows(<<Tried>>, 1, {})
    BY <1>1, <1>6, OneFlows
  <2>2. <<Save>> \o <<Tried>> = Header
    BY TupleJoins DEF Header
  <2> QED
    BY <2>1, <2>2, SaveTurns
<1>8. Plain(inside)
  <2>1. Good(";" :> <<Skip, Rule("region_condition")>>, 0, {})
    BY SimpleSteps, StraightTuples, StraightArms, PlainUses
  <2> QED
    BY <1>7, <2>1, PlainBranches
<1> HIDE DEF inside
<1>9. Plain(rest)
  <2>1. Good("{" :> for_body, 0, {})
    BY Bodied, FlowsTurn, GoodArms
  <2>2. Straight(<<Match({"("}), inside>>)
    BY <1>8, SimpleSteps, StraightTuples
  <2> QED
    BY <2>1, <2>2, StraightArms
<1> HIDE DEF rest
<1>10. Straight(<<Match({"for"}), Branch(Arms(IdTokens, <<Rule("id")>>), <<>>), rest>>)
  BY <1>9, SimpleSteps, StraightTuples, StraightArms, PlainUses
<1> QED
  BY <1>10 DEF for_stmt, rest, inside, Header, Tried, NoName, Name1, More, Name2

\* Parameters and generic parameters.
LEMMA Parameters ==
  Straight(parameter) /\ Straight(parameters) /\ Straight(generic) /\ Straight(generics)
<1> DEFINE rest(value) ==
             <<Branch(Arms({"*", "**"}, <<Skip>>), <<>>), Rule("id"),
               Option(":", <<Skip, Rule("postfix")>>), Option("=", <<Skip>> \o value)>>
<1>1. \A value : Straight(value) => Straight(rest(value))
  BY SimpleSteps, StraightTuples, StraightJoined, StraightArms, PlainBranches, PlainUses
<1>2. Straight(rest(<<Fail>>)) /\ Straight(rest(<<Rule("expression")>>))
  BY <1>1, SimpleSteps, StraightTuples, PlainUses
<1> HIDE DEF rest
<1>3. Straight(<<Branch("reference" :> <<Skip>> \o rest(<<Fail>>)
                        @@ "readonly" :> <<Skip>> \o rest(<<Rule("expression")>>),
                        rest(<<Rule("expression")>>))>>)
  BY <1>2, SimpleSteps, StraightTuples, StraightJoined, StraightArms
<1>4. Straight(parameter)
  BY <1>3 DEF parameter, rest
<1>5. Straight(generic)
  BY SimpleSteps, StraightTuples, PlainBranches, PlainUses DEF generic
<1> QED
  BY <1>4, <1>5, StraightUses DEF parameters, generics

\* Functions of a class.
LEMMA ClassFun == Straight(class_fun)
<1> DEFINE rest(types) ==
             <<Option("<", <<Skip>> \o types), Option("(", lambda_parameters),
               Option(":", <<Skip, Rule("postfix")>>)>> \o lambda_body
           f == "ID" :> <<Rule("id")>> \o rest(Tail(lambda_generics))
                @@ "constructor" :> <<Rule("id")>> \o rest(<<Fail>>)
           other == <<Rule("operator")>> \o rest(<<Fail>>)
<1>1. ASSUME NEW types, Straight(types)
      PROVE  \A g : Flows(rest(types), 0, g)
  <2>1. Straight(<<Option("<", <<Skip>> \o types), Option("(", lambda_parameters),
                   Option(":", <<Skip, Rule("postfix")>>)>>)
    BY <1>1, SimpleSteps, StraightTuples, StraightJoined, PlainBranches, PlainUses, Lambdas
  <2> QED
    BY <2>1, Bodied
<1>2. \A g : Flows(rest(Tail(lambda_generics)), 0, g) /\ Flows(rest(<<Fail>>), 0, g)
  <2>1. Straight(Tail(lambda_generics)) /\ Straight(<<Fail>>)
    BY SimpleSteps, StraightTuples, Lambdas
  <2> HIDE DEF rest
  <2> QED
    BY <1>1, <2>1
<1> HIDE DEF rest
<1>3. \A g : /\ Turns(<<Rule("id")>> \o rest(Tail(lambda_generics)), 0, g)
             /\ Turns(<<Rule("id")>> \o rest(<<Fail>>), 0, g)
             /\ Turns(<<Rule("operator")>> \o rest(<<Fail>>), 0, g)
  <2>1. Straight(<<Rule("id")>>) /\ Straight(<<Rule("operator")>>)
    BY StraightTuples, PlainUses
  <2> QED
    BY <1>2, <2>1, Bodied, FlowsTurn
<1>4. Good(f, 0, {})
  BY <1>3, GoodArms
<1> HIDE DEF f
<1>5. Plain(Branch(f, other))
  BY <1>3, <1>4, PlainBranches
<1>6. Straight(<<Match({"fun"}), Branch(f, other)>>)
  BY <1>5, SimpleSteps, StraightTuples
<1> QED
  BY <1>6 DEF class_fun, f, rest

\* Members of a class.
LEMMA Members ==
  /\ Straight(class_property(FALSE)) /\ Straight(class_property(TRUE))
  /\ Straight(class_reference) /\ Straight(class_readonly(FALSE))
  /\ Straight(class_readonly(TRUE)) /\ Straight(class_static) /\ Straight(class_export)
  /\ Straight(class_annotation) /\ Straight(class_block)
<1>1. Straight(class_property(FALSE)) /\ Straight(class_property(TRUE))
  <2>1. Plain(Branch(<<>>, <<Match({"="}), Rule("expression")>>))
    BY SimpleSteps, StraightTuples, StraightArms, PlainUses
  <2>2. /\ Plain(Option("=", <<Skip, Rule("expression")>>))
        /\ Plain(Option(":", <<Skip, Rule("postfix")>>))
    BY SimpleSteps, StraightTuples, PlainBranches, PlainUses
  <2> QED
    BY <2>1, <2>2, StraightTuples, PlainUses DEF class_property
<1>2. Straight(class_reference) /\ Straight(class_readonly(FALSE)) /\ Straight(class_readonly(TRUE))
  BY SimpleSteps, StraightTuples, PlainUses DEF class_reference, class_readonly
<1>3. Straight(class_static)
  BY SimpleSteps, StraightTuples, StraightArms, PlainUses DEF class_static
<1>4. Straight(class_export)
  BY SimpleSteps, StraightTuples, StraightArms, PlainUses DEF class_export
<1>5. Straight(class_annotation)
  BY SimpleSteps, StraightTuples, StraightArms, PlainUses DEF class_annotation
<1>6. Straight(class_block)
  BY SimpleSteps, StraightTuples, StraightArms, PlainLoops, PlainUses DEF class_block
<1> QED
  BY <1>1, <1>2, <1>3, <1>4, <1>5, <1>6

\* Classes, annotations and exports.
LEMMA Classes ==
  /\ Straight(heritage) /\ Straight(heritages) /\ Straight(class) /\ Straight(readonly)
  /\ Straight(static) /\ Straight(export(FALSE)) /\ Straight(export(TRUE))
  /\ Straight(note) /\ Straight(notes) /\ Straight(annotation)
<1>1. Straight(heritage) /\ Straight(heritages)
  BY SimpleSteps, StraightTuples, PlainUses, StraightUses DEF heritage, heritages
<1>2. Straight(class)
  BY SimpleSteps, StraightTuples, PlainBranches, PlainUses, Lambdas DEF class
<1>3. Straight(readonly) /\ Straight(static)
  BY SimpleSteps, StraightTuples, PlainUses DEF readonly, static
<1>4. Straight(export(FALSE)) /\ Straight(export(TRUE))
  <2>1. /\ Good("readonly" :> <<Rule("readonly"), Match({";"})>>, 0, {})
        /\ Good("static" :> <<Rule("static")>> @@ "class" :> <<Rule("class")>>, 0, {})
    BY SimpleSteps, StraightTuples, StraightArms, PlainUses
  <2>2. Straight(<<Fail>>) /\ Straight(<<Rule("var_stmt")>>)
    BY SimpleSteps, StraightTuples, PlainUses
  <2> QED
    BY <2>1, <2>2, SimpleSteps, StraightTuples, StraightArms DEF export
<1>5. Straight(note) /\ Straight(notes)
  BY SimpleSteps, StraightTuples, PlainBranches, PlainLoops, PlainUses DEF note, notes
<1>6. Straight(annotation)
  BY SimpleSteps, StraightTuples, StraightArms, PlainUses DEF annotation
<1> QED
  BY <1>1, <1>2, <1>3, <1>4, <1>5, <1>6

\* The rules behind "using", of which a package forgets to look at a result.
LEMMA Packages ==
  LET g == {"using"}
  IN Flows(package, 0, g) /\ Flows(packages, 0, g) /\ Flows(using, 0, g)
<1> DEFINE g == {"using"}
<1>1. 0 \in {0, 1} /\ 0 + 0 = 0 /\ g \in SUBSET Words /\ \A t : g \union ({t} \intersect Words) \in SUBSET Words
  BY DEF Words
<1> HIDE DEF g
<1>2. /\ Fits(Rule("package"), 0, g) /\ Fits(Rule("packages"), 0, g)
      /\ Rule("package").op = "rule" /\ Rule("packages").op = "rule"
  <2>1. "package" \in Rules /\ "packages" \in Rules
    BY RuleNames DEF Names
  <2>2. Needs("package") = g /\ Needs("packages") = g
    BY DEF Needs, g
  <2>3. Sound({}, Rule("package"), 0, g) /\ Sound({}, Rule("packages"), 0, g)
    BY <1>1, <2>1, <2>2 DEF Sound, Rule
  <2> QED
    BY <2>3, NothingIsClosed, Fitting DEF Rule
<1>3. Flows(<<Rule("package")>>, 0, g) /\ Flows(<<Rule("packages")>>, 0, g)
  BY <1>1, <1>2, OneFlows
<1>4. \A h : g \subseteq h => Flows(<<Skip, Careless("expression")>>, 0, h)
  <2> SUFFICES ASSUME NEW h, g \subseteq h
               PROVE  Flows(<<Skip, Careless("expression")>>, 0, h)
    OBVIOUS
  <2>1. "expression" \in Rules /\ Needs("expression") = {}
    BY PlainRules DEF Names
  <2>2. Flows(<<Careless("expression")>>, 0, h)
    BY <1>1, <2>1, GivingBack, OneFlows DEF g
  <2>3. Flows(<<Skip>>, 0, h)
    BY SimpleSteps, StraightTuples, FlowsTurn
  <2>4. Flows(<<Skip>> \o <<Careless("expression")>>, 0, h)
    BY <1>1, <2>2, <2>3, TwoFlow
  <2> QED
    BY <2>4, TupleJoins
<1>5. Fits(Option(":", <<Skip, Careless("expression")>>), 0, g)
      /\ Option(":", <<Skip, Careless("expression")>>).op = "branch"
  <2>1. g \subseteq g \union ({":"} \intersect Words)
    OBVIOUS
  <2>2. Good(":" :> <<Skip, Careless("expression")>>, 0, g)
    BY <1>4, <2>1, FlowsTurn, GoodArms
  <2>3. Turns(<<>>, 0, g)
    BY StraightTuples, FlowsTurn
  <2> QED
    BY <1>1, <2>2, <2>3, BranchFits DEF Option
<1>6. Flows(package, 0, g)
  <2>1. Flows(<<Rule("id")>>, 0, g)
    BY StraightTuples, FlowsTurn, PlainUses
  <2>2. Flows(<<Option(":", <<Skip, Careless("expression")>>)>>, 0, g)
    BY <1>1, <1>5, OneFlows
  <2>3. Flows(<<Rule("id")>> \o <<Option(":", <<Skip, Careless("expression")>>)>>, 0, g)
    BY <1>1, <2>1, <2>2, TwoFlow
  <2> QED
    BY <2>3, TupleJoins DEF package
<1>7. Flows(packages, 0, g)
  <2>1. Flows(<<Skip, Rule("package")>>, 0, g)
    <3>1. Flows(<<Skip>>, 0, g)
      BY SimpleSteps, StraightTuples, FlowsTurn
    <3>2. Flows(<<Skip>> \o <<Rule("package")>>, 0, g)
      BY <1>1, <1>3, <3>1, TwoFlow
    <3> QED
      BY <3>2, TupleJoins
  <2> DEFINE more == Repeat(",", <<Skip, Rule("package")>>)
  <2>2. Fits(more, 0, g) /\ more.op = "repeat"
    <3>1. PICK S : Closed(S) /\ Flow(S, <<Skip, Rule("package")>>, 0, g)
      BY <2>1 DEF Flows
    <3>2. Sound(S, more, 0, g) /\ more.op = "repeat"
      BY <1>1, <3>1 DEF Sound, Repeat
    <3> QED
      BY <3>1, <3>2, Fitting
  <2> HIDE DEF more
  <2>3. Flows(<<more>>, 0, g)
    BY <1>1, <2>2, OneFlows
  <2>4. Flows(<<Rule("package")>> \o <<more>>, 0, g)
    BY <1>1, <1>3, <2>3, TwoFlow
  <2> QED
    BY <2>4, TupleJoins DEF packages, ListOf, more
<1>8. Flows(using, 0, g)
  <2>1. Flows(<<Match({"using"})>>, 0, g) /\ Flows(<<Match({"from"}), Rule("string")>>, 0, g)
    BY SimpleSteps, StraightTuples, FlowsTurn, PlainUses
  <2>2. Flows(<<Match({"using"})>> \o <<Rule("packages")>>, 0, g)
    BY <1>1, <1>3, <2>1, TwoFlow
  <2>3. Flows(<<Match({"using"}), Rule("packages")>>, 0, g)
    BY <2>2, TupleJoins
  <2>4. Flows(<<Match({"using"}), Rule("packages")>> \o <<Match({"from"}), Rule("string")>>, 0, g)
    BY <1>1, <2>1, <2>3, TwoFlow
  <2>5. <<Match({"using"}), Rule("packages")>> \o <<Match({"from"}), Rule("string")>> = using
    BY TupleJoins DEF using
  <2> QED
    BY <2>4, <2>5
<1> QED
  BY <1>6, <1>7, <1>8 DEF g

\* The module, which reaches packages only behind "using".
LEMMA Modules == Straight(module)
<1> DEFINE uses == <<Rule("using"), Match({";"})>>
           f == ";" :> <<Skip>> @@ "using" :> uses
                @@ "@" :> <<Rule("annotation")>> @@ "export" :> <<Rule("export")>>
                @@ "readonly" :> <<Rule("readonly"), Match({";"})>> @@ "class" :> <<Rule("class")>>
<1>1. Flows(uses, 0, {"using"})
  <2>1. Sound({}, Rule("using"), 0, {"using"}) /\ Rule("using").op = "rule"
    BY RuleNames DEF Sound, Rule, Names, Needs, Words
  <2>2. Fits(Rule("using"), 0, {"using"})
    BY <2>1, NothingIsClosed, Fitting
  <2>3. 0 \in {0, 1} /\ 0 + 0 = 0
    OBVIOUS
  <2>4. Flows(<<Rule("using")>>, 0, {"using"})
    BY <2>1, <2>2, <2>3, OneFlows
  <2>5. Flows(<<Match({";"})>>, 0, {"using"})
    BY SimpleSteps, StraightTuples, FlowsTurn
  <2>6. Flows(<<Rule("using")>> \o <<Match({";"})>>, 0, {"using"})
    BY <2>3, <2>4, <2>5, TwoFlow
  <2> QED
    BY <2>6, TupleJoins
<1> HIDE DEF uses
<1>2. Good("using" :> uses, 0, {})
  <2>1. {} \union ({"using"} \intersect Words) = {"using"}
    BY DEF Words
  <2> QED
    BY <1>1, <2>1, FlowsTurn, GoodArms
<1>3. Good(f, 0, {})
  BY <1>2, SimpleSteps, StraightTuples, StraightArms, PlainUses
<1> HIDE DEF f
<1>4. Straight(<<Branch(f, <<Rule("statement")>>)>>)
  BY <1>3, StraightTuples, StraightArms, PlainUses
<1>5. Straight(<<Until("EOF", <<Branch(f, <<Rule("statement")>>)>>), Match({"EOF"})>>)
  BY <1>4, SimpleSteps, StraightTuples, PlainLoops
<1> QED
  BY <1>5 DEF module, f, uses

\* What each name stands for.
LEMMA Entries ==
  /\ Grammar["id"] = id /\ Grammar["number"] = number /\ Grammar["char"] = char
  /\ Grammar["string"] = string /\ Grammar["null"] = null
  /\ Grammar["undefined"] = undefined /\ Grammar["nan"] = nan /\ Grammar["this"] = this
  /\ Grammar["kint"] = kint /\ Grammar["kfloat"] = kfloat /\ Grammar["kchar"] = kchar
  /\ Grammar["kstring"] = kstring /\ Grammar["operator"] = operator
  /\ Grammar["tuple"] = tuple /\ Grammar["pair"] = pair /\ Grammar["object"] = object
  /\ Grammar["parenthesis"] = parenthesis /\ Grammar["lambda"] = lambda
  /\ Grammar["primary"] = primary /\ Grammar["field"] = field /\ Grammar["fields"] = fields
  /\ Grammar["argument"] = argument /\ Grammar["arguments"] = arguments
  /\ Grammar["postfix"] = postfix /\ Grammar["postfix_more"] = postfix_more
  /\ Grammar["prefix"] = prefix /\ Grammar["pow"] = pow
  /\ Grammar["multiplicative"] = multiplicative /\ Grammar["addative"] = addative
  /\ Grammar["shifting"] = shifting /\ Grammar["relational"] = relational
  /\ Grammar["equality"] = equality /\ Grammar["bitwise_and"] = bitwise_and
  /\ Grammar["bitwise_xor"] = bitwise_xor /\ Grammar["bitwise_or"] = bitwise_or
  /\ Grammar["logical_and"] = logical_and /\ Grammar["logical_or"] = logical_or
  /\ Grammar["instanceof"] = instanceof /\ Grammar["conditional"] = conditional
  /\ Grammar["expression"] = expression /\ Grammar["assign"] = assign
  /\ Grammar["if_stmt"] = if_stmt /\ Grammar["entity"] = entity /\ Grammar["set"] = set
  /\ Grammar["var_stmt"] = var_stmt /\ Grammar["for_init"] = for_init
  /\ Grammar["region_for_loop"] = region_for_loop
  /\ Grammar["region_condition"] = region_condition /\ Grammar["for_stmt"] = for_stmt
  /\ Grammar["break_stmt"] = break_stmt /\ Grammar["continue_stmt"] = continue_stmt
  /\ Grammar["catch_stmt"] = catch_stmt /\ Grammar["try_stmt"] = try_stmt
  /\ Grammar["throw_stmt"] = throw_stmt /\ Grammar["return_stmt"] = return_stmt
  /\ Grammar["reference_stmt"] = reference_stmt /\ Grammar["readonly_stmt"] = readonly_stmt
  /\ Grammar["statement"] = statement /\ Grammar["body"] = body
  /\ Grammar["parameter"] = parameter /\ Grammar["parameters"] = parameters
  /\ Grammar["generic"] = generic /\ Grammar["generics"] = generics
  /\ Grammar["class_fun"] = class_fun /\ Grammar["class_property"] = class_property(FALSE)
  /\ Grammar["class_property_static"] = class_property(TRUE)
  /\ Grammar["class_reference"] = class_reference
  /\ Grammar["class_readonly"] = class_readonly(FALSE)
  /\ Grammar["class_readonly_static"] = class_readonly(TRUE)
  /\ Grammar["class_static"] = class_static /\ Grammar["class_export"] = class_export
  /\ Grammar["class_annotation"] = class_annotation /\ Grammar["class_block"] = class_block
  /\ Grammar["heritage"] = heritage /\ Grammar["heritages"] = heritages
  /\ Grammar["class"] = class /\ Grammar["package"] = package
  /\ Grammar["packages"] = packages /\ Grammar["using"] = using
  /\ Grammar["readonly"] = readonly /\ Grammar["static"] = static
  /\ Grammar["export"] = export(FALSE) /\ Grammar["export_noted"] = export(TRUE)
  /\ Grammar["note"] = note /\ Grammar["notes"] = notes
  /\ Grammar["annotation"] = annotation /\ Grammar["module"] = module
<1>1. /\ Grammar["id"] = id /\ Grammar["number"] = number /\ Grammar["char"] = char
      /\ Grammar["string"] = string /\ Grammar["null"] = null
      /\ Grammar["undefined"] = undefined /\ Grammar["nan"] = nan /\ Grammar["this"] = this
  BY DEF Grammar
<1>2. /\ Grammar["kint"] = kint /\ Grammar["kfloat"] = kfloat /\ Grammar["kchar"] = kchar
      /\ Grammar["kstring"] = kstring /\ Grammar["operator"] = operator
      /\ Grammar["tuple"] = tuple /\ Grammar["pair"] = pair /\ Grammar["object"] = object
  BY DEF Grammar
<1>3. /\ Grammar["parenthesis"] = parenthesis /\ Grammar["lambda"] = lambda
      /\ Grammar["primary"] = primary /\ Grammar["field"] = field /\ Grammar["fields"] = fields
      /\ Grammar["argument"] = argument /\ Grammar["arguments"] = arguments
      /\ Grammar["postfix"] = postfix
  BY DEF Grammar
<1>4. /\ Grammar["postfix_more"] = postfix_more /\ Grammar["prefix"] = prefix
      /\ Grammar["pow"] = pow /\ Grammar["multiplicative"] = multiplicative
      /\ Grammar["addative"] = addative /\ Grammar["shifting"] = shifting
      /\ Grammar["relational"] = relational /\ Grammar["equality"] = equality
  BY DEF Grammar
<1>5. /\ Grammar["bitwise_and"] = bitwise_and /\ Grammar["bitwise_xor"] = bitwise_xor
      /\ Grammar["bitwise_or"] = bitwise_or /\ Grammar["logical_and"] = logical_and
      /\ Grammar["logical_or"] = logical_or /\ Grammar["instanceof"] = instanceof
      /\ Grammar["conditional"] = conditional /\ Grammar["expression"] = expression
  BY DEF Grammar
<1>6. /\ Grammar["assign"] = assign /\ Grammar["if_stmt"] = if_stmt
      /\ Grammar["entity"] = entity /\ Grammar["set"] = set /\ Grammar["var_stmt"] = var_stmt
      /\ Grammar["for_init"] = for_init /\ Grammar["region_for_loop"] = region_for_loop
      /\ Grammar["region_condition"] = region_condition
  BY DEF Grammar
<1>7. /\ Grammar["for_stmt"] = for_stmt /\ Grammar["break_stmt"] = break_stmt
      /\ Grammar["continue_stmt"] = continue_stmt /\ Grammar["catch_stmt"] = catch_stmt
      /\ Grammar["try_stmt"] = try_stmt /\ Grammar["throw_stmt"] = throw_stmt
      /\ Grammar["return_stmt"] = return_stmt /\ Grammar["reference_stmt"] = reference_stmt
  BY DEF Grammar
<1>8. /\ Grammar["readonly_stmt"] = readonly_stmt /\ Grammar["statement"] = statement
      /\ Grammar["body"] = body /\ Grammar["parameter"] = parameter
      /\ Grammar["parameters"] = parameters /\ Grammar["generic"] = generic
      /\ Grammar["generics"] = generics /\ Grammar["class_fun"] = class_fun
  BY DEF Grammar
<1>9. /\ Grammar["class_property"] = class_property(FALSE)
      /\ Grammar["class_property_static"] = class_property(TRUE)
      /\ Grammar["class_reference"] = class_reference
      /\ Grammar["class_readonly"] = class_readonly(FALSE)
      /\ Grammar["class_readonly_static"] = class_readonly(TRUE)
      /\ Grammar["class_static"] = class_static /\ Grammar["class_export"] = class_export
      /\ Grammar["class_annotation"] = class_annotation
  BY DEF Grammar
<1>10. /\ Grammar["class_block"] = class_block /\ Grammar["heritage"] = heritage
       /\ Grammar["heritages"] = heritages /\ Grammar["class"] = class
       /\ Grammar["package"] = package /\ Grammar["packages"] = packages
       /\ Grammar["using"] = using /\ Grammar["readonly"] = readonly
  BY DEF Grammar
<1>11. /\ Grammar["static"] = static /\ Grammar["export"] = export(FALSE)
       /\ Grammar["export_noted"] = export(TRUE) /\ Grammar["note"] = note
       /\ Grammar["notes"] = notes /\ Grammar["annotation"] = annotation
       /\ Grammar["module"] = module
  BY DEF Grammar
<1> QED
  BY <1>1, <1>2, <1>3, <1>4, <1>5, <1>6, <1>7, <1>8, <1>9, <1>10, <1>11

\* Every rule owes nothing, behind the word it needs.
LEMMA RulesTurn == \A r \in Rules : Turns(Grammar[r], 0, Needs(r))
<1>1. \A r \in {"id", "number", "char", "string", "null", "undefined", "nan", "this", "kint",
               "kfloat", "kchar", "kstring", "operator", "tuple", "pair", "object",
               "parenthesis", "primary", "field", "fields", "argument", "arguments",
               "postfix", "prefix", "conditional", "expression"} :
        Straight(Grammar[r])
  BY Entries, Leaves, Expressions
<1>2. \A r \in {"pow", "multiplicative", "addative", "shifting", "relational", "equality",
               "bitwise_and", "bitwise_xor", "bitwise_or", "logical_and", "logical_or",
               "instanceof", "assign", "lambda", "postfix_more"} :
        Straight(Grammar[r])
  BY Entries, BinaryOperators, Lambdas, PostfixMore
<1>3. \A r \in {"if_stmt", "entity", "set", "var_stmt", "break_stmt", "continue_stmt",
               "catch_stmt", "try_stmt", "throw_stmt", "return_stmt", "reference_stmt",
               "readonly_stmt", "body", "statement", "for_init", "for_stmt", "parameter",
               "parameters", "generic", "generics"} :
        Straight(Grammar[r])
  BY Entries, SimpleStatements, Statement, Headers, ForStatement, Parameters
<1>4. \A r \in {"class_fun", "class_property", "class_property_static", "class_reference",
               "class_readonly", "class_readonly_static", "class_static", "class_export",
               "class_annotation", "class_block", "heritage", "heritages", "class",
               "readonly", "static", "export", "export_noted", "note", "notes",
               "annotation", "module"} :
        Straight(Grammar[r])
  BY Entries, ClassFun, Members, Classes, Modules
<1>5. \A r \in {"region_condition", "region_for_loop"} : \A g : Turns(Grammar[r], 0, g)
  BY Entries, Headers, FlowsTurn
<1>6. \A r \in {"package", "packages", "using"} : Turns(Grammar[r], 0, Needs(r))
  <2>1. Needs("package") = {"using"} /\ Needs("packages") = {"using"} /\ Needs("using") = {"using"}
    BY DEF Needs
  <2> QED
    BY <2>1, Packages, Entries, FlowsTurn
<1>7. ASSUME NEW r \in Names
      PROVE  \/ Straight(Grammar[r])
             \/ r \in {"region_condition", "region_for_loop", "package", "packages", "using"}
  BY <1>1, <1>2, <1>3, <1>4 DEF Names
<1> QED
  BY <1>5, <1>6, <1>7, RuleNames, FlowsTurn

\* The steps of all rules, and of what they are made of.
RuleSet(r) == CHOOSE S : Closed(S) /\ Arm(S, Grammar[r], 0, Needs(r))
Steps == UNION {RuleSet(r) : r \in Rules}

\* The steps of all rules are sound together.
LEMMA StepsAreSound ==
  /\ Closed(Steps)
  /\ \A r \in Rules : Arm(Steps, Grammar[r], 0, Needs(r))
<1>1. \A r \in Rules : Closed(RuleSet(r)) /\ Arm(RuleSet(r), Grammar[r], 0, Needs(r))
  BY RulesTurn DEF Turns, RuleSet
<1>2. Closed(Steps)
  BY <1>1, UnionIsClosed DEF Steps
<1>3. ASSUME NEW r \in Rules
      PROVE  Arm(Steps, Grammar[r], 0, Needs(r))
  <2>1. RuleSet(r) \subseteq Steps
    BY DEF Steps
  <2> QED
    BY <1>1, <2>1, MoreFlows
<1> QED
  BY <1>2, <1>3
-----------------------------------------------------------------------------
(***************************************************************************)
(* The steps still to take: what they owe and what they have open.         *)
(***************************************************************************)
\* The two steps that the machine makes: what follows the fields behind a "<",
\* and the package's error.
Closing(k)   == [op |-> "closing", keep |-> k]
Unchecked(k) == [op |-> "unchecked", keep |-> k]

\* The steps of the rules, and those that the machine makes itself.
Pool == Steps \union {<<Rule(r), 0, Needs(r)>> : r \in Rules} \union {<<Skip, 0, {}>>}
          \union {<<Closing(k), 1, {"<"}>> : k \in Nat}
          \union {<<Unchecked(k), 0, {"using"}>> : k \in Nat}

\* They are sound, and the rules are courses of them.
LEMMA PoolIsSound ==
  /\ Closed(Pool)
  /\ \A r \in Rules : Arm(Pool, Grammar[r], 0, Needs(r))
<1>1. Steps \subseteq Pool
  BY DEF Pool
<1>2. ASSUME NEW x \in Pool
      PROVE  x = <<x[1], x[2], x[3]>> /\ Sound(Pool, x[1], x[2], x[3])
  <2>1. CASE x \in Steps
    <3>1. x = <<x[1], x[2], x[3]>> /\ Sound(Steps, x[1], x[2], x[3])
      BY <2>1, StepsAreSound DEF Closed
    <3> QED
      BY <1>1, <3>1, MoreSound
  <2>2. ASSUME NEW r \in Rules, x = <<Rule(r), 0, Needs(r)>>
        PROVE  x = <<x[1], x[2], x[3]>> /\ Sound(Pool, x[1], x[2], x[3])
    <3>1. Needs(r) \in SUBSET Words
      BY DEF Needs, Words
    <3>2. Sound(Pool, Rule(r), 0, Needs(r))
      BY <3>1 DEF Sound, Rule
    <3> QED
      BY <2>2, <3>2
  <2>3. CASE x = <<Skip, 0, {}>>
    <3>1. Sound(Pool, Skip, 0, {})
      BY DEF Sound, Skip
    <3> QED
      BY <2>3, <3>1
  <2>4. ASSUME NEW k \in Nat, x = <<Closing(k), 1, {"<"}>> \/ x = <<Unchecked(k), 0, {"using"}>>
        PROVE  x = <<x[1], x[2], x[3]>> /\ Sound(Pool, x[1], x[2], x[3])
    <3>1. Sound(Pool, Closing(k), 1, {"<"}) /\ Sound(Pool, Unchecked(k), 0, {"using"})
      BY DEF Sound, Closing, Unchecked, Words
    <3> QED
      BY <2>4, <3>1
  <2>5. \/ x \in Steps \/ x = <<Skip, 0, {}>>
        \/ \E r \in Rules : x = <<Rule(r), 0, Needs(r)>>
        \/ \E k \in Nat : x = <<Closing(k), 1, {"<"}>> \/ x = <<Unchecked(k), 0, {"using"}>>
    BY DEF Pool
  <2> QED
    BY <2>1, <2>2, <2>3, <2>4, <2>5
<1>3. ASSUME NEW r \in Rules
      PROVE  Arm(Pool, Grammar[r], 0, Needs(r))
  BY <1>1, StepsAreSound, MoreFlows
<1> QED
  BY <1>2, <1>3 DEF Closed

\* A set of natural numbers that is not empty has a least element.
LEMMA Least == ASSUME NEW T, T \subseteq Nat, T # {}
               PROVE  \E x \in T : \A y \in T : x <= y
<1>1. PICK x \in T : \A y \in T : ~(<<y, x>> \in OpToRel(<, Nat))
  BY NatLessThanWellFounded, WFMin
<1>2. \A y \in T : ~(y < x)
  BY <1>1, x \in Nat DEF OpToRel
<1> QED
  BY <1>2

\* What is owed never grows on the way.
LEMMA Falling ==
  ASSUME NEW n \in Nat, NEW f \in [1..n + 1 -> Nat], \A i \in 1..n : f[i + 1] <= f[i]
  PROVE  \A i, j \in 1..n + 1 : i <= j => f[j] <= f[i]
<1> SUFFICES ASSUME NEW i \in 1..n + 1, NEW j \in 1..n + 1, i <= j, ~(f[j] <= f[i])
             PROVE  FALSE
  OBVIOUS
<1> DEFINE T == {x \in 1..n + 1 : i <= x /\ ~(f[x] <= f[i])}
<1>1. T \subseteq Nat /\ j \in T
  OBVIOUS
<1>2. PICK x \in T : \A y \in T : x <= y
  BY <1>1, Least
<1>3. x # i
  BY <1>2
<1>4. x - 1 \in 1..n /\ x - 1 \in 1..n + 1 /\ i <= x - 1 /\ (x - 1) + 1 = x /\ ~(x <= x - 1)
  BY <1>2, <1>3
<1>5. f[x - 1] <= f[i]
  BY <1>2, <1>4
<1>6. f[x] <= f[x - 1]
  BY <1>4
<1>7. f[x] \in Nat /\ f[x - 1] \in Nat /\ f[i] \in Nat
  BY <1>4
<1> QED
  BY <1>2, <1>5, <1>6, <1>7

\* A state is owed at the end of a course no more: somewhere it is given back.
LEMMA GivenBack ==
  ASSUME NEW n \in Nat, NEW f \in [1..n + 1 -> Nat], f[1] # f[n + 1]
  PROVE  \E i \in 1..n : f[i] # f[i + 1]
<1> SUFFICES ASSUME \A i \in 1..n : f[i] = f[i + 1]
             PROVE  FALSE
  OBVIOUS
<1>1. \A i \in 1..n : f[i + 1] <= f[i] /\ f[i] <= f[i + 1]
  <2>1. \A i \in 1..n : f[i] \in Nat /\ f[i] <= f[i]
    OBVIOUS
  <2> QED
    BY <2>1
<1> DEFINE T == {x \in 1..n + 1 : f[x] # f[1]}
<1>2. T \subseteq Nat /\ T # {}
  OBVIOUS
<1>3. PICK x \in T : \A y \in T : x <= y
  BY <1>2, Least
<1>4. x - 1 \in 1..n /\ (x - 1) + 1 = x /\ ~(x <= x - 1) /\ x - 1 \in 1..n + 1
  BY <1>3
<1>5. f[x - 1] = f[1]
  BY <1>3, <1>4
<1> QED
  BY <1>3, <1>4, <1>5

\* A course stays one behind more words.
LEMMA MoreCourse ==
  ASSUME NEW S, NEW q, NEW owed, NEW open, NEW g, NEW h, g \subseteq h,
         Course(S, q, owed, open, g)
  PROVE  Course(S, q, owed, open, h)
<1>1. ASSUME NEW i \in 1..Len(q)
      PROVE  \E k \in SUBSET h : <<q[i], owed[i] - owed[i + 1], k>> \in S
  BY DEF Course
<1> QED
  BY <1>1 DEF Course

\* Step i gives a state back.
Given(owed, i) == owed[i] # owed[i + 1]

\* What is owed falls along a course, by one where a state is given back.
LEMMA CourseFalls ==
  ASSUME NEW S, NEW q, NEW owed, NEW open, NEW g, Course(S, q, owed, open, g)
  PROVE  /\ Len(q) \in Nat
         /\ \A i \in 1..Len(q) + 1 : owed[i] \in Nat /\ \A d \in Depths : open[d][i] \in Nat
         /\ \A i, j \in 1..Len(q) + 1 : i <= j => owed[j] <= owed[i]
         /\ \A i \in 1..Len(q) : Given(owed, i) => owed[i] = owed[i + 1] + 1 /\ owed[i] > 0
<1>1. Len(q) \in Nat
  BY DEF Course
<1>2. owed \in [1..Len(q) + 1 -> Nat]
  BY DEF Course
<1>3. \A i \in 1..Len(q) + 1 : owed[i] \in Nat /\ \A d \in Depths : open[d][i] \in Nat
  BY <1>2 DEF Course
<1>4. ASSUME NEW i \in 1..Len(q)
      PROVE  owed[i + 1] <= owed[i]
  <2>1. owed[i] = owed[i + 1] \/ owed[i] = owed[i + 1] + 1
    BY DEF Course
  <2>2. owed[i] \in Nat /\ owed[i + 1] \in Nat
    BY <1>1, <1>2
  <2> QED
    BY <2>1, <2>2
<1>5. \A i, j \in 1..Len(q) + 1 : i <= j => owed[j] <= owed[i]
  BY <1>1, <1>2, <1>4, Falling
<1>6. ASSUME NEW i \in 1..Len(q), Given(owed, i)
      PROVE  owed[i] = owed[i + 1] + 1 /\ owed[i] > 0
  <2>1. owed[i] = owed[i + 1] + 1
    BY <1>6 DEF Course, Given
  <2>2. owed[i + 1] \in Nat
    BY <1>1, <1>2
  <2> QED
    BY <2>1, <2>2
<1> QED
  BY <1>1, <1>3, <1>5, <1>6

\* At every step where a state is given back, or an error would be kept, no
\* more bodies are open than at any step before it.
Shape(q, owed, open) ==
  /\ Even(q, owed, open)
  /\ \A i \in 1..Len(q) :
       /\ q[i].op # "save"
       /\ Given(owed, i) \/ q[i].op = "unchecked" =>
            \A j \in 1..i : \A d \in Depths : open[d][i] <= open[d][j]

\* p is the steps of q behind the first c of them, and its course that of q.
LeftOver(S, g, q, owed, open, c, p, o, b) ==
  /\ Course(S, p, o, b, g) /\ Shape(p, o, b)
  /\ Len(p) = Len(q) - c
  /\ \A i \in 1..Len(q) - c : p[i] = q[c + i]
  /\ \A i \in 1..Len(q) - c + 1 :
       o[i] = owed[c + i] /\ \A d \in Depths : b[d][i] = open[d][c + i]

\* The end of a course, behind steps that are dropped, is a course.
LEMMA Dropped ==
  ASSUME NEW S, NEW g, NEW q, NEW owed, NEW open, NEW c \in 0..Len(q),
         Course(S, q, owed, open, g), Shape(q, owed, open)
  PROVE  \E o, b : LeftOver(S, g, q, owed, open, c, SubSeq(q, c + 1, Len(q)), o, b)
<1> DEFINE n == Len(q) - c
           p == SubSeq(q, c + 1, Len(q))
           o == [i \in 1..n + 1 |-> owed[c + i]]
           b == [d \in Depths |-> [i \in 1..n + 1 |-> open[d][c + i]]]
<1>1. PICK T : q \in Seq(T)
  BY DEF Course
<1>2. c \in Nat /\ Len(q) \in Nat /\ n \in Nat
  BY <1>1
<1>3. p \in Seq(T) /\ Len(p) = n /\ \A i \in 1..n : p[i] = q[c + i]
  <2>1. \A i \in c + 1..Len(q) : q[i] \in T
    BY <1>1, <1>2
  <2>2. /\ p \in Seq(T) /\ Len(p) = IF c + 1 <= Len(q) THEN Len(q) - (c + 1) + 1 ELSE 0
        /\ \A i \in 1..Len(q) - (c + 1) + 1 : p[i] = q[(c + 1) + i - 1]
    BY <1>2, <2>1, SubSeqProperties
  <2>3. Len(q) - (c + 1) + 1 = n /\ \A i \in 1..n : (c + 1) + i - 1 = c + i
    BY <1>2
  <2>4. (IF c + 1 <= Len(q) THEN Len(q) - (c + 1) + 1 ELSE 0) = n
    BY <1>2
  <2> QED
    BY <2>2, <2>3, <2>4
<1>4. \A i \in 1..n + 1 : o[i] = owed[c + i] /\ \A d \in Depths : b[d][i] = open[d][c + i]
  OBVIOUS
<1>5. \A i \in 1..n + 1 : c + i \in 1..Len(q) + 1
  BY <1>2
<1>6. /\ o \in [1..n + 1 -> Nat] /\ b \in [Depths -> [1..n + 1 -> Nat]]
  <2>1. /\ owed \in [1..Len(q) + 1 -> Nat]
        /\ open \in [Depths -> [1..Len(q) + 1 -> Nat]]
    BY DEF Course
  <2> QED
    BY <1>5, <2>1
<1> HIDE DEF n, p, o, b
<1>7. ASSUME NEW i \in 1..n
      PROVE  /\ c + i \in 1..Len(q) /\ i \in 1..n + 1 /\ i + 1 \in 1..n + 1
             /\ c + (i + 1) = (c + i) + 1
  BY <1>2 DEF n
<1>8. ASSUME NEW i \in 1..n
      PROVE  /\ o[i] = o[i + 1] \/ o[i] = o[i + 1] + 1
             /\ \E h \in SUBSET g : <<p[i], o[i] - o[i + 1], h>> \in S
             /\ \A d \in Depths : b[d][i] = b[d][i + 1] + Turn(p[i], d)
  <2> DEFINE x == c + i
  <2>1. x \in 1..Len(q) /\ i \in 1..n + 1 /\ i + 1 \in 1..n + 1 /\ c + (i + 1) = x + 1
    BY <1>7
  <2>2. p[i] = q[x] /\ o[i] = owed[x] /\ \A d \in Depths : b[d][i] = open[d][x]
    BY <1>3, <1>4, <2>1
  <2>3. o[i + 1] = owed[x + 1] /\ \A d \in Depths : b[d][i + 1] = open[d][x + 1]
    BY <1>4, <2>1
  <2> HIDE DEF x
  <2>4. /\ owed[x] = owed[x + 1] \/ owed[x] = owed[x + 1] + 1
        /\ \E h \in SUBSET g : <<q[x], owed[x] - owed[x + 1], h>> \in S
        /\ \A d \in Depths : open[d][x] = open[d][x + 1] + Turn(q[x], d)
    BY <2>1 DEF Course
  <2> QED
    BY <2>2, <2>3, <2>4
<1>9. Course(S, p, o, b, g)
  BY <1>3, <1>6, <1>8 DEF Course
<1>10. Shape(p, o, b)
  <2>1. Even(p, o, b)
    <3>1. n + 1 \in 1..n + 1 /\ c + (n + 1) = Len(q) + 1
      BY <1>2 DEF n
    <3>2. owed[Len(q) + 1] = 0 /\ \A d \in Depths : open[d][Len(q) + 1] = 0
      BY DEF Shape, Even
    <3> QED
      BY <1>3, <1>4, <3>1, <3>2 DEF Even
  <2>2. ASSUME NEW i \in 1..n
        PROVE  /\ p[i].op # "save"
               /\ Given(o, i) \/ p[i].op = "unchecked" =>
                    \A j \in 1..i : \A d \in Depths : b[d][i] <= b[d][j]
    <3>1. c + i \in 1..Len(q) /\ p[i] = q[c + i]
      BY <1>3, <1>7
    <3>2. Given(o, i) => Given(owed, c + i)
      BY <1>4, <1>7 DEF Given
    <3>3. ASSUME NEW j \in 1..i
          PROVE  j \in 1..n + 1 /\ c + j \in 1..c + i
      BY <1>2
    <3>4. \A d \in Depths : b[d][i] = open[d][c + i]
      BY <1>4, <1>7
    <3>5. \A j \in 1..i : \A d \in Depths : b[d][j] = open[d][c + j]
      BY <1>4, <3>3
    <3> QED
      BY <3>1, <3>2, <3>3, <3>4, <3>5 DEF Shape
  <2> QED
    BY <1>3, <2>1, <2>2 DEF Shape
<1> QED
  BY <1>3, <1>4, <1>9, <1>10 DEF n, p, LeftOver

\* A course that is put before another, with the same bodies open at its ends
\* and wherever it gives a state back.
Loose(S, p, o, b, n, g) ==
  /\ Course(S, p, o, b, g) /\ Even(p, o, b)
  /\ o[1] = n /\ \A d \in Depths : b[d][1] = 0
  /\ \A i \in 1..Len(p) :
       /\ p[i].op # "save"
       /\ Given(o, i) \/ p[i].op = "unchecked" => \A d \in Depths : b[d][i] = 0

\* The course of a rule may be put before others.
LEMMA FlowIsLoose ==
  ASSUME NEW S, NEW p, NEW n, NEW g, Flow(S, p, n, g)
  PROVE  \E o, b : Loose(S, p, o, b, n, g) /\ \A i \in 1..Len(p) : p[i].op # "closing"
BY DEF Flow, Loose, Even, Given

\* The course of p, then q, that the two courses make.
Onward(S, g, p, q, n, o1, o2, b2, owed, open) ==
  /\ Course(S, p \o q, owed, open, g) /\ Shape(p \o q, owed, open)
  /\ Len(p \o q) = Len(p) + Len(q)
  /\ owed[1] = n + o2[1] /\ \A d \in Depths : open[d][1] = b2[d][1]
  /\ \A i \in 1..Len(p) : (p \o q)[i] = p[i] /\ (Given(o1, i) => Given(owed, i))
  /\ \A i \in 1..Len(p) + Len(q) : Given(owed, i) =>
       \/ /\ n = 1 /\ owed[i] = owed[1] /\ \A d \in Depths : open[d][i] = open[d][1]
       \/ \E e \in 1..Len(q) : /\ Given(o2, e) /\ owed[i] = o2[e]
                               /\ \A d \in Depths : open[d][i] = b2[d][e]
  /\ \A i \in 1..Len(p) : Given(owed, i) =>
       owed[i] = owed[1] /\ \A d \in Depths : open[d][i] = open[d][1]
  /\ \A i \in Len(p) + 1..Len(p) + Len(q) : owed[i] <= o2[1]

\* A course put before another one.
LEMMA Prepended ==
  ASSUME NEW S, NEW g, NEW p, NEW q, NEW n \in {0, 1}, NEW o1, NEW b1, NEW o2, NEW b2,
         Loose(S, p, o1, b1, n, g), Course(S, q, o2, b2, g), Shape(q, o2, b2)
  PROVE  \E owed, open : Onward(S, g, p, q, n, o1, o2, b2, owed, open)
<1> DEFINE r == p \o q
           k == Len(p)
           j == Len(q)
<1>1. PICK owed, open : Course(S, r, owed, open, g) /\ Behind(p, q, o1, b1, o2, b2, owed, open)
  BY Joining DEF Loose
<1>2. /\ k \in Nat /\ j \in Nat /\ Len(r) = k + j
      /\ \A i \in 1..k : r[i] = p[i]
      /\ \A i \in 1..j : r[k + i] = q[i]
  BY Joined DEF Course, Loose
<1>3. /\ \A i \in 1..k + 1 : o1[i] \in Nat /\ \A d \in Depths : b1[d][i] \in Nat
      /\ \A i, e \in 1..k + 1 : i <= e => o1[e] <= o1[i]
      /\ \A i \in 1..j + 1 : o2[i] \in Nat /\ \A d \in Depths : b2[d][i] \in Nat
      /\ \A i, e \in 1..j + 1 : i <= e => o2[e] <= o2[i]
  BY CourseFalls DEF Loose
<1>4. /\ \A i \in 1..k + 1 :
           owed[i] = o1[i] + o2[1] /\ \A d \in Depths : open[d][i] = b1[d][i] + b2[d][1]
      /\ \A i \in 1..j + 1 :
           owed[k + i] = o2[i] /\ \A d \in Depths : open[d][k + i] = b2[d][i]
  BY <1>1 DEF Behind
<1>5. /\ o1[1] = n /\ \A d \in Depths : b1[d][1] = 0
      /\ \A i \in 1..k : /\ p[i].op # "save"
                         /\ Given(o1, i) \/ p[i].op = "unchecked" =>
                              \A d \in Depths : b1[d][i] = 0
  BY DEF Loose
<1>6. /\ o2[j + 1] = 0 /\ \A d \in Depths : b2[d][j + 1] = 0
      /\ \A i \in 1..j :
           /\ q[i].op # "save"
           /\ Given(o2, i) \/ q[i].op = "unchecked" =>
                \A e \in 1..i : \A d \in Depths : b2[d][i] <= b2[d][e]
  BY DEF Shape, Even
<1> HIDE DEF r, k, j
<1>7. 1 \in 1..k + 1 /\ 1 \in 1..j + 1 /\ j + 1 \in 1..j + 1 /\ k + (j + 1) = Len(r) + 1
  BY <1>2
<1>8. o2[1] \in Nat /\ \A d \in Depths : b2[d][1] \in Nat
  BY <1>3, <1>7
<1>9. owed[1] = n + o2[1] /\ \A d \in Depths : open[d][1] = b2[d][1]
  <2>1. owed[1] = n + o2[1] /\ \A d \in Depths : open[d][1] = 0 + b2[d][1]
    BY <1>4, <1>5, <1>7
  <2> QED
    BY <1>8, <2>1
<1>10. ASSUME NEW i \in 1..k
       PROVE  /\ i \in 1..k + 1 /\ i + 1 \in 1..k + 1
              /\ Given(o1, i) <=> Given(owed, i)
              /\ Given(owed, i) => /\ n = 1 /\ owed[i] = owed[1]
                                   /\ \A d \in Depths : open[d][i] = open[d][1]
  <2>1. i \in 1..k + 1 /\ i + 1 \in 1..k + 1 /\ 1 <= i
    BY <1>2
  <2>2. owed[i] = o1[i] + o2[1] /\ owed[i + 1] = o1[i + 1] + o2[1]
    BY <1>4, <2>1
  <2>3. o1[i] \in Nat /\ o1[i + 1] \in Nat /\ o1[i] <= n /\ o1[i + 1] <= o1[i]
    <3>1. i <= i + 1
      BY <2>1
    <3> QED
      BY <1>3, <1>5, <1>7, <2>1, <3>1
  <2>4. Given(o1, i) <=> Given(owed, i)
    BY <1>8, <2>2, <2>3 DEF Given
  <2>5. Given(o1, i) => o1[i] = 1 /\ n = 1
    BY <2>3 DEF Given
  <2>6. Given(o1, i) => \A d \in Depths : open[d][i] = 0 + b2[d][1]
    BY <1>4, <1>5, <2>1
  <2> QED
    BY <1>8, <1>9, <2>1, <2>2, <2>4, <2>5, <2>6
<1>11. ASSUME NEW i \in k + 1..k + j
       PROVE  \E e \in 1..j : /\ i = k + e /\ (Given(owed, i) <=> Given(o2, e)) /\ owed[i] = o2[e]
                              /\ \A d \in Depths : open[d][i] = b2[d][e]
                              /\ owed[i] <= o2[1]
  <2> DEFINE e == i - k
  <2>1. /\ e \in 1..j /\ e \in 1..j + 1 /\ e + 1 \in 1..j + 1 /\ 1 <= e
        /\ i = k + e /\ i + 1 = k + (e + 1)
    BY <1>2
  <2> HIDE DEF e
  <2>2. owed[i] = o2[e] /\ owed[i + 1] = o2[e + 1] /\ \A d \in Depths : open[d][i] = b2[d][e]
    BY <1>4, <2>1
  <2>3. o2[e] <= o2[1]
    BY <1>3, <1>7, <2>1
  <2> QED
    BY <2>1, <2>2, <2>3 DEF Given
<1>12. \A i \in 1..k + j : i \in 1..k \/ i \in k + 1..k + j
  BY <1>2
<1>13. Shape(r, owed, open)
  <2>1. Even(r, owed, open)
    BY <1>4, <1>6, <1>7 DEF Even
  <2>2. ASSUME NEW i \in 1..k
        PROVE  /\ r[i].op # "save"
               /\ Given(owed, i) \/ r[i].op = "unchecked" =>
                    \A e \in 1..i : \A d \in Depths : open[d][i] <= open[d][e]
    <3>1. r[i] = p[i]
      BY <1>2
    <3> SUFFICES ASSUME Given(owed, i) \/ r[i].op = "unchecked",
                        NEW e \in 1..i, NEW d \in Depths
                 PROVE  open[d][i] <= open[d][e]
      BY <1>5, <3>1
    <3>2. b1[d][i] = 0
      BY <1>5, <1>10, <3>1
    <3>3. e \in 1..k + 1 /\ i \in 1..k + 1
      BY <1>2
    <3>4. open[d][i] = 0 + b2[d][1] /\ open[d][e] = b1[d][e] + b2[d][1] /\ b1[d][e] \in Nat
      BY <1>3, <1>4, <3>2, <3>3
    <3> QED
      BY <1>8, <3>4
  <2>3. ASSUME NEW i \in k + 1..k + j
        PROVE  /\ r[i].op # "save"
               /\ Given(owed, i) \/ r[i].op = "unchecked" =>
                    \A e \in 1..i : \A d \in Depths : open[d][i] <= open[d][e]
    <3>1. PICK x \in 1..j : /\ i = k + x /\ (Given(owed, i) <=> Given(o2, x))
                            /\ \A d \in Depths : open[d][i] = b2[d][x]
      BY <1>11
    <3>2. r[i] = q[x]
      BY <1>2, <3>1
    <3> SUFFICES ASSUME Given(owed, i) \/ r[i].op = "unchecked",
                        NEW e \in 1..i, NEW d \in Depths
                 PROVE  open[d][i] <= open[d][e]
      BY <1>6, <3>2
    <3>3. \A y \in 1..x : b2[d][x] <= b2[d][y]
      BY <1>6, <3>1, <3>2
    <3>4. CASE e \in 1..k
      <4>1. e \in 1..k + 1 /\ 1 \in 1..x /\ x \in 1..j + 1
        BY <1>2, <3>4
      <4>2. open[d][e] = b1[d][e] + b2[d][1] /\ b1[d][e] \in Nat
        BY <1>3, <1>4, <4>1
      <4>3. b2[d][x] <= b2[d][1] /\ b2[d][x] \in Nat
        BY <1>3, <3>3, <4>1
      <4> QED
        BY <1>8, <3>1, <4>2, <4>3
    <3>5. CASE e \notin 1..k
      <4> DEFINE y == e - k
      <4>1. y \in 1..x /\ y \in 1..j + 1 /\ e = k + y
        BY <1>2, <3>1, <3>5
      <4> HIDE DEF y
      <4>2. open[d][e] = b2[d][y]
        BY <1>4, <4>1
      <4> QED
        BY <3>1, <3>3, <4>1, <4>2
    <3> QED
      BY <3>4, <3>5
  <2> QED
    BY <1>2, <1>12, <2>1, <2>2, <2>3 DEF Shape
<1>14. \A i \in 1..k + j : Given(owed, i) =>
         \/ /\ n = 1 /\ owed[i] = owed[1] /\ \A d \in Depths : open[d][i] = open[d][1]
         \/ \E e \in 1..j : /\ Given(o2, e) /\ owed[i] = o2[e]
                            /\ \A d \in Depths : open[d][i] = b2[d][e]
  BY <1>10, <1>11, <1>12
<1> QED
  <2>1. Course(S, r, owed, open, g)
    BY <1>1
  <2>2. \A i \in 1..k : r[i] = p[i] /\ (Given(o1, i) => Given(owed, i))
    BY <1>2, <1>10
  <2>3. \A i \in 1..k : Given(owed, i) =>
          owed[i] = owed[1] /\ \A d \in Depths : open[d][i] = open[d][1]
    BY <1>10
  <2>4. \A i \in k + 1..k + j : owed[i] <= o2[1]
    BY <1>11
  <2>5. /\ Course(S, p \o q, owed, open, g) /\ Shape(p \o q, owed, open)
        /\ Len(p \o q) = Len(p) + Len(q)
    BY <1>2, <1>13, <2>1 DEF r, k, j
  <2>6. /\ \A i \in 1..Len(p) : (p \o q)[i] = p[i] /\ (Given(o1, i) => Given(owed, i))
        /\ \A i \in 1..Len(p) : Given(owed, i) =>
             owed[i] = owed[1] /\ \A d \in Depths : open[d][i] = open[d][1]
    BY ONLY <2>2, <2>3 DEF r, k
  <2>7. /\ \A i \in 1..Len(p) + Len(q) : Given(owed, i) =>
             \/ /\ n = 1 /\ owed[i] = owed[1]
                /\ \A d \in Depths : open[d][i] = open[d][1]
             \/ \E e \in 1..Len(q) : /\ Given(o2, e) /\ owed[i] = o2[e]
                                     /\ \A d \in Depths : open[d][i] = b2[d][e]
        /\ \A i \in Len(p) + 1..Len(p) + Len(q) : owed[i] <= o2[1]
    BY ONLY <1>14, <2>4 DEF k, j
  <2>8. owed[1] = n + o2[1] /\ \A d \in Depths : open[d][1] = b2[d][1]
    BY <1>9
  <2>9. Onward(S, g, p, q, n, o1, o2, b2, owed, open)
    BY ONLY <2>5, <2>6, <2>7, <2>8 DEF Onward
  <2> QED
    BY ONLY <2>9

\* The states that are saved, and the depths, against what is owed and open:
\* where states were left behind, no state that a step may still restore has
\* fewer bodies counted than are open there.
DepthOf(x, d) == IF d = "loop" THEN x.loop ELSE x.fun
Account(owed, open, n, due, kept, deep, sure) ==
  /\ due \in Nat /\ owed[1] <= due /\ Len(kept) \in Nat /\ Len(kept) <= due
  /\ \A d \in Depths : open[d][1] <= deep[d]
  /\ \A i \in 1..n : Given(owed, i) =>
       \A k \in 1..Len(kept) : owed[i] + (due - owed[1]) <= k =>
         \A d \in Depths : open[d][i] <= DepthOf(kept[k], d)
  /\ sure /\ due = owed[1] =>
       \A d \in Depths :
         /\ deep[d] = open[d][1]
         /\ \A i \in 1..n : Given(owed, i) /\ owed[i] <= Len(kept) =>
              DepthOf(kept[owed[i]], d) = open[d][i]

\* A course, with what is saved and counted by then, that goes on from another.
Follows(owed, open, n, due, kept, sure, o, b, m, due2, kept2, deep2, sure2) ==
  /\ owed[1] \in Nat /\ o[1] \in Nat /\ due2 \in Nat
  /\ Len(kept2) \in Nat /\ Len(kept2) <= due2
  /\ \A i \in 1..m : o[i] \in Nat /\ (Given(o, i) => o[i] > 0)
  /\ o[1] + due <= owed[1] + due2
  /\ Len(kept2) <= Len(kept) /\ \A k \in 1..Len(kept2) : kept2[k] = kept[k]
  /\ sure2 => sure
  /\ \A d \in Depths : b[d][1] <= deep2[d]
  /\ sure2 /\ due2 = o[1] => \A d \in Depths : deep2[d] = b[d][1]
  /\ \A i \in 1..m : Given(o, i) =>
       \/ Len(kept2) < o[i] + (due2 - o[1])
       \/ \E e \in 1..n : /\ Given(owed, e) /\ o[i] = owed[e]
                          /\ \A d \in Depths : b[d][i] = open[d][e]

\* The account is kept when the course, the states and the depths change together.
LEMMA Accounts ==
  ASSUME NEW owed, NEW open, NEW n \in Nat, NEW due, NEW kept, NEW deep, NEW sure,
         NEW o, NEW b, NEW m \in Nat, NEW due2, NEW kept2, NEW deep2, NEW sure2,
         Account(owed, open, n, due, kept, deep, sure),
         Follows(owed, open, n, due, kept, sure, o, b, m, due2, kept2, deep2, sure2)
  PROVE  Account(o, b, m, due2, kept2, deep2, sure2)
<1> USE DEF Follows
<1>1. due \in Nat /\ owed[1] <= due /\ Len(kept) \in Nat
  BY DEF Account
<1>2. o[1] <= due2
  BY <1>1
<1>3. ASSUME NEW i \in 1..m, Given(o, i), NEW k \in 1..Len(kept2),
             o[i] + (due2 - o[1]) <= k, NEW d \in Depths
      PROVE  b[d][i] <= DepthOf(kept2[k], d)
  <2>1. o[i] \in Nat
    OBVIOUS
  <2>2. ~(Len(kept2) < o[i] + (due2 - o[1]))
    BY <1>3, <2>1
  <2>3. PICK e \in 1..n : Given(owed, e) /\ o[i] = owed[e] /\ \A c \in Depths : b[c][i] = open[c][e]
    BY <1>3, <2>2
  <2>4. owed[e] + (due - owed[1]) <= k
    <3> DEFINE x == owed[1]
               y == o[1]
               z == o[i]
    <3>1. x \in Nat /\ y \in Nat /\ z \in Nat /\ k \in Nat /\ due \in Nat /\ due2 \in Nat
      BY <1>1, <2>1
    <3>2. y + due <= x + due2 /\ z + (due2 - y) <= k
      BY <1>3
    <3> HIDE DEF x, y, z
    <3>3. z + (due - x) <= k
      BY ONLY <3>1, <3>2
    <3> QED
      BY <2>3, <3>3 DEF x, z
  <2>5. k \in 1..Len(kept)
    BY <1>1
  <2>6. open[d][e] <= DepthOf(kept[k], d)
    BY <2>3, <2>4, <2>5 DEF Account
  <2> QED
    BY <2>3, <2>6
<1>4. ASSUME sure2, due2 = o[1], NEW d \in Depths
      PROVE  /\ deep2[d] = b[d][1]
             /\ \A i \in 1..m : Given(o, i) /\ o[i] <= Len(kept2) =>
                  DepthOf(kept2[o[i]], d) = b[d][i]
  <2>1. deep2[d] = b[d][1]
    BY <1>4
  <2>2. ASSUME NEW i \in 1..m, Given(o, i), o[i] <= Len(kept2)
        PROVE  DepthOf(kept2[o[i]], d) = b[d][i]
    <3>1. o[i] \in Nat /\ o[i] > 0 /\ due = owed[1]
      BY <1>1, <1>4, <2>2
    <3>2. ~(Len(kept2) < o[i] + (due2 - o[1]))
      BY <1>4, <2>2, <3>1
    <3>3. PICK e \in 1..n : Given(owed, e) /\ o[i] = owed[e] /\ \A c \in Depths : b[c][i] = open[c][e]
      BY <2>2, <3>2
    <3>4. sure
      BY <1>4
    <3>5. owed[e] <= Len(kept)
      BY <1>1, <2>2, <3>1, <3>3
    <3>6. DepthOf(kept[owed[e]], d) = open[d][e]
      BY <3>1, <3>3, <3>4, <3>5 DEF Account
    <3>7. o[i] \in 1..Len(kept2)
      BY <2>2, <3>1
    <3> QED
      BY <3>3, <3>6, <3>7
  <2> QED
    BY <2>1, <2>2
<1> QED
  BY <1>2, <1>3, <1>4 DEF Account

\* Where a rule has still to save a state, what it will do with that is
\* counted already: the state is owed, and given back where the bodies are
\* open that are open now.
Held(q) == q # <<>> /\ Head(q).op = "save"
Line(q) == IF Held(q) THEN Tail(q) ELSE q
Due(q, kept) == IF Held(q) THEN Len(kept) + 1 ELSE Len(kept)
\* Some step, not that of a "<", gives the state back that is to be saved.
Opened(q, owed, open) ==
  /\ \A i \in 1..Len(q) : Given(owed, i) /\ owed[i] = owed[1] =>
       \A d \in Depths : open[d][i] = open[d][1]
  /\ \E i \in 1..Len(q) : Given(owed, i) /\ q[i].op # "closing"

\* The states that are kept and the depths stand to the steps q as the course tells.
Stands(q, owed, open, g, kept, deep, sure, exact) ==
  /\ Course(Pool, Line(q), owed, open, g) /\ Shape(Line(q), owed, open)
  /\ exact => owed[1] = Due(q, kept)
  /\ Account(owed, open, Len(Line(q)), Due(q, kept), kept, deep, sure)
  /\ Held(q) => Opened(Line(q), owed, open)
Standing(q, g, kept, deep, sure, exact) ==
  (\E T : q \in Seq(T)) /\ \E owed, open : Stands(q, owed, open, g, kept, deep, sure, exact)

\* A course has no step that saves.
LEMMA NotHeld ==
  ASSUME NEW q, NEW owed, NEW open, Shape(q, owed, open), \E T : q \in Seq(T)
  PROVE  ~Held(q)
<1> SUFFICES ASSUME Held(q)
             PROVE  FALSE
  OBVIOUS
<1>1. Len(q) \in Nat /\ q # <<>> /\ Head(q) = q[1] /\ 1 \in 1..Len(q)
  BY DEF Held
<1> QED
  BY <1>1 DEF Held, Shape

\* Nothing may be put before any course.
LEMMA EmptyIsLoose ==
  ASSUME NEW S, NEW g
  PROVE  \E o, b : Loose(S, <<>>, o, b, 0, g)
<1>1. PICK T : Closed(T) /\ Flow(T, <<>>, 0, g)
  BY EmptyFlows DEF Flows
<1>2. PICK o, b : Loose(T, <<>>, o, b, 0, g)
  BY <1>1, FlowIsLoose
<1>3. Loose(S, <<>>, o, b, 0, g)
  <2>1. Len(<<>>) = 0 /\ 1..0 = {}
    OBVIOUS
  <2> QED
    BY <1>2, <2>1 DEF Loose, Course, Even
<1> QED
  BY <1>3

\* The same where no state is to be saved, and what the next steps must leave
\* of it: c steps are dropped, and others taken instead that owe n states.
Stood(q, g, kept, deep, sure, exact, owed, open) ==
  /\ Course(Pool, q, owed, open, g) /\ Shape(q, owed, open)
  /\ Account(owed, open, Len(q), Len(kept), kept, deep, sure)
  /\ exact => owed[1] = Len(kept)
Moves(q, kept, sure, exact, owed, open, c, n, kept2, deep2, sure2, exact2) ==
  /\ Len(kept2) \in Nat /\ Len(kept2) <= Len(kept) /\ \A k \in 1..Len(kept2) : kept2[k] = kept[k]
  /\ sure2 => sure
  /\ (n + owed[c + 1]) + Len(kept) <= owed[1] + Len(kept2)
  /\ exact2 => exact /\ n + owed[c + 1] = Len(kept2)
  /\ \A d \in Depths : open[d][c + 1] <= deep2[d]
  /\ sure2 /\ Len(kept2) = n + owed[c + 1] => \A d \in Depths : deep2[d] = open[d][c + 1]
  /\ n = 1 => \E e \in 1..Len(q) : /\ Given(owed, e) /\ owed[e] = 1 + owed[c + 1]
                                   /\ \A d \in Depths : open[d][e] = open[d][c + 1]

\* The parser goes on with p, behind the first c steps.
LEMMA Resumed ==
  ASSUME NEW q, NEW g, NEW kept, NEW deep, NEW sure, NEW exact, NEW owed, NEW open,
         Stood(q, g, kept, deep, sure, exact, owed, open),
         NEW c \in 0..Len(q), NEW p, NEW n \in {0, 1}, \E o, b : Loose(Pool, p, o, b, n, g),
         NEW kept2, NEW deep2, NEW sure2, NEW exact2,
         Moves(q, kept, sure, exact, owed, open, c, n, kept2, deep2, sure2, exact2)
  PROVE  Standing(p \o SubSeq(q, c + 1, Len(q)), g, kept2, deep2, sure2, exact2)
<1> USE DEF Stood, Moves
<1> DEFINE rest == SubSeq(q, c + 1, Len(q))
           r == p \o rest
<1>1. /\ Len(q) \in Nat
      /\ \A i \in 1..Len(q) + 1 : owed[i] \in Nat /\ \A d \in Depths : open[d][i] \in Nat
  BY CourseFalls
<1>2. PICK o2, b2 :
        /\ Course(Pool, rest, o2, b2, g) /\ Shape(rest, o2, b2)
        /\ Len(rest) = Len(q) - c
        /\ \A i \in 1..Len(q) - c + 1 :
             o2[i] = owed[c + i] /\ \A d \in Depths : b2[d][i] = open[d][c + i]
  <2>1. c \in 0..Len(q)
    BY <1>1
  <2>2. \E o2, b2 : LeftOver(Pool, g, q, owed, open, c, SubSeq(q, c + 1, Len(q)), o2, b2)
    BY <2>1, Dropped
  <2>3. PICK o2, b2 : LeftOver(Pool, g, q, owed, open, c, rest, o2, b2)
    BY ONLY <2>2 DEF rest
  <2> HIDE DEF rest
  <2>4. /\ Course(Pool, rest, o2, b2, g) /\ Shape(rest, o2, b2)
        /\ Len(rest) = Len(q) - c
        /\ \A i \in 1..Len(q) - c + 1 :
             o2[i] = owed[c + i] /\ \A d \in Depths : b2[d][i] = open[d][c + i]
    BY ONLY <2>3 DEF LeftOver
  <2> QED
    BY ONLY <2>4
<1>3. PICK o1, b1 : Loose(Pool, p, o1, b1, n, g)
  OBVIOUS
<1> HIDE DEF rest
<1>4. PICK o, b : Onward(Pool, g, p, rest, n, o1, o2, b2, o, b)
  BY <1>2, <1>3, Prepended
<1>5. /\ Course(Pool, r, o, b, g) /\ Shape(r, o, b)
      /\ Len(r) = Len(p) + Len(rest)
      /\ o[1] = n + o2[1] /\ \A d \in Depths : b[d][1] = b2[d][1]
      /\ \A i \in 1..Len(p) + Len(rest) : Given(o, i) =>
           \/ /\ n = 1 /\ o[i] = o[1] /\ \A d \in Depths : b[d][i] = b[d][1]
           \/ \E e \in 1..Len(rest) : /\ Given(o2, e) /\ o[i] = o2[e]
                                      /\ \A d \in Depths : b[d][i] = b2[d][e]
  BY <1>4 DEF Onward, r
<1> HIDE DEF r
<1>6. 1 \in 1..Len(q) - c + 1 /\ c + 1 \in 1..Len(q) + 1 /\ 1 \in 1..Len(q) + 1
  BY <1>1
<1>7. o[1] = n + owed[c + 1] /\ \A d \in Depths : b[d][1] = open[d][c + 1]
  BY <1>2, <1>5, <1>6
<1>8. /\ Len(r) \in Nat
      /\ \A i \in 1..Len(r) + 1 : o[i] \in Nat
      /\ \A i \in 1..Len(r) : Given(o, i) => o[i] > 0
  BY <1>5, CourseFalls
<1>9. ASSUME NEW i \in 1..Len(r), Given(o, i)
      PROVE  \E e \in 1..Len(q) : /\ Given(owed, e) /\ o[i] = owed[e]
                                  /\ \A d \in Depths : b[d][i] = open[d][e]
  <2>1. CASE n = 1 /\ o[i] = o[1] /\ \A d \in Depths : b[d][i] = b[d][1]
    <3>1. PICK e \in 1..Len(q) : /\ Given(owed, e) /\ owed[e] = 1 + owed[c + 1]
                                 /\ \A d \in Depths : open[d][e] = open[d][c + 1]
      BY <2>1
    <3>2. o[i] = owed[e] /\ \A d \in Depths : b[d][i] = open[d][e]
      BY <1>7, <2>1, <3>1
    <3> QED
      BY <3>1, <3>2
  <2>2. ASSUME NEW e \in 1..Len(rest), Given(o2, e), o[i] = o2[e],
               \A d \in Depths : b[d][i] = b2[d][e]
        PROVE  \E x \in 1..Len(q) : /\ Given(owed, x) /\ o[i] = owed[x]
                                    /\ \A d \in Depths : b[d][i] = open[d][x]
    <3> DEFINE x == c + e
    <3>1. /\ x \in 1..Len(q) /\ e \in 1..Len(q) - c + 1 /\ e + 1 \in 1..Len(q) - c + 1
          /\ c + (e + 1) = x + 1
      BY <1>1, <1>2
    <3>2. o2[e] = owed[x] /\ o2[e + 1] = owed[x + 1] /\ \A d \in Depths : b2[d][e] = open[d][x]
      BY <1>2, <3>1
    <3> HIDE DEF x
    <3> QED
      BY <2>2, <3>1, <3>2 DEF Given
  <2> QED
    BY <1>5, <1>9, <2>1, <2>2
<1>10. Account(o, b, Len(r), Len(kept2), kept2, deep2, sure2)
  <2>1. owed[1] \in Nat /\ o[1] \in Nat
    <3>1. 1 \in 1..Len(r) + 1
      BY <1>8
    <3> QED
      BY <1>1, <1>6, <1>8, <3>1
  <2>2. \A i \in 1..Len(r) : o[i] \in Nat /\ (Given(o, i) => o[i] > 0)
    BY <1>8
  <2>3. o[1] + Len(kept) <= owed[1] + Len(kept2)
    BY <1>7
  <2>4. /\ \A d \in Depths : b[d][1] <= deep2[d]
        /\ sure2 /\ Len(kept2) = o[1] => \A d \in Depths : deep2[d] = b[d][1]
    BY <1>7
  <2>5. Len(kept2) <= Len(kept2)
    OBVIOUS
  <2> QED
    <3>1. Follows(owed, open, Len(q), Len(kept), kept, sure,
                  o, b, Len(r), Len(kept2), kept2, deep2, sure2)
      BY <1>9, <2>1, <2>2, <2>3, <2>4, <2>5 DEF Follows
    <3> QED
      BY ONLY <1>1, <1>8, <3>1, Accounts, Account(owed, open, Len(q), Len(kept), kept, deep, sure)
<1>11. \E T : r \in Seq(T)
  BY <1>5 DEF Course
<1>12. ~Held(r)
  BY <1>5, <1>11, NotHeld
<1>13. Stands(r, o, b, g, kept2, deep2, sure2, exact2)
  BY <1>5, <1>7, <1>10, <1>12 DEF Stands, Line, Due
<1> QED
  BY <1>11, <1>13 DEF Standing, r, rest

\* A rule that saves a state first.
LEMMA SavedFirst ==
  ASSUME NEW q, NEW g, NEW kept, NEW deep, NEW sure, NEW owed, NEW open,
         Course(Pool, q, owed, open, g), Shape(q, owed, open),
         Account(owed, open, Len(q), Len(kept), kept, deep, sure),
         NEW exact, exact => owed[1] = Len(kept),
         1 \in 1..Len(q), owed[1] = owed[2], \A d \in Depths : open[d][1] = open[d][2],
         NEW p, Saving(Pool, p, 0, g)
  PROVE  Standing(p \o SubSeq(q, 2, Len(q)), g, kept, deep, sure, exact)
<1> DEFINE rest == SubSeq(q, 2, Len(q))
<1>1. /\ Len(q) \in Nat
      /\ \A i \in 1..Len(q) + 1 : owed[i] \in Nat /\ \A d \in Depths : open[d][i] \in Nat
  BY CourseFalls
<1>2. PICK o2, b2 :
        /\ Course(Pool, rest, o2, b2, g) /\ Shape(rest, o2, b2)
        /\ Len(rest) = Len(q) - 1
        /\ \A i \in 1..Len(q) - 1 + 1 :
             o2[i] = owed[1 + i] /\ \A d \in Depths : b2[d][i] = open[d][1 + i]
  <2>1. 1 \in 0..Len(q) /\ 1 + 1 = 2
    BY <1>1
  <2>2. SubSeq(q, 2, Len(q)) = SubSeq(q, 1 + 1, Len(q))
    BY <2>1
  <2>3. \E o2, b2 : LeftOver(Pool, g, q, owed, open, 1, SubSeq(q, 1 + 1, Len(q)), o2, b2)
    BY <2>1, Dropped
  <2> QED
    BY <2>2, <2>3 DEF LeftOver
<1>3. PICK s : p = <<Save>> \o s /\ Flow(Pool, s, 1, g)
  BY DEF Saving
<1>4. PICK o1, b1 : Loose(Pool, s, o1, b1, 1, g) /\ \A i \in 1..Len(s) : s[i].op # "closing"
  BY <1>3, FlowIsLoose
<1> DEFINE r == s \o rest
<1> HIDE DEF rest
<1>5. PICK o, b : Onward(Pool, g, s, rest, 1, o1, o2, b2, o, b)
  <2>1. 1 \in {0, 1}
    OBVIOUS
  <2> QED
    BY <1>2, <1>4, <2>1, Prepended
<1>6. /\ Course(Pool, r, o, b, g) /\ Shape(r, o, b)
      /\ Len(r) = Len(s) + Len(rest)
      /\ o[1] = 1 + o2[1] /\ \A d \in Depths : b[d][1] = b2[d][1]
      /\ \A i \in 1..Len(s) : r[i] = s[i] /\ (Given(o1, i) => Given(o, i))
      /\ \A i \in 1..Len(s) + Len(rest) : Given(o, i) =>
           \/ /\ 1 = 1 /\ o[i] = o[1] /\ \A d \in Depths : b[d][i] = b[d][1]
           \/ \E e \in 1..Len(rest) : /\ Given(o2, e) /\ o[i] = o2[e]
                                  /\ \A d \in Depths : b[d][i] = b2[d][e]
      /\ \A i \in 1..Len(s) : Given(o, i) =>
           o[i] = o[1] /\ \A d \in Depths : b[d][i] = b[d][1]
      /\ \A i \in Len(s) + 1..Len(s) + Len(rest) : o[i] <= o2[1]
  BY <1>5 DEF Onward, r
<1> HIDE DEF r
<1>7. 1 \in 1..Len(q) - 1 + 1 /\ 1 \in 1..Len(q) + 1 /\ 1 + 1 = 2 /\ 2 \in 1..Len(q) + 1
  BY <1>1
<1>8. o2[1] = owed[1] /\ \A d \in Depths : b2[d][1] = open[d][1]
  BY <1>2, <1>7
<1>9. o[1] = 1 + owed[1] /\ owed[1] \in Nat /\ \A d \in Depths : b[d][1] = open[d][1]
  BY <1>1, <1>6, <1>7, <1>8
<1>10. /\ Len(r) \in Nat
       /\ \A i \in 1..Len(r) + 1 : o[i] \in Nat
       /\ \A i \in 1..Len(r) : Given(o, i) => o[i] > 0
  BY <1>6, CourseFalls
<1>11. Len(kept) \in Nat
  BY DEF Account
<1>12. ASSUME NEW i \in 1..Len(r), Given(o, i)
       PROVE  \/ Len(kept) < o[i] + ((Len(kept) + 1) - o[1])
              \/ \E e \in 1..Len(q) : /\ Given(owed, e) /\ o[i] = owed[e]
                                      /\ \A d \in Depths : b[d][i] = open[d][e]
  <2>1. CASE o[i] = o[1]
    BY <1>9, <1>11, <2>1
  <2>2. ASSUME NEW e \in 1..Len(rest), Given(o2, e), o[i] = o2[e],
               \A d \in Depths : b[d][i] = b2[d][e]
        PROVE  \E x \in 1..Len(q) : /\ Given(owed, x) /\ o[i] = owed[x]
                                    /\ \A d \in Depths : b[d][i] = open[d][x]
    <3> DEFINE x == 1 + e
    <3>1. /\ x \in 1..Len(q) /\ e \in 1..Len(q) - 1 + 1 /\ e + 1 \in 1..Len(q) - 1 + 1
          /\ 1 + (e + 1) = x + 1
      BY <1>1, <1>2
    <3>2. o2[e] = owed[x] /\ o2[e + 1] = owed[x + 1] /\ \A d \in Depths : b2[d][e] = open[d][x]
      BY <1>2, <3>1
    <3> HIDE DEF x
    <3> QED
      BY <2>2, <3>1, <3>2 DEF Given
  <2> QED
    BY <1>6, <1>12, <2>1, <2>2
<1>13. Account(o, b, Len(r), Len(kept) + 1, kept, deep, sure)
  <2>1. /\ Len(kept) + 1 \in Nat /\ Len(kept) <= Len(kept) + 1 /\ Len(kept) <= Len(kept)
        /\ o[1] + Len(kept) <= owed[1] + (Len(kept) + 1) /\ o[1] \in Nat
    BY <1>9, <1>11
  <2>2. \A i \in 1..Len(r) : o[i] \in Nat /\ (Given(o, i) => o[i] > 0)
    BY <1>10
  <2>3. \A d \in Depths : b[d][1] <= deep[d]
    BY <1>9 DEF Account
  <2>4. sure /\ Len(kept) + 1 = o[1] => \A d \in Depths : deep[d] = b[d][1]
    <3>1. Len(kept) + 1 = o[1] => Len(kept) = owed[1]
      BY <1>9, <1>11
    <3> QED
      BY <1>9, <3>1 DEF Account
  <2>5. (sure => sure) /\ \A k \in 1..Len(kept) : kept[k] = kept[k]
    OBVIOUS
  <2> QED
    <3>1. Follows(owed, open, Len(q), Len(kept), kept, sure,
                  o, b, Len(r), Len(kept) + 1, kept, deep, sure)
      BY <1>9, <1>11, <1>12, <2>1, <2>2, <2>3, <2>4, <2>5 DEF Follows
    <3> QED
      BY ONLY <1>1, <1>10, <3>1, Accounts, Account(owed, open, Len(q), Len(kept), kept, deep, sure)
<1>14. Opened(r, o, b)
  <2>1. ASSUME NEW i \in 1..Len(r), Given(o, i), o[i] = o[1], NEW d \in Depths
        PROVE  b[d][i] = b[d][1]
    <3>1. CASE i \in 1..Len(s)
      BY <1>6, <2>1, <3>1
    <3>2. CASE i \notin 1..Len(s)
      <4>1. Len(s) \in Nat
        BY <1>4, CourseFalls DEF Loose
      <4>2. i \in Len(s) + 1..Len(s) + Len(rest)
        BY <1>6, <1>10, <3>2, <4>1
      <4>3. o[i] <= owed[1]
        BY <1>6, <1>8, <4>2
      <4> QED
        BY <1>9, <2>1, <4>3
    <3> QED
      BY <3>1, <3>2
  <2>2. PICK i \in 1..Len(s) : o1[i] # o1[i + 1]
    <3>1. Len(s) \in Nat /\ o1 \in [1..Len(s) + 1 -> Nat] /\ o1[1] = 1 /\ o1[Len(s) + 1] = 0
      BY <1>4, CourseFalls DEF Loose, Course, Even
    <3>2. o1[1] # o1[Len(s) + 1]
      BY <3>1
    <3> QED
      BY <3>1, <3>2, GivenBack
  <2>3. i \in 1..Len(r) /\ Given(o, i) /\ r[i].op # "closing"
    <3>1. Len(s) \in Nat /\ Len(rest) \in Nat
      BY <1>2, <1>4, CourseFalls DEF Loose
    <3> QED
      BY <1>4, <1>6, <2>2, <3>1 DEF Given
  <2> QED
    BY <2>1, <2>3 DEF Opened
<1>15. /\ \E T : p \o rest \in Seq(T)
       /\ p \o rest # <<>> /\ Head(p \o rest) = Save /\ Tail(p \o rest) = r
  <2>1. PICK T1 : s \in Seq(T1)
    BY <1>4 DEF Loose, Course
  <2>2. PICK T2 : rest \in Seq(T2)
    BY <1>2 DEF Course
  <2> DEFINE T == T1 \union T2 \union {Save}
  <2>3. s \in Seq(T) /\ rest \in Seq(T) /\ <<Save>> \in Seq(T)
    BY <2>1, <2>2
  <2> HIDE DEF T
  <2>4. p \o rest = <<Save>> \o r
    BY <1>3, <2>3, ConcatAssociative DEF r
  <2>5. r \in Seq(T)
    BY <2>3 DEF r
  <2>6. <<Save>> \o r \in Seq(T) /\ <<Save>> \o r # <<>> /\ Head(<<Save>> \o r) = Save
    BY <2>3, <2>5
  <2>7. Tail(<<Save>> \o r) = r
    BY <2>3, <2>5
  <2> QED
    BY <2>4, <2>6, <2>7
<1>16. Held(p \o rest)
  BY <1>15 DEF Held, Save
<1>17. exact => o[1] = Len(kept) + 1
  BY <1>9, <1>11
<1>18. Line(p \o rest) = r /\ Due(p \o rest, kept) = Len(kept) + 1
  BY <1>15, <1>16 DEF Line, Due
<1>19. Stands(p \o rest, o, b, g, kept, deep, sure, exact)
  BY <1>6, <1>13, <1>14, <1>17, <1>18 DEF Stands
<1> QED
  BY <1>15, <1>19 DEF Standing, rest
-----------------------------------------------------------------------------
(***************************************************************************)
(* The tokens, and the types of the machine.                               *)
(***************************************************************************)
\* The operators of the language, by their length.
Ones == {".", ":", "\\", "+", "-", "*", "/", "%", "&", "|", "<", ">", "!", "="}
Twos == {"\\=", "/=", "+=", "%=", "-=", "->", "*=", "**", "&=", "&&", "|=", "||", "<=", "<<",
         ">=", ">>", "!=", "=="}
Threes == {"**=", "<<=", ">>="}

\* The operators, by size.
LEMMA BySize == Operators = Ones \union Twos \union Threes
BY SMT DEF Ones, Twos, Threes, Operators, Dot, Colon, Backslash, Plus, Minus, Star, Slash,
       Percent, And, Or, Lt, Gt, Not, Eq

\* How the operators of one character are spelled.
LEMMA OneSpelled == \A t \in Ones : t \in Operators /\ Spelling[t] = <<t>>
BY SMTT(60) DEF Ones, Spelling, Operators, Dot, Colon, Backslash, Plus, Minus, Star, Slash,
       Percent, And, Or, Lt, Gt, Not, Eq

\* Those of two begin with one of them.
LEMMA TwoSpelled == \A t \in Twos : \E a \in Ones : \E b : Spelling[t] = <<a, b>>
<1>1. /\ Spelling["\\="] = <<"\\", "=">>  /\ Spelling["/="] = <<"/", "=">>
      /\ Spelling["+="] = <<"+", "=">>    /\ Spelling["%="] = <<"%", "=">>
      /\ Spelling["-="] = <<"-", "=">>    /\ Spelling["->"] = <<"-", ">">>
      /\ Spelling["*="] = <<"*", "=">>    /\ Spelling["**"] = <<"*", "*">>
      /\ Spelling["&="] = <<"&", "=">>    /\ Spelling["&&"] = <<"&", "&">>
      /\ Spelling["|="] = <<"|", "=">>    /\ Spelling["||"] = <<"|", "|">>
      /\ Spelling["<="] = <<"<", "=">>    /\ Spelling["<<"] = <<"<", "<">>
      /\ Spelling[">="] = <<">", "=">>    /\ Spelling[">>"] = <<">", ">">>
      /\ Spelling["!="] = <<"!", "=">>    /\ Spelling["=="] = <<"=", "=">>
  BY SMTT(60) DEF Spelling, Operators, Dot, Colon, Backslash, Plus, Minus, Star, Slash, Percent,
         And, Or, Lt, Gt, Not, Eq
<1>2. {"\\", "/", "+", "%", "-", "*", "&", "|", "<", ">", "!", "="} \subseteq Ones
  BY DEF Ones
<1> QED
  BY <1>1, <1>2, ZenonT(60) DEF Twos

\* So do those of three.
LEMMA ThreeSpelled == \A t \in Threes : \E a \in Ones : \E b, c : Spelling[t] = <<a, b, c>>
<1>1. /\ Spelling["**="] = <<"*", "*", "=">>
      /\ Spelling["<<="] = <<"<", "<", "=">>
      /\ Spelling[">>="] = <<">", ">", "=">>
  BY SMTT(60) DEF Spelling, Operators, Dot, Colon, Backslash, Plus, Minus, Star, Slash, Percent,
         And, Or, Lt, Gt, Not, Eq
<1>2. {"*", "<", ">"} \subseteq Ones
  BY DEF Ones
<1> QED
  BY <1>1, <1>2, ZenonT(60) DEF Threes

\* An operator has one to three characters, and its first one is an operator.
LEMMA OperatorSizes ==
  /\ \A t \in Operators : Len(Spelling[t]) \in 1..3
  /\ \A c \in Characters : c \in Operators /\ Spelling[c] = <<c>>
  /\ Characters \subseteq Operators
<1>1. \A t \in Ones : Len(Spelling[t]) = 1 /\ Spelling[t][1] = t
  <2> SUFFICES ASSUME NEW t \in Ones
               PROVE  Len(Spelling[t]) = 1 /\ Spelling[t][1] = t
    OBVIOUS
  <2>1. Spelling[t] = <<t>>
    BY OneSpelled
  <2> QED
    BY <2>1
<1>2. \A t \in Twos : Len(Spelling[t]) = 2 /\ Spelling[t][1] \in Ones
  BY TwoSpelled
<1>3. \A t \in Threes : Len(Spelling[t]) = 3 /\ Spelling[t][1] \in Ones
  BY ThreeSpelled
<1>4. Characters \subseteq Ones
  BY <1>1, <1>2, <1>3, BySize DEF Characters
<1> QED
  BY <1>1, <1>2, <1>3, <1>4, BySize, OneSpelled

\* Other tokens the parser asks for are no operators.
LEMMA NoOperators == Operators \intersect {"EOF", "using"} = {}
BY BySize DEF Ones, Twos, Threes

\* The longest operator is among those there are.
LEMMA LongestIsOne ==
  ASSUME NEW T, T \subseteq Operators, T # {}
  PROVE  Longest(T) \in T
<1> DEFINE size(t) == Len(Spelling[t])
<1>1. \A t \in T : size(t) \in 1..3
  BY OperatorSizes
<1> HIDE DEF size
<1>2. \E t \in T : \A u \in T : size(u) <= size(t)
  <2>1. CASE \E t \in T : size(t) = 3
    BY <1>1, <2>1
  <2>2. CASE (\A t \in T : size(t) # 3) /\ \E t \in T : size(t) = 2
    BY <1>1, <2>2
  <2>3. CASE \A t \in T : size(t) # 3 /\ size(t) # 2
    BY <1>1, <2>3
  <2> QED
    BY <2>1, <2>2, <2>3
<1> QED
  BY <1>2 DEF Longest, size
-----------------------------------------------------------------------------
\* A saved state (not_syntax_save), and the types of the machine.
Place == [at : 1..Len(source), cut : BOOLEAN, fun : Nat, loop : Nat]
Types ==
  /\ text \in Texts
  /\ \E T : source \in Seq(T)
  /\ \A i \in DOMAIN source : source[i] \notin Longer
  /\ at \in 1..Len(source) + 1
  /\ {cut, errors, holes} \subseteq BOOLEAN
  /\ fun_depth \in Nat /\ loop_depth \in Nat
  /\ saved \in Seq(Place)
  /\ leaves \in Seq(1..Len(source))
  /\ verdict \in {"parsing", "accepted", "rejected"}

\* The token at the current place, if it is known, lies in what was read.
LEMMA TokenFacts ==
  ASSUME Types, Known
  PROVE  /\ at \in 1..Len(source) /\ Len(source) \in Nat
         /\ Width(Token) \in Nat /\ at + Width(Token) <= Len(source) + 1
         /\ {Token} \intersect Words \subseteq Units
<1>1. PICK T : source \in Seq(T)
  BY DEF Types
<1>2. Len(source) \in Nat /\ at \in Nat /\ at >= 1
  BY <1>1 DEF Types
<1>3. at \in 1..Len(source)
  <2> SUFFICES ASSUME at > Len(source)
               PROVE  FALSE
    BY <1>2
  <2>1. SubSeq(source, at, Len(source)) = <<>>
    BY <1>1, <1>2
  <2> QED
    BY <2>1 DEF Known, Ahead
<1>4. /\ Ahead \in Seq(T) /\ Len(Ahead) = Len(source) - at + 1 /\ Len(Ahead) \in Nat /\ Len(Ahead) >= 1
      /\ Head(Ahead) = source[at] /\ Ahead[1] = source[at]
  <2>1. \A i \in at..Len(source) : source[i] \in T
    BY <1>1, <1>2
  <2>2. /\ Ahead \in Seq(T) /\ Len(Ahead) = IF at <= Len(source) THEN Len(source) - at + 1 ELSE 0
        /\ \A i \in 1..Len(source) - at + 1 : Ahead[i] = source[at + i - 1]
    BY <1>2, <2>1, SubSeqProperties DEF Ahead
  <2>3. Len(Ahead) = Len(source) - at + 1 /\ 1 \in 1..Len(source) - at + 1 /\ at + 1 - 1 = at
    BY <1>2, <1>3, <2>2
  <2>4. Ahead[1] = source[at]
    BY <2>2, <2>3
  <2>5. Ahead # <<>> /\ Head(Ahead) = Ahead[1]
    BY <2>2, <2>3
  <2> QED
    BY <1>2, <1>3, <2>2, <2>3, <2>4, <2>5
<1>5. source[at] \in Units /\ source[at] \notin Longer
  BY <1>1, <1>3 DEF Units, Types
<1>6. CASE cut
  <2>1. Token = ">"
    BY <1>6 DEF Token
  <2>2. ">" \in Operators /\ Len(Spelling[">"]) = 1
    <3>1. ">" \in Ones
      BY DEF Ones
    <3>2. ">" \in Operators /\ Spelling[">"] = <<">">>
      BY <3>1, OneSpelled
    <3> QED
      BY <3>2
  <2>3. ">" \notin Words /\ ">" # "EOF"
    BY DEF Words
  <2>4. Width(Token) = 1
    BY <2>1, <2>2, <2>3 DEF Width, Size
  <2> QED
    BY <1>2, <1>3, <2>1, <2>3, <2>4
<1>7. CASE ~cut /\ source[at] \in Characters
  <2>1. Token = Longest(OperatorsAt(Ahead))
    BY <1>4, <1>7 DEF Token
  <2>2. OperatorsAt(Ahead) \subseteq Operators
    BY DEF OperatorsAt
  <2>3. source[at] \in OperatorsAt(Ahead)
    <3>1. source[at] \in Operators /\ Spelling[source[at]] = <<source[at]>>
      BY <1>7, OperatorSizes
    <3>2. Len(<<source[at]>>) = 1 /\ <<source[at]>>[1] = source[at]
      OBVIOUS
    <3>3. StartsWith(Ahead, <<source[at]>>)
      BY <1>4, <3>2 DEF StartsWith
    <3> QED
      BY <3>1, <3>3 DEF OperatorsAt
  <2>4. Token \in OperatorsAt(Ahead)
    BY <2>1, <2>2, <2>3, LongestIsOne
  <2>5. Token \in Operators /\ StartsWith(Ahead, Spelling[Token]) /\ Len(Spelling[Token]) \in 1..3
    BY <2>4, OperatorSizes DEF OperatorsAt
  <2>6. Width(Token) = Len(Spelling[Token])
    BY <2>5, NoOperators DEF Width, Size
  <2>7. Len(Spelling[Token]) <= Len(source) - at + 1
    BY <1>4, <2>5 DEF StartsWith
  <2>8. {Token} \intersect Words \subseteq Units
    <3>1. Token # "using"
      BY <2>5, NoOperators
    <3>2. Token = "<" => source[at] = "<"
      <4> SUFFICES ASSUME Token = "<"
                   PROVE  source[at] = "<"
        OBVIOUS
      <4>1. "<" \in Ones
        BY DEF Ones
      <4>2. Spelling["<"] = <<"<">> /\ Len(<<"<">>) = 1 /\ <<"<">>[1] = "<"
        BY <4>1, OneSpelled
      <4>3. \A i \in 1..1 : Ahead[i] = <<"<">>[i]
        BY <2>5, <4>2 DEF StartsWith
      <4> QED
        BY <1>4, <4>2, <4>3
    <3> QED
      BY <1>5, <3>1, <3>2 DEF Words
  <2> QED
    BY <1>2, <1>3, <2>5, <2>6, <2>7, <2>8
<1>8. CASE ~cut /\ source[at] \notin Characters
  <2>1. Token = source[at]
    BY <1>4, <1>8 DEF Token
  <2>2. Token \notin Operators
    BY <1>5, <1>8, <2>1 DEF Longer
  <2>3. Width(Token) \in {0, 1}
    BY <2>2 DEF Width, Size
  <2> QED
    BY <1>2, <1>3, <1>5, <2>1, <2>3
<1> QED
  BY <1>6, <1>7, <1>8
-----------------------------------------------------------------------------
(***************************************************************************)
(* What the first step of a course may do.                                 *)
(***************************************************************************)
\* The first step of a course, what it owes and what is owed behind it.
First(q, g, owed, open, n, h) ==
  /\ Len(q) \in Nat /\ 1 \in 1..Len(q) /\ q[1] = Head(q)
  /\ Tail(q) = SubSeq(q, 2, Len(q))
  /\ h \subseteq g /\ <<Head(q), n, h>> \in Pool /\ Sound(Pool, Head(q), n, h)
  /\ owed[1] \in Nat /\ owed[2] \in Nat /\ owed[1] = n + owed[2]
  /\ \A d \in Depths : /\ open[d][1] \in Nat /\ open[d][2] \in Nat
                       /\ open[d][1] = open[d][2] + Turn(Head(q), d)

\* A step that saves nothing is sound, and stands at the head of a course.
LEMMA FirstStep ==
  ASSUME NEW q, NEW g, NEW kept, NEW deep, NEW sure, NEW exact,
         Standing(q, g, kept, deep, sure, exact), q # <<>>, Head(q).op # "save"
  PROVE  \E owed, open : \E n \in {0, 1} : \E h :
           Stood(q, g, kept, deep, sure, exact, owed, open) /\ First(q, g, owed, open, n, h)
<1>1. PICK owed, open : Stands(q, owed, open, g, kept, deep, sure, exact)
  BY DEF Standing
<1>2. ~Held(q)
  BY DEF Held
<1>3. Stood(q, g, kept, deep, sure, exact, owed, open)
  BY <1>1, <1>2 DEF Stood, Stands, Line, Due
<1>4. PICK T : q \in Seq(T)
  BY DEF Standing
<1>5. Len(q) \in Nat /\ 1 \in 1..Len(q) /\ q[1] = Head(q) /\ Tail(q) = SubSeq(q, 2, Len(q))
  BY <1>4
<1>6. /\ owed[1] = owed[1 + 1] \/ owed[1] = owed[1 + 1] + 1
      /\ \E h \in SUBSET g : <<q[1], owed[1] - owed[1 + 1], h>> \in Pool
      /\ \A d \in Depths : open[d][1] = open[d][1 + 1] + Turn(q[1], d)
  BY <1>3, <1>5 DEF Stood, Course
<1>7. /\ owed[1] \in Nat /\ owed[2] \in Nat
      /\ \A d \in Depths : open[d][1] \in Nat /\ open[d][2] \in Nat
  <2>1. 1 \in 1..Len(q) + 1 /\ 2 \in 1..Len(q) + 1
    BY <1>5
  <2>2. \A i \in 1..Len(q) + 1 : owed[i] \in Nat /\ \A d \in Depths : open[d][i] \in Nat
    BY <1>3, CourseFalls DEF Stood
  <2> QED
    BY <2>1, <2>2
<1>8. 1 + 1 = 2
  OBVIOUS
<1>9. owed[1] = owed[2] \/ owed[1] = owed[2] + 1
  BY <1>6, <1>8
<1>10. PICK n \in {0, 1} : owed[1] - owed[2] = n /\ owed[1] = n + owed[2]
  <2>1. CASE owed[1] = owed[2]
    BY <1>7, <2>1
  <2>2. CASE owed[1] = owed[2] + 1
    BY <1>7, <2>2
  <2> QED
    BY <1>9, <2>1, <2>2
<1>11. PICK h \in SUBSET g : <<Head(q), n, h>> \in Pool
  BY <1>5, <1>6, <1>8, <1>10
<1>12. Sound(Pool, Head(q), n, h)
  <2> DEFINE x == <<Head(q), n, h>>
  <2>1. x \in Pool /\ x[1] = Head(q) /\ x[2] = n /\ x[3] = h
    BY <1>11
  <2> HIDE DEF x
  <2>2. Sound(Pool, x[1], x[2], x[3])
    BY <2>1, PoolIsSound DEF Closed
  <2> QED
    BY <2>1, <2>2
<1>13. \A d \in Depths : open[d][1] = open[d][2] + Turn(Head(q), d)
  BY <1>5, <1>6, <1>8
<1>14. First(q, g, owed, open, n, h)
  BY <1>5, <1>7, <1>10, <1>11, <1>12, <1>13 DEF First
<1> QED
  BY <1>3, <1>14

\* What a loose course of n states, put in the place of a step that owes n,
\* leaves of the states and the depths.
LEMMA Turned ==
  ASSUME NEW q, NEW g, NEW kept, NEW deep, NEW sure, NEW exact, NEW owed, NEW open,
         NEW n \in {0, 1}, NEW h,
         Stood(q, g, kept, deep, sure, exact, owed, open), First(q, g, owed, open, n, h),
         \A d \in Depths : Turn(Head(q), d) = 0,
         NEW p, \E o, b : Loose(Pool, p, o, b, n, g)
  PROVE  Standing(p \o Tail(q), g, kept, deep, sure, exact)
<1>1. 1 \in 0..Len(q) /\ 1 + 1 = 2 /\ 1 \in 1..Len(q)
  BY DEF First
<1>2. \A d \in Depths : open[d][1] = open[d][2]
  BY DEF First
<1>3. /\ Len(kept) \in Nat /\ owed[1] <= Len(kept)
      /\ \A d \in Depths : open[d][1] <= deep[d]
      /\ sure /\ Len(kept) = owed[1] => \A d \in Depths : deep[d] = open[d][1]
  BY DEF Stood, Account
<1>4. owed[1] = n + owed[1 + 1] /\ owed[1] \in Nat /\ owed[2] \in Nat
  BY <1>1 DEF First
<1>5. (n + owed[1 + 1]) + Len(kept) <= owed[1] + Len(kept)
  BY <1>3, <1>4
<1>6. \A d \in Depths : open[d][1] = open[d][1 + 1]
  BY <1>1, <1>2
<1>7. exact => n + owed[1 + 1] = Len(kept)
  BY <1>4 DEF Stood
<1>8. n = 1 => Given(owed, 1) /\ owed[1] = 1 + owed[1 + 1]
  BY <1>1, <1>4 DEF Given
<1>9. Len(kept) <= Len(kept)
  BY <1>3
<1>10. Moves(q, kept, sure, exact, owed, open, 1, n, kept, deep, sure, exact)
  BY <1>1, <1>3, <1>4, <1>5, <1>6, <1>7, <1>8, <1>9 DEF Moves
<1>11. Standing(p \o SubSeq(q, 1 + 1, Len(q)), g, kept, deep, sure, exact)
  BY <1>1, <1>10, Resumed
<1> QED
  BY <1>1, <1>11 DEF First

\* The same where the step stays, behind a course that owes nothing.
LEMMA Again ==
  ASSUME NEW q, NEW g, NEW kept, NEW deep, NEW sure, NEW exact, NEW owed, NEW open,
         NEW n, NEW h,
         Stood(q, g, kept, deep, sure, exact, owed, open), First(q, g, owed, open, n, h),
         NEW p, \E o, b : Loose(Pool, p, o, b, 0, g)
  PROVE  Standing(p \o q, g, kept, deep, sure, exact)
<1>1. 0 \in 0..Len(q) /\ 0 + 1 = 1
  BY DEF First
<1>2. /\ Len(kept) \in Nat /\ owed[1] <= Len(kept)
      /\ \A d \in Depths : open[d][1] <= deep[d]
      /\ sure /\ Len(kept) = owed[1] => \A d \in Depths : deep[d] = open[d][1]
  BY DEF Stood, Account
<1>3. owed[0 + 1] = owed[1] /\ 0 + owed[1] = owed[1] /\ owed[1] \in Nat
  BY <1>1 DEF First
<1>4. (0 + owed[0 + 1]) + Len(kept) <= owed[1] + Len(kept) /\ Len(kept) <= Len(kept)
  BY <1>2, <1>3
<1>5. exact => 0 + owed[0 + 1] = Len(kept)
  BY <1>3 DEF Stood
<1>6. \A d \in Depths : open[d][0 + 1] = open[d][1]
  BY <1>1
<1>7. Moves(q, kept, sure, exact, owed, open, 0, 0, kept, deep, sure, exact)
  BY <1>1, <1>2, <1>3, <1>4, <1>5, <1>6 DEF Moves
<1>8. Standing(p \o SubSeq(q, 0 + 1, Len(q)), g, kept, deep, sure, exact)
  <2>1. 0 \in {0, 1}
    OBVIOUS
  <2> QED
    BY <1>1, <1>7, <2>1, Resumed
<1>9. SubSeq(q, 0 + 1, Len(q)) = q
  <2>1. PICK T : q \in Seq(T)
    BY DEF Stood, Course
  <2> QED
    BY <2>1
<1> QED
  BY <1>8, <1>9

\* A rule, or an arm, in the place of a step.
LEMMA TurnedTo ==
  ASSUME NEW q, NEW g, NEW kept, NEW deep, NEW sure, NEW exact, NEW owed, NEW open,
         NEW n \in {0, 1}, NEW h,
         Stood(q, g, kept, deep, sure, exact, owed, open), First(q, g, owed, open, n, h),
         \A d \in Depths : Turn(Head(q), d) = 0,
         NEW p, Arm(Pool, p, n, g)
  PROVE  Standing(p \o Tail(q), g, kept, deep, sure, exact)
<1>1. CASE Flow(Pool, p, n, g)
  BY <1>1, FlowIsLoose, Turned
<1>2. CASE Saving(Pool, p, n, g)
  <2>1. n = 0 /\ Saving(Pool, p, 0, g)
    BY <1>2 DEF Saving
  <2>2. 1 \in 1..Len(q) /\ owed[1] = owed[2] /\ \A d \in Depths : open[d][1] = open[d][2]
    BY <2>1 DEF First
  <2>3. Standing(p \o SubSeq(q, 2, Len(q)), g, kept, deep, sure, exact)
    BY <2>1, <2>2, SavedFirst DEF Stood
  <2> QED
    BY <2>3 DEF First
<1> QED
  BY <1>1, <1>2 DEF Arm

\* Without steps in its place, what a step that owes nothing leaves.
LEMMA Passed ==
  ASSUME NEW q, NEW g, NEW kept, NEW deep, NEW sure, NEW exact, NEW owed, NEW open, NEW h,
         Stood(q, g, kept, deep, sure, exact, owed, open), First(q, g, owed, open, 0, h),
         \A d \in Depths : Turn(Head(q), d) = 0
  PROVE  Standing(<<>> \o Tail(q), g, kept, deep, sure, exact)
<1>1. \E o, b : Loose(Pool, <<>>, o, b, 0, g)
  BY EmptyIsLoose
<1>2. 0 \in {0, 1}
  OBVIOUS
<1> QED
  BY <1>1, <1>2, Turned

\* A step that goes by one body in or out.
LEMMA TurnedBody ==
  ASSUME NEW q, NEW g, NEW kept, NEW deep, NEW sure, NEW exact, NEW owed, NEW open, NEW h,
         Stood(q, g, kept, deep, sure, exact, owed, open), First(q, g, owed, open, 0, h),
         NEW deep2, \A d \in Depths : deep[d] \in Nat /\ deep2[d] = deep[d] - Turn(Head(q), d)
  PROVE  /\ Standing(<<>> \o Tail(q), g, kept, deep2, sure, exact)
         /\ \A d \in Depths : deep2[d] \in Nat
<1>1. 1 \in 0..Len(q) /\ 1 + 1 = 2 /\ 1 \in 1..Len(q)
  BY DEF First
<1>2. /\ Len(kept) \in Nat /\ owed[1] <= Len(kept)
      /\ \A d \in Depths : open[d][1] <= deep[d]
      /\ sure /\ Len(kept) = owed[1] => \A d \in Depths : deep[d] = open[d][1]
  BY DEF Stood, Account
<1>3. /\ owed[1] = 0 + owed[1 + 1] /\ owed[1] \in Nat /\ owed[2] \in Nat
      /\ Len(kept) <= Len(kept)
      /\ (0 + owed[1 + 1]) + Len(kept) <= owed[1] + Len(kept)
  BY <1>1, <1>2 DEF First
<1>4. exact => 0 + owed[1 + 1] = Len(kept)
  BY <1>3 DEF Stood
<1>5. ASSUME NEW d \in Depths
      PROVE  /\ open[d][1 + 1] <= deep2[d] /\ deep2[d] \in Nat
             /\ deep[d] = open[d][1] => deep2[d] = open[d][1 + 1]
  <2>1. /\ open[d][1] \in Nat /\ open[d][2] \in Nat
        /\ open[d][1] = open[d][2] + Turn(Head(q), d)
    BY DEF First
  <2>2. Turn(Head(q), d) \in Int /\ deep[d] \in Nat /\ deep2[d] = deep[d] - Turn(Head(q), d)
    BY DEF Turn
  <2>3. open[d][1] <= deep[d]
    BY <1>2
  <2>4. open[d][1 + 1] = open[d][2]
    BY <1>1
  <2> HIDE DEF Turn
  <2> QED
    BY ONLY <2>1, <2>2, <2>3, <2>4
<1>6. sure /\ Len(kept) = 0 + owed[1 + 1] => \A d \in Depths : deep2[d] = open[d][1 + 1]
  BY <1>2, <1>3, <1>5
<1>7. Moves(q, kept, sure, exact, owed, open, 1, 0, kept, deep2, sure, exact)
  BY <1>2, <1>3, <1>4, <1>5, <1>6 DEF Moves
<1>8. Standing(<<>> \o SubSeq(q, 1 + 1, Len(q)), g, kept, deep2, sure, exact)
  <2>1. 0 \in {0, 1} /\ \E o, b : Loose(Pool, <<>>, o, b, 0, g)
    BY EmptyIsLoose
  <2> QED
    BY <1>1, <1>7, <2>1, Resumed
<1> QED
  BY <1>1, <1>5, <1>8 DEF First
-----------------------------------------------------------------------------
(***************************************************************************)
(* Saved states: pushed, released and restored.                            *)
(***************************************************************************)
\* What is below the top of the saved states.
LEMMA Below ==
  ASSUME NEW X, NEW kept \in Seq(X), Len(kept) >= 1
  PROVE  /\ SubSeq(kept, 1, Len(kept) - 1) \in Seq(X)
         /\ Len(SubSeq(kept, 1, Len(kept) - 1)) = Len(kept) - 1
         /\ Len(kept) - 1 \in Nat
         /\ \A k \in 1..Len(kept) - 1 : SubSeq(kept, 1, Len(kept) - 1)[k] = kept[k]
<1>1. Len(kept) \in Nat /\ Len(kept) - 1 \in Nat /\ \A i \in 1..Len(kept) - 1 : kept[i] \in X
  OBVIOUS
<1>2. /\ SubSeq(kept, 1, Len(kept) - 1) \in Seq(X)
      /\ Len(SubSeq(kept, 1, Len(kept) - 1)) =
           IF 1 <= Len(kept) - 1 THEN (Len(kept) - 1) - 1 + 1 ELSE 0
      /\ \A i \in 1..(Len(kept) - 1) - 1 + 1 :
           SubSeq(kept, 1, Len(kept) - 1)[i] = kept[1 + i - 1]
  BY <1>1, SubSeqProperties
<1>3. \A i \in 1..Len(kept) - 1 : 1 + i - 1 = i
  OBVIOUS
<1>4. (Len(kept) - 1) - 1 + 1 = Len(kept) - 1
  BY <1>1
<1>5. (IF 1 <= Len(kept) - 1 THEN Len(kept) - 1 ELSE 0) = Len(kept) - 1
  <2> \A n \in Nat : (IF 1 <= n THEN n ELSE 0) = n
    OBVIOUS
  <2> QED
    BY <1>1
<1> QED
  BY <1>1, <1>2, <1>3, <1>4, <1>5

\* A step that is given a state releases it, and leaves the depths.
LEMMA Released ==
  ASSUME NEW q, NEW g, NEW kept, NEW deep, NEW sure, NEW exact, NEW owed, NEW open, NEW h,
         Stood(q, g, kept, deep, sure, exact, owed, open), First(q, g, owed, open, 1, h),
         \A d \in Depths : Turn(Head(q), d) = 0,
         NEW X, kept \in Seq(X),
         NEW p, \E o, b : Loose(Pool, p, o, b, 0, g)
  PROVE  Standing(p \o Tail(q), g, SubSeq(kept, 1, Len(kept) - 1), deep, sure, exact)
<1> DEFINE kept2 == SubSeq(kept, 1, Len(kept) - 1)
<1>1. 1 \in 0..Len(q) /\ 1 + 1 = 2 /\ 1 \in 1..Len(q)
  BY DEF First
<1>2. /\ Len(kept) \in Nat /\ owed[1] <= Len(kept)
      /\ \A d \in Depths : open[d][1] <= deep[d]
      /\ sure /\ Len(kept) = owed[1] => \A d \in Depths : deep[d] = open[d][1]
  BY DEF Stood, Account
<1>3. owed[1] = 1 + owed[1 + 1] /\ owed[1] \in Nat /\ owed[1 + 1] \in Nat
  BY <1>1 DEF First
<1>4. \A d \in Depths : open[d][1] = open[d][1 + 1]
  BY <1>1 DEF First
<1>5. /\ Len(kept2) = Len(kept) - 1 /\ Len(kept2) \in Nat
      /\ \A k \in 1..Len(kept2) : kept2[k] = kept[k]
  <2>1. Len(kept) >= 1
    BY <1>2, <1>3
  <2> QED
    BY <2>1, Below
<1> HIDE DEF kept2
<1>6. exact => 0 + owed[1 + 1] = Len(kept2)
  <2>1. exact => owed[1] = Len(kept)
    BY DEF Stood
  <2>2. owed[1] = Len(kept) => 0 + owed[1 + 1] = Len(kept2)
    BY <1>2, <1>3, <1>5
  <2> QED
    BY <2>1, <2>2
<1>7. (0 + owed[1 + 1]) + Len(kept) <= owed[1] + Len(kept2) /\ Len(kept2) <= Len(kept)
  BY <1>2, <1>3, <1>5
<1>8. Len(kept2) = 0 + owed[1 + 1] => Len(kept) = owed[1]
  BY <1>2, <1>3, <1>5
<1>9. Moves(q, kept, sure, exact, owed, open, 1, 0, kept2, deep, sure, exact)
  BY <1>2, <1>4, <1>5, <1>6, <1>7, <1>8 DEF Moves
<1>10. Standing(p \o SubSeq(q, 1 + 1, Len(q)), g, kept2, deep, sure, exact)
  <2>1. 0 \in {0, 1}
    OBVIOUS
  <2> QED
    BY <1>1, <1>9, <2>1, Resumed
<1> QED
  BY <1>1, <1>10 DEF First, kept2

\* A state is restored at step c: the depths are those of the last saved state.
LEMMA Restored ==
  ASSUME NEW q, NEW g, NEW kept, NEW deep, NEW sure, NEW exact, NEW owed, NEW open,
         Stood(q, g, kept, deep, sure, exact, owed, open),
         NEW c \in 1..Len(q), Given(owed, c), \A d \in Depths : Turn(q[c], d) = 0,
         NEW X, kept \in Seq(X), NEW deep2,
         \A d \in Depths : deep2[d] = DepthOf(kept[Len(kept)], d),
         NEW exact2, exact2 => exact /\ c = 1,
         NEW p, \E o, b : Loose(Pool, p, o, b, 0, g)
  PROVE  Standing(p \o SubSeq(q, c + 1, Len(q)), g, SubSeq(kept, 1, Len(kept) - 1), deep2, sure, exact2)
<1> DEFINE kept2 == SubSeq(kept, 1, Len(kept) - 1)
<1>1. /\ Len(q) \in Nat
      /\ \A i \in 1..Len(q) + 1 : owed[i] \in Nat /\ \A d \in Depths : open[d][i] \in Nat
      /\ \A i, j \in 1..Len(q) + 1 : i <= j => owed[j] <= owed[i]
      /\ owed[c] = owed[c + 1] + 1
  BY CourseFalls DEF Stood
<1>2. c \in 0..Len(q) /\ c \in 1..Len(q) + 1 /\ c + 1 \in 1..Len(q) + 1 /\ 1 \in 1..Len(q) + 1 /\ 1 <= c
  BY <1>1
<1>3. owed[1] \in Nat /\ owed[c] \in Nat /\ owed[c + 1] \in Nat /\ owed[c] <= owed[1]
  BY <1>1, <1>2
<1>4. Len(kept) \in Nat /\ owed[1] <= Len(kept)
  BY DEF Stood, Account
<1>5. /\ Len(kept2) = Len(kept) - 1 /\ Len(kept2) \in Nat
      /\ \A k \in 1..Len(kept2) : kept2[k] = kept[k]
  <2>1. Len(kept) >= 1
    BY <1>1, <1>3, <1>4
  <2> QED
    BY <2>1, Below
<1> HIDE DEF kept2
<1>6. \A d \in Depths : open[d][c] = open[d][c + 1]
  <2>1. \A d \in Depths : open[d][c] = open[d][c + 1] + Turn(q[c], d)
    BY DEF Stood, Course
  <2> QED
    BY <1>1, <1>2, <2>1
<1>7. \A d \in Depths : open[d][c] <= deep2[d]
  <2>1. Len(kept) \in 1..Len(kept) /\ owed[c] + (Len(kept) - owed[1]) <= Len(kept)
    BY <1>1, <1>3, <1>4
  <2> QED
    BY <2>1 DEF Stood, Account
<1>8. sure /\ Len(kept2) = 0 + owed[c + 1] => \A d \in Depths : deep2[d] = open[d][c]
  <2> SUFFICES ASSUME sure, Len(kept2) = 0 + owed[c + 1]
               PROVE  \A d \in Depths : deep2[d] = open[d][c]
    OBVIOUS
  <2>1. owed[c] = Len(kept) /\ Len(kept) = owed[1]
    BY <1>1, <1>3, <1>4, <1>5
  <2>2. owed[c] <= Len(kept)
    BY <1>4, <2>1
  <2>3. \A d \in Depths : DepthOf(kept[owed[c]], d) = open[d][c]
    BY <2>1, <2>2 DEF Stood, Account
  <2> QED
    BY <2>1, <2>3
<1>9. (0 + owed[c + 1]) + Len(kept) <= owed[1] + Len(kept2) /\ Len(kept2) <= Len(kept)
  BY <1>1, <1>3, <1>4, <1>5
<1>10. exact2 => exact /\ 0 + owed[c + 1] = Len(kept2)
  <2> SUFFICES ASSUME exact2
               PROVE  exact /\ 0 + owed[c + 1] = Len(kept2)
    OBVIOUS
  <2>1. exact /\ c = 1 /\ owed[1] = Len(kept)
    BY DEF Stood
  <2>2. owed[c] = Len(kept)
    BY <2>1
  <2>3. 0 + owed[c + 1] = Len(kept2)
    BY <1>1, <1>3, <1>4, <1>5, <2>2
  <2> QED
    BY <2>1, <2>3
<1>11. Moves(q, kept, sure, exact, owed, open, c, 0, kept2, deep2, sure, exact2)
  <2>1. /\ \A d \in Depths : open[d][c + 1] <= deep2[d]
        /\ sure /\ Len(kept2) = 0 + owed[c + 1] => \A d \in Depths : deep2[d] = open[d][c + 1]
    BY <1>6, <1>7, <1>8
  <2>2. 0 # 1
    OBVIOUS
  <2> QED
    BY <1>5, <1>9, <1>10, <2>1, <2>2 DEF Moves
<1>12. Standing(p \o SubSeq(q, c + 1, Len(q)), g, kept2, deep2, sure, exact2)
  <2>1. 0 \in {0, 1}
    OBVIOUS
  <2> QED
    BY <1>2, <1>11, <2>1, Resumed
<1> QED
  BY <1>12 DEF kept2

\* An error is kept at step c: what was counted on the way stays counted.
LEMMA Swallowed ==
  ASSUME NEW q, NEW g, NEW kept, NEW deep, NEW sure, NEW exact, NEW owed, NEW open,
         Stood(q, g, kept, deep, sure, exact, owed, open),
         NEW c \in 1..Len(q), q[c].op = "unchecked",
         NEW sure2, ~sure2, NEW exact2, ~exact2,
         \A d \in Depths : deep[d] \in Nat
  PROVE  Standing(SubSeq(q, c + 1, Len(q)), g, kept, deep, sure2, exact2)
<1>1. /\ Len(q) \in Nat
      /\ \A i \in 1..Len(q) + 1 : owed[i] \in Nat /\ \A d \in Depths : open[d][i] \in Nat
      /\ \A i, j \in 1..Len(q) + 1 : i <= j => owed[j] <= owed[i]
  BY CourseFalls DEF Stood
<1>2. c \in 0..Len(q) /\ c \in 1..Len(q) + 1 /\ c + 1 \in 1..Len(q) + 1 /\ 1 \in 1..Len(q) + 1 /\ 1 <= c + 1
  BY <1>1
<1>3. owed[1] \in Nat /\ owed[c + 1] \in Nat /\ owed[c + 1] <= owed[1]
  BY <1>1, <1>2
<1>4. Len(kept) \in Nat /\ \A d \in Depths : open[d][1] <= deep[d]
  BY DEF Stood, Account
<1>5. \A d \in Depths : open[d][c + 1] <= deep[d]
  <2>1. \A d \in Depths : open[d][c] = open[d][c + 1] + Turn(q[c], d)
    BY DEF Stood, Course
  <2>2. \A d \in Depths : Turn(q[c], d) = 0
    BY DEF Turn
  <2>3. \A d \in Depths : open[d][c] <= open[d][1]
    <3>1. 1 \in 1..c
      OBVIOUS
    <3> QED
      BY <3>1 DEF Stood, Shape
  <2>4. \A d \in Depths : open[d][c] = open[d][c + 1]
    BY <1>1, <1>2, <2>1, <2>2
  <2> QED
    <3> TAKE d \in Depths
    <3>1. open[d][c + 1] <= open[d][1] /\ open[d][1] <= deep[d]
      BY <1>4, <2>3, <2>4
    <3> QED
      BY <1>1, <1>2, <3>1
<1>6. (0 + owed[c + 1]) + Len(kept) <= owed[1] + Len(kept) /\ Len(kept) <= Len(kept)
  BY <1>3, <1>4
<1>7. Moves(q, kept, sure, exact, owed, open, c, 0, kept, deep, sure2, exact2)
  BY <1>4, <1>5, <1>6 DEF Moves
<1>8. Standing(<<>> \o SubSeq(q, c + 1, Len(q)), g, kept, deep, sure2, exact2)
  <2>1. 0 \in {0, 1} /\ \E o, b : Loose(Pool, <<>>, o, b, 0, g)
    BY EmptyIsLoose
  <2> QED
    BY <1>2, <1>7, <2>1, Resumed
<1>9. <<>> \o SubSeq(q, c + 1, Len(q)) = SubSeq(q, c + 1, Len(q))
  <2>1. PICK T : q \in Seq(T)
    BY DEF Stood, Course
  <2>2. SubSeq(q, c + 1, Len(q)) \in Seq(T)
    BY <1>1, <2>1
  <2> QED
    BY <2>2
<1> QED
  BY <1>8, <1>9

\* The state that a rule saves first.
LEMMA Pushed ==
  ASSUME NEW q, NEW g, NEW kept, NEW deep, NEW sure, NEW exact,
         Standing(q, g, kept, deep, sure, exact), q # <<>>, Head(q).op = "save",
         NEW X, kept \in Seq(X), NEW x \in X,
         \A d \in Depths : deep[d] \in Nat /\ DepthOf(x, d) = deep[d]
  PROVE  Standing(<<>> \o Tail(q), g, Append(kept, x), deep, sure, exact)
<1>1. Held(q)
  BY DEF Held
<1>2. PICK T : q \in Seq(T)
  BY DEF Standing
<1> DEFINE r == Tail(q)
           kept2 == Append(kept, x)
<1>3. r \in Seq(T) /\ <<>> \o Tail(q) = r /\ Len(r) \in Nat
  BY <1>2
<1>4. PICK owed, open : Stands(q, owed, open, g, kept, deep, sure, exact)
  BY DEF Standing
<1>5. /\ Course(Pool, r, owed, open, g) /\ Shape(r, owed, open)
      /\ exact => owed[1] = Len(kept) + 1
      /\ Account(owed, open, Len(r), Len(kept) + 1, kept, deep, sure)
      /\ Opened(r, owed, open)
  BY <1>1, <1>4 DEF Stands, Line, Due
<1>6. /\ Len(kept) \in Nat /\ Len(kept2) = Len(kept) + 1 /\ kept2[Len(kept) + 1] = x
      /\ \A k \in 1..Len(kept) : kept2[k] = kept[k]
  OBVIOUS
<1> HIDE DEF r, kept2
<1>7. /\ \A i \in 1..Len(r) + 1 : owed[i] \in Nat
      /\ \A i, j \in 1..Len(r) + 1 : i <= j => owed[j] <= owed[i]
      /\ \A i \in 1..Len(r) : Given(owed, i) => owed[i] > 0
  BY <1>5, CourseFalls
<1>8. /\ owed[1] <= Len(kept) + 1
      /\ \A d \in Depths : open[d][1] <= deep[d]
      /\ sure /\ Len(kept) + 1 = owed[1] => \A d \in Depths : deep[d] = open[d][1]
  BY <1>5 DEF Account
<1>9. ASSUME NEW i \in 1..Len(r), Given(owed, i)
      PROVE  /\ owed[i] \in Nat /\ owed[i] > 0 /\ owed[1] \in Nat /\ owed[i] <= owed[1]
             /\ \A d \in Depths : open[d][i] <= open[d][1]
             /\ owed[i] = owed[1] => \A d \in Depths : open[d][i] = open[d][1]
  <2>1. i \in 1..Len(r) + 1 /\ 1 \in 1..Len(r) + 1 /\ 1 <= i /\ 1 \in 1..i
    BY <1>3
  <2>2. owed[i] \in Nat /\ owed[i] > 0 /\ owed[1] \in Nat /\ owed[i] <= owed[1]
    BY <1>7, <1>9, <2>1
  <2>3. \A d \in Depths : open[d][i] <= open[d][1]
    BY <1>5, <1>9, <2>1 DEF Shape
  <2>4. owed[i] = owed[1] => \A d \in Depths : open[d][i] = open[d][1]
    BY <1>5, <1>9 DEF Opened
  <2> QED
    BY <2>2, <2>3, <2>4
<1>10. ASSUME NEW i \in 1..Len(r), Given(owed, i), NEW k \in 1..Len(kept2),
              owed[i] + (Len(kept2) - owed[1]) <= k, NEW d \in Depths
       PROVE  open[d][i] <= DepthOf(kept2[k], d)
  <2>1. CASE k \in 1..Len(kept)
    <3>1. owed[i] + ((Len(kept) + 1) - owed[1]) <= k
      BY <1>6, <1>10
    <3>2. open[d][i] <= DepthOf(kept[k], d)
      BY <1>5, <1>10, <2>1, <3>1 DEF Account
    <3> QED
      BY <1>6, <2>1, <3>2
  <2>2. CASE k \notin 1..Len(kept)
    <3>1. k = Len(kept) + 1
      BY <1>6, <2>2
    <3>2. DepthOf(kept2[k], d) = deep[d]
      BY <1>6, <3>1
    <3>3. open[d][i] <= open[d][1] /\ open[d][1] <= deep[d]
      BY <1>8, <1>9, <1>10
    <3>4. open[d][i] \in Nat /\ open[d][1] \in Nat
      <4>1. i \in 1..Len(r) + 1 /\ 1 \in 1..Len(r) + 1
        BY <1>3
      <4>2. \A j \in 1..Len(r) + 1 : open[d][j] \in Nat
        BY <1>5, CourseFalls
      <4> QED
        BY <4>1, <4>2
    <3> QED
      BY <3>2, <3>3, <3>4
  <2> QED
    BY <2>1, <2>2
<1>11. ASSUME sure, Len(kept2) = owed[1], NEW d \in Depths,
              NEW i \in 1..Len(r), Given(owed, i), owed[i] <= Len(kept2)
       PROVE  DepthOf(kept2[owed[i]], d) = open[d][i]
  <2>1. owed[i] \in Nat /\ owed[i] > 0
    BY <1>9, <1>11
  <2>2. CASE owed[i] <= Len(kept)
    <3>1. DepthOf(kept[owed[i]], d) = open[d][i]
      BY <1>5, <1>6, <1>11, <2>2 DEF Account
    <3>2. owed[i] \in 1..Len(kept)
      BY <1>6, <2>1, <2>2
    <3> QED
      BY <1>6, <3>1, <3>2
  <2>3. CASE ~(owed[i] <= Len(kept))
    <3>1. owed[i] = Len(kept) + 1 /\ owed[i] = owed[1]
      BY <1>6, <1>11, <2>1, <2>3
    <3>2. open[d][i] = open[d][1] /\ deep[d] = open[d][1]
      BY <1>6, <1>8, <1>9, <1>11, <3>1
    <3> QED
      BY <1>6, <3>1, <3>2
  <2> QED
    BY <2>2, <2>3
<1>12. Account(owed, open, Len(r), Len(kept2), kept2, deep, sure)
  <2>1. Len(kept2) \in Nat /\ owed[1] <= Len(kept2) /\ Len(kept2) <= Len(kept2)
    BY <1>6, <1>8
  <2>2. sure /\ Len(kept2) = owed[1] => \A d \in Depths : deep[d] = open[d][1]
    BY <1>6, <1>8
  <2> QED
    BY <1>8, <1>10, <1>11, <2>1, <2>2 DEF Account
<1>13. ~Held(r)
  BY <1>3, <1>5, NotHeld
<1>14. exact => owed[1] = Len(kept2)
  BY <1>5, <1>6
<1>15. Stands(r, owed, open, g, kept2, deep, sure, exact)
  BY <1>5, <1>12, <1>13, <1>14 DEF Stands, Line, Due
<1>16. Standing(r, g, kept2, deep, sure, exact)
  BY <1>3, <1>15 DEF Standing
<1> QED
  BY <1>3, <1>16 DEF kept2

\* More of the source may be known.
LEMMA MoreKnown ==
  ASSUME NEW q, NEW g, NEW h, g \subseteq h, NEW kept, NEW deep, NEW sure, NEW exact,
         Standing(q, g, kept, deep, sure, exact)
  PROVE  Standing(q, h, kept, deep, sure, exact)
BY MoreCourse DEF Standing, Stands
-----------------------------------------------------------------------------
(***************************************************************************)
(* The inductive invariant.                                                *)
(***************************************************************************)
\* The words read so far, and the depths by name.
Seen == Words \intersect Units
Deep == [d \in Depths |-> IF d = "loop" THEN loop_depth ELSE fun_depth]

\* While the module is parsed, the steps still to take are a course whose debts
\* are the saved states and whose open bodies are the depths.  An error that goes
\* unheard may leave a saved state behind, so then what is owed is at most what
\* is saved; a package that swallowed one leaves bodies counted.
IInv ==
  /\ Types
  /\ verdict # "parsing" => todo = <<>>
  /\ holes => errors /\ "using" \in Units
  /\ verdict # "rejected" =>
       /\ errors /\ ~holes => "<" \in Units
       /\ Standing(todo, Seen, saved, Deep, ~holes, ~errors)

\* Steps that owe nothing and open nothing are a loose course.
LEMMA PlainLoose ==
  ASSUME NEW q, NEW T, q \in Seq(T), NEW g,
         \A i \in 1..Len(q) : /\ \E h \in SUBSET g : <<q[i], 0, h>> \in Pool
                              /\ \A d \in Depths : Turn(q[i], d) = 0
                              /\ q[i].op # "save"
  PROVE  \E o, b : Loose(Pool, q, o, b, 0, g)
<1> DEFINE n == Len(q)
           o == [i \in 1..n + 1 |-> 0]
           b == [d \in Depths |-> [i \in 1..n + 1 |-> 0]]
<1>1. n \in Nat /\ 1 \in 1..n + 1 /\ n + 1 \in 1..n + 1 /\ \A i \in 1..n : i \in 1..n + 1 /\ i + 1 \in 1..n + 1
  OBVIOUS
<1>2. /\ o \in [1..n + 1 -> Nat] /\ b \in [Depths -> [1..n + 1 -> Nat]]
      /\ \A i \in 1..n + 1 : o[i] = 0 /\ \A d \in Depths : b[d][i] = 0
  OBVIOUS
<1> HIDE DEF o, b
<1>3. Course(Pool, q, o, b, g)
  <2>1. ASSUME NEW i \in 1..n
        PROVE  /\ o[i] = o[i + 1] /\ \E h \in SUBSET g : <<q[i], o[i] - o[i + 1], h>> \in Pool
               /\ \A d \in Depths : b[d][i] = b[d][i + 1] + Turn(q[i], d)
    <3>1. o[i] = 0 /\ o[i + 1] = 0 /\ \A d \in Depths : b[d][i] = 0 /\ b[d][i + 1] = 0
      BY <1>1, <1>2
    <3>2. 0 - 0 = 0 /\ 0 + 0 = 0
      OBVIOUS
    <3> QED
      BY <3>1, <3>2
  <2> QED
    BY <1>2, <2>1 DEF Course
<1>4. Even(q, o, b)
  BY <1>1, <1>2 DEF Even
<1>5. Loose(Pool, q, o, b, 0, g)
  BY <1>1, <1>2, <1>3, <1>4 DEF Loose
<1> QED
  BY <1>5

\* What holds wherever a step is taken.
LEMMA Takes ==
  ASSUME IInv, todo # <<>>
  PROVE  /\ verdict = "parsing" /\ Types
         /\ Standing(todo, Seen, saved, Deep, ~holes, ~errors)
         /\ \A d \in Depths : Deep[d] \in Nat
BY DEF IInv, Types, Deep

\* A step that reads nothing and reports nothing.
LEMMA StaysSound ==
  ASSUME IInv, todo # <<>>, Types', UNCHANGED <<source, errors, holes, verdict>>,
         Standing(todo', Seen, saved', Deep', ~holes, ~errors)
  PROVE  IInv'
<1>1. Units' = Units /\ Seen' = Seen
  BY DEF Units, Seen
<1>2. verdict = "parsing"
  BY Takes
<1> QED
  BY <1>1, <1>2 DEF IInv

\* The leaves that are kept are leaves.
LEMMA Kept ==
  ASSUME NEW n \in Int, NEW S, leaves \in Seq(S), Keep(n)
  PROVE  leaves' \in Seq(S)
<1>1. PICK k \in Nat : DOMAIN leaves = 1..k /\ \A i \in 1..k : leaves[i] \in S
  <2>1. Len(leaves) \in Nat /\ DOMAIN leaves = 1..Len(leaves) /\ \A i \in 1..Len(leaves) : leaves[i] \in S
    OBVIOUS
  <2> QED
    BY <2>1
<1> DEFINE m == IF n < 0 THEN 0 ELSE IF n <= k THEN n ELSE k
<1>2. m \in Nat /\ m <= k /\ {j \in DOMAIN leaves : j <= n} = 1..m
  BY <1>1
<1> HIDE DEF m
<1>3. leaves' = [i \in 1..m |-> leaves[i]]
  BY <1>2 DEF Keep
<1>4. \A i \in 1..m : leaves[i] \in S
  BY <1>1, <1>2
<1>5. [i \in 1..m |-> leaves[i]] \in Seq(S)
  BY <1>2, <1>4
<1> QED
  BY <1>3, <1>5

\* The state that is on top is one that was saved.
LEMMA TopState ==
  ASSUME Types, saved # <<>>
  PROVE  /\ Saved \in Place /\ Popped \in Seq(Place)
         /\ \A d \in Depths : DepthOf(Saved, d) \in Nat
<1>1. saved \in Seq(Place)
  BY DEF Types
<1>2. Len(saved) \in Nat /\ Len(saved) >= 1 /\ saved[Len(saved)] \in Place
  BY <1>1
<1>3. SubSeq(saved, 1, Len(saved) - 1) \in Seq(Place)
  BY <1>1, <1>2, Below
<1>4. Saved \in Place
  BY <1>2 DEF Saved
<1> QED
  BY <1>3, <1>4 DEF Popped, Place, DepthOf

\* After a restore the depths are those of the saved state.
LEMMA RestoredTypes ==
  ASSUME Types, Restore
  PROVE  /\ saved # <<>> /\ saved' = SubSeq(saved, 1, Len(saved) - 1) /\ saved' \in Seq(Place)
         /\ at' \in 1..Len(source) /\ cut' \in BOOLEAN /\ fun_depth' \in Nat /\ loop_depth' \in Nat
         /\ \A d \in Depths : Deep'[d] = DepthOf(saved[Len(saved)], d)
<1>1. saved # <<>> /\ at' = Saved.at /\ cut' = Saved.cut /\ saved' = Popped
  BY DEF Restore, RestoreScanner
<1>2. fun_depth' = Saved.fun /\ loop_depth' = Saved.loop
  BY DEF Restore
<1>3. Saved \in Place /\ Popped \in Seq(Place)
  BY <1>1, TopState
<1>4. Deep' = [d \in Depths |-> IF d = "loop" THEN loop_depth' ELSE fun_depth']
  BY DEF Deep
<1>5. ASSUME NEW d \in Depths
      PROVE  Deep'[d] = DepthOf(saved[Len(saved)], d)
  BY <1>2, <1>4 DEF DepthOf, Saved
<1> QED
  BY <1>1, <1>2, <1>3, <1>5 DEF Popped, Place

\* Types stay where the source does.
LEMMA TypesStay ==
  ASSUME Types, UNCHANGED <<text, source>>,
         at' \in 1..Len(source) + 1, cut' \in BOOLEAN, errors' \in BOOLEAN, holes' \in BOOLEAN,
         fun_depth' \in Nat, loop_depth' \in Nat, saved' \in Seq(Place),
         leaves' \in Seq(1..Len(source)), verdict' \in {"parsing", "accepted", "rejected"}
  PROVE  Types'
BY DEF Types, Place

\* A step at its place in a course is sound.
LEMMA AtStep ==
  ASSUME NEW q, NEW g, NEW kept, NEW deep, NEW sure, NEW exact, NEW owed, NEW open,
         Stood(q, g, kept, deep, sure, exact, owed, open), NEW c \in 1..Len(q)
  PROVE  \E h \in SUBSET g : Sound(Pool, q[c], owed[c] - owed[c + 1], h)
<1>1. PICK h \in SUBSET g : <<q[c], owed[c] - owed[c + 1], h>> \in Pool
  BY DEF Stood, Course
<1> DEFINE n == owed[c] - owed[c + 1]
           x == <<q[c], n, h>>
<1>2. x \in Pool /\ x[1] = q[c] /\ x[2] = n /\ x[3] = h
  BY <1>1
<1> HIDE DEF x, n
<1>3. Sound(Pool, x[1], x[2], x[3])
  BY <1>2, PoolIsSound DEF Closed
<1>4. Sound(Pool, q[c], n, h)
  BY <1>2, <1>3
<1> QED
  BY <1>4 DEF n

\* What a sound step owes, by what it is.
LEMMA Owes ==
  ASSUME NEW s, NEW n, NEW h, Sound(Pool, s, n, h)
  PROVE  /\ h \subseteq Words
         /\ s.op \in {"match", "next", "gt", "fail", "enter", "leave", "unchecked", "careless",
                      "rule", "chain", "repeat", "until", "within"} => n = 0
         /\ s.op \in {"release", "restore", "concepts", "closing"} => n = 1
         /\ s.op \in {"enter", "leave"} => s.in \in Depths
         /\ s.op = "restore" => s.drop \in Nat
         /\ s.op \in {"closing", "unchecked"} => s.keep \in Nat
         /\ s.op \in {"concepts", "closing"} => "<" \in h
         /\ s.op \in {"careless", "unchecked"} => "using" \in h
BY DEF Sound

\* Only a body's ends turn.
LEMMA NoTurn ==
  ASSUME NEW s, s.op \notin {"enter", "leave"}
  PROVE  \A d \in Depths : Turn(s, d) = 0
BY DEF Turn
-----------------------------------------------------------------------------
(***************************************************************************)
(* Every action keeps it.                                                  *)
(***************************************************************************)
\* The scanner reads another unit.
LEMMA ReadSound == ASSUME IInv, Read PROVE IInv'
<1>1. PICK u \in {"EOF"} \union text.alphabet : source' = Append(source, u)
  BY DEF Read
<1>2. /\ verdict = "parsing" /\ Types
      /\ UNCHANGED <<text, at, cut, todo, saved, fun_depth, loop_depth, leaves, errors, holes, verdict>>
  BY DEF Read, IInv, scan, depths
<1>3. PICK T : source \in Seq(T)
  BY <1>2 DEF Types
<1>4. /\ Len(source) \in Nat /\ Len(source') = Len(source) + 1 /\ source' \in Seq(T \union {u})
      /\ DOMAIN source = 1..Len(source) /\ DOMAIN source' = 1..Len(source) + 1
      /\ \A i \in 1..Len(source) : source'[i] = source[i]
      /\ source'[Len(source) + 1] = u
  BY <1>1, <1>3
<1>5. u \notin Longer
  <2>1. text \in Texts
    BY <1>2 DEF Types
  <2>2. text.alphabet \intersect Longer = {}
    BY <2>1, TextAssumption
  <2>3. "EOF" \notin Longer
    BY NoOperators DEF Longer
  <2> QED
    BY <2>2, <2>3
<1>6. \A i \in DOMAIN source' : source'[i] \notin Longer
  <2>1. \A i \in 1..Len(source) + 1 : i \in 1..Len(source) \/ i = Len(source) + 1
    BY <1>4
  <2> QED
    BY <1>2, <1>4, <1>5, <2>1 DEF Types
<1>7. 1..Len(source) \subseteq 1..Len(source') /\ 1..Len(source) + 1 \subseteq 1..Len(source') + 1
  BY <1>4
<1>8. Place \subseteq Place'
  BY <1>7 DEF Place
<1>9. saved' \in Seq(Place') /\ leaves' \in Seq(1..Len(source'))
  <2>1. saved \in Seq(Place) /\ leaves \in Seq(1..Len(source))
    BY <1>2 DEF Types
  <2>2. saved \in Seq(Place')
    BY <1>8, <2>1
  <2>3. leaves \in Seq(1..Len(source'))
    <3> DEFINE X == 1..Len(source)
               Y == 1..Len(source')
    <3>1. leaves \in Seq(X) /\ X \subseteq Y
      BY <1>7, <2>1
    <3> HIDE DEF X, Y
    <3>2. leaves \in Seq(Y)
      BY <3>1
    <3> QED
      BY <3>2 DEF Y
  <2> QED
    BY <1>2, <2>2, <2>3
<1>10. Types'
  BY <1>2, <1>4, <1>6, <1>7, <1>9 DEF Types
<1>11. Units \subseteq Units' /\ Seen \subseteq Seen'
  BY <1>4 DEF Units, Seen
<1>12. Deep' = Deep
  BY <1>2 DEF Deep
<1>13. Standing(todo, Seen', saved, Deep, ~holes, ~errors)
  BY <1>2, <1>11, MoreKnown DEF IInv
<1> QED
  BY <1>2, <1>10, <1>11, <1>12, <1>13 DEF IInv

\* not_syntax_save
LEMMA SaveSound == ASSUME IInv, SaveState PROVE IInv'
<1>1. /\ todo # <<>> /\ Head(todo).op = "save" /\ Known
      /\ UNCHANGED <<text, source, at, cut, fun_depth, loop_depth, leaves, errors, holes, verdict>>
      /\ saved' = Append(saved, [at |-> at, cut |-> cut, fun |-> fun_depth, loop |-> loop_depth])
      /\ todo' = <<>> \o Tail(todo)
  BY DEF SaveState, Doing, Top, Then, Rest, scan, depths
<1>2. /\ Types /\ Standing(todo, Seen, saved, Deep, ~holes, ~errors)
      /\ \A d \in Depths : Deep[d] \in Nat
  BY <1>1, Takes
<1> DEFINE x == [at |-> at, cut |-> cut, fun |-> fun_depth, loop |-> loop_depth]
<1>3. x \in Place /\ saved \in Seq(Place)
  BY <1>1, <1>2, TokenFacts DEF Types, Place
<1>4. \A d \in Depths : DepthOf(x, d) = Deep[d]
  BY DEF DepthOf, Deep, Depths
<1>5. saved' = Append(saved, x)
  BY <1>1
<1> HIDE DEF x
<1>6. Standing(<<>> \o Tail(todo), Seen, Append(saved, x), Deep, ~holes, ~errors)
  BY <1>1, <1>2, <1>3, <1>4, Pushed
<1>7. Deep' = Deep
  BY <1>1 DEF Deep
<1>8. saved' \in Seq(Place)
  BY <1>3, <1>5
<1>9. Types'
  BY <1>1, <1>2, <1>8, TypesStay DEF Types
<1> QED
  BY <1>1, <1>5, <1>6, <1>7, <1>9, StaysSound

\* A step that owes nothing is over: the states and depths are as they were.
LEMMA StepOver ==
  ASSUME IInv, todo # <<>>, Head(todo).op \in {"match", "next", "gt", "unchecked"},
         Types', UNCHANGED <<source, saved, depths, errors, holes, verdict>>,
         todo' = <<>> \o Tail(todo)
  PROVE  IInv'
<1>1. Standing(todo, Seen, saved, Deep, ~holes, ~errors)
  BY Takes
<1>2. PICK owed, open : \E n \in {0, 1} : \E h :
        Stood(todo, Seen, saved, Deep, ~holes, ~errors, owed, open) /\ First(todo, Seen, owed, open, n, h)
  BY <1>1, FirstStep
<1>3. PICK n, h : First(todo, Seen, owed, open, n, h)
  BY <1>2
<1>4. n = 0 /\ \A d \in Depths : Turn(Head(todo), d) = 0
  BY <1>3, Owes, NoTurn DEF First
<1>5. Standing(<<>> \o Tail(todo), Seen, saved, Deep, ~holes, ~errors)
  BY <1>2, <1>3, <1>4, Passed
<1>6. Deep' = Deep
  BY DEF Deep, depths
<1> QED
  BY <1>5, <1>6, StaysSound

\* not_syntax_match, not_syntax_next and not_syntax_gt
LEMMA TokenSound == ASSUME IInv, MatchToken \/ NextToken \/ CutToken PROVE IInv'
<1>1. /\ todo # <<>> /\ Known /\ Head(todo).op \in {"match", "next", "gt"}
      /\ UNCHANGED <<text, source, saved, depths, errors, holes, verdict>>
      /\ todo' = <<>> \o Tail(todo)
  BY DEF MatchToken, NextToken, CutToken, Doing, Top, Then, Rest
<1>2. Types /\ verdict = "parsing"
  BY <1>1, Takes
<1>3. /\ at \in 1..Len(source) /\ Len(source) \in Nat
      /\ Width(Token) \in Nat /\ at + Width(Token) <= Len(source) + 1
  BY <1>1, <1>2, TokenFacts
<1>4. at' \in 1..Len(source) + 1 /\ cut' \in BOOLEAN
  <2>1. CASE Advance
    <3>1. at' = at + Width(Token) /\ cut' = FALSE
      BY <2>1 DEF Advance
    <3>2. \A w, a, m \in Nat : a >= 1 /\ a + w <= m + 1 => a + w \in 1..m + 1
      OBVIOUS
    <3>3. at + Width(Token) \in 1..Len(source) + 1
      BY <1>3, <3>2
    <3> QED
      BY <3>1, <3>3
  <2>2. CASE CutToken
    BY <1>2, <2>2 DEF CutToken, Types
  <2> QED
    BY <2>1, <2>2 DEF MatchToken, NextToken
<1>5. leaves' \in Seq(1..Len(source))
  <2>1. leaves' = leaves \/ leaves' = Append(leaves, at)
    BY DEF MatchToken, NextToken, CutToken
  <2>2. leaves \in Seq(1..Len(source))
    BY <1>2 DEF Types
  <2> QED
    BY <1>3, <2>1, <2>2
<1>6. Types'
  BY <1>1, <1>2, <1>4, <1>5, TypesStay DEF Types, depths
<1> QED
  BY <1>1, <1>6, StepOver

\* not_syntax_release
LEMMA ReleaseSound == ASSUME IInv, ReleaseState PROVE IInv'
<1>1. /\ todo # <<>> /\ Head(todo).op = "release"
      /\ UNCHANGED <<text, source, scan, depths, leaves, errors, holes, verdict>>
      /\ saved # <<>> /\ saved' = SubSeq(saved, 1, Len(saved) - 1)
      /\ todo' = <<>> \o Tail(todo)
  BY DEF ReleaseState, PopState, Popped, Doing, Top, Then, Rest
<1>2. Types /\ Standing(todo, Seen, saved, Deep, ~holes, ~errors)
  BY <1>1, Takes
<1>3. PICK owed, open : \E n \in {0, 1} : \E h :
        Stood(todo, Seen, saved, Deep, ~holes, ~errors, owed, open) /\ First(todo, Seen, owed, open, n, h)
  BY <1>1, <1>2, FirstStep
<1>4. PICK n, h : First(todo, Seen, owed, open, n, h)
  BY <1>3
<1>5. n = 1 /\ \A d \in Depths : Turn(Head(todo), d) = 0
  BY <1>1, <1>4, Owes, NoTurn DEF First
<1>6. saved \in Seq(Place) /\ saved' \in Seq(Place)
  BY <1>1, <1>2, TopState DEF Types, Popped
<1>7. \E o, b : Loose(Pool, <<>>, o, b, 0, Seen)
  BY EmptyIsLoose
<1>8. Standing(<<>> \o Tail(todo), Seen, SubSeq(saved, 1, Len(saved) - 1), Deep, ~holes, ~errors)
  BY <1>3, <1>4, <1>5, <1>6, <1>7, Released
<1>9. Deep' = Deep
  BY <1>1 DEF Deep, depths
<1>10. Types'
  BY <1>1, <1>2, <1>6, TypesStay DEF Types, depths, scan
<1> QED
  BY <1>1, <1>8, <1>9, <1>10, StaysSound

\* not_syntax_restore in a for header
LEMMA ForRestoreSound == ASSUME IInv, ForRestore PROVE IInv'
<1>1. /\ todo # <<>> /\ Head(todo).op = "restore" /\ Restore
      /\ UNCHANGED <<text, source, errors, holes, verdict>>
      /\ Keep(Len(leaves) - Head(todo).drop)
      /\ todo' = <<>> \o Tail(todo)
  BY DEF ForRestore, Doing, Top, Then, Rest
<1>2. Types /\ Standing(todo, Seen, saved, Deep, ~holes, ~errors)
  BY <1>1, Takes
<1>3. PICK owed, open : \E n \in {0, 1} : \E h :
        Stood(todo, Seen, saved, Deep, ~holes, ~errors, owed, open) /\ First(todo, Seen, owed, open, n, h)
  BY <1>1, <1>2, FirstStep
<1>4. PICK n, h : First(todo, Seen, owed, open, n, h)
  BY <1>3
<1>5. n = 1 /\ Head(todo).drop \in Nat /\ \A d \in Depths : Turn(Head(todo), d) = 0
  BY <1>1, <1>4, Owes, NoTurn DEF First
<1>6. /\ saved' = SubSeq(saved, 1, Len(saved) - 1) /\ saved' \in Seq(Place)
      /\ at' \in 1..Len(source) /\ cut' \in BOOLEAN /\ fun_depth' \in Nat /\ loop_depth' \in Nat
      /\ \A d \in Depths : Deep'[d] = DepthOf(saved[Len(saved)], d)
  BY <1>1, <1>2, RestoredTypes
<1>7. saved \in Seq(Place) /\ leaves \in Seq(1..Len(source))
  BY <1>2 DEF Types
<1>8. leaves' \in Seq(1..Len(source))
  <2>1. Len(leaves) - Head(todo).drop \in Int
    BY <1>5, <1>7
  <2> QED
    BY <1>1, <1>7, <2>1, Kept
<1>9. /\ 1 \in 1..Len(todo) /\ Given(owed, 1) /\ \A d \in Depths : Turn(todo[1], d) = 0
      /\ Tail(todo) = SubSeq(todo, 1 + 1, Len(todo))
  <2>1. 1 + 1 = 2
    OBVIOUS
  <2>2. owed[1] # owed[2]
    BY <1>4, <1>5 DEF First
  <2> QED
    BY <1>4, <1>5, <2>1, <2>2 DEF First, Given
<1>10. Standing(<<>> \o SubSeq(todo, 1 + 1, Len(todo)), Seen, SubSeq(saved, 1, Len(saved) - 1),
                Deep', ~holes, ~errors)
  <2>1. \E o, b : Loose(Pool, <<>>, o, b, 0, Seen)
    BY EmptyIsLoose
  <2>2. ~errors => ~errors /\ 1 = 1
    OBVIOUS
  <2> QED
    BY <1>3, <1>6, <1>7, <1>9, <2>1, <2>2, Restored
<1>11. Types'
  <2>1. at' \in 1..Len(source) + 1
    <3>1. PICK T : source \in Seq(T)
      BY <1>2 DEF Types
    <3>2. Len(source) \in Nat
      BY <3>1
    <3> QED
      BY <1>6, <3>2
  <2> QED
    BY <1>1, <1>2, <1>6, <1>8, <2>1, TypesStay DEF Types
<1> QED
  BY <1>1, <1>6, <1>9, <1>10, <1>11, StaysSound
\* One rule is a loose course, and one with an error kept behind it.
LEMMA LooseRules ==
  ASSUME NEW r \in Rules, NEW g, Needs(r) \subseteq g, NEW k \in Nat
  PROVE  /\ \E o, b : Loose(Pool, <<Rule(r)>>, o, b, 0, g)
         /\ "using" \in g => \E o, b : Loose(Pool, <<Rule(r), Unchecked(k)>>, o, b, 0, g)
         /\ \E o, b : Loose(Pool, <<Skip, Rule(r)>>, o, b, 0, g)
<1>1. /\ <<Rule(r), 0, Needs(r)>> \in Pool /\ <<Skip, 0, {}>> \in Pool
      /\ <<Unchecked(k), 0, {"using"}>> \in Pool
  BY DEF Pool
<1>2. /\ Rule(r).op = "rule" /\ Skip.op = "next" /\ Unchecked(k).op = "unchecked"
  BY DEF Rule, Skip, Unchecked
<1>3. \A d \in Depths : Turn(Rule(r), d) = 0 /\ Turn(Skip, d) = 0 /\ Turn(Unchecked(k), d) = 0
  BY <1>2, NoTurn
<1> DEFINE R == Rule(r)
           N == Skip
           U == Unchecked(k)
           P == Needs(r)
<1>4. /\ <<R, 0, P>> \in Pool /\ <<N, 0, {}>> \in Pool /\ <<U, 0, {"using"}>> \in Pool
      /\ R.op # "save" /\ N.op # "save" /\ U.op # "save" /\ P \subseteq g
      /\ \A d \in Depths : Turn(R, d) = 0 /\ Turn(N, d) = 0 /\ Turn(U, d) = 0
  BY <1>1, <1>2, <1>3
<1> HIDE DEF R, N, U, P
<1>5. \E o, b : Loose(Pool, <<R>>, o, b, 0, g)
  <2>1. <<R>> \in Seq({R}) /\ Len(<<R>>) = 1 /\ \A i \in 1..1 : <<R>>[i] = R
    OBVIOUS
  <2> QED
    BY <1>4, <2>1, PlainLoose
<1>6. ASSUME "using" \in g
      PROVE  \E o, b : Loose(Pool, <<R, U>>, o, b, 0, g)
  <2> DEFINE q == <<R, U>>
  <2>1. q \in Seq({R, U}) /\ Len(q) = 2 /\ \A i \in 1..2 : q[i] = R \/ q[i] = U
    OBVIOUS
  <2> HIDE DEF q
  <2>2. \A i \in 1..Len(q) : /\ \E h \in SUBSET g : <<q[i], 0, h>> \in Pool
                             /\ \A d \in Depths : Turn(q[i], d) = 0
                             /\ q[i].op # "save"
    BY <1>4, <1>6, <2>1
  <2>3. \E o, b : Loose(Pool, q, o, b, 0, g)
    BY <2>1, <2>2, PlainLoose
  <2> QED
    BY <2>3 DEF q
<1>7. \E o, b : Loose(Pool, <<N, R>>, o, b, 0, g)
  <2> DEFINE q == <<N, R>>
  <2>1. q \in Seq({N, R}) /\ Len(q) = 2 /\ \A i \in 1..2 : q[i] = N \/ q[i] = R
    OBVIOUS
  <2> HIDE DEF q
  <2>2. \A i \in 1..Len(q) : /\ \E h \in SUBSET g : <<q[i], 0, h>> \in Pool
                             /\ \A d \in Depths : Turn(q[i], d) = 0
                             /\ q[i].op # "save"
    BY <1>4, <2>1
  <2>3. \E o, b : Loose(Pool, q, o, b, 0, g)
    BY <2>1, <2>2, PlainLoose
  <2> QED
    BY <2>3 DEF q
<1> QED
  BY <1>5, <1>6, <1>7 DEF R, N, U

\* The fields tried behind a "<", and what comes after them.
LEMMA LooseConcepts ==
  ASSUME NEW g, "<" \in g, NEW k \in Nat
  PROVE  \E o, b : Loose(Pool, <<Rule("fields"), Closing(k)>>, o, b, 1, g)
<1>1. "fields" \in Rules /\ Needs("fields") = {}
  BY RuleNames DEF Names, Needs
<1> DEFINE R == Rule("fields")
           C == Closing(k)
           q == <<R, C>>
           o == [i \in 1..3 |-> IF i = 3 THEN 0 ELSE 1]
           b == [d \in Depths |-> [i \in 1..3 |-> 0]]
<1>2. <<R, 0, {}>> \in Pool /\ <<C, 1, {"<"}>> \in Pool
  BY <1>1 DEF Pool
<1>3. R.op = "rule" /\ C.op = "closing"
  BY DEF Rule, Closing
<1>4. \A d \in Depths : Turn(R, d) = 0 /\ Turn(C, d) = 0
  BY <1>3, NoTurn
<1> HIDE DEF R, C
<1>5. q \in Seq({R, C}) /\ Len(q) = 2 /\ q[1] = R /\ q[2] = C
  OBVIOUS
<1>6. /\ o \in [1..2 + 1 -> Nat] /\ b \in [Depths -> [1..2 + 1 -> Nat]]
      /\ o[1] = 1 /\ o[2] = 1 /\ o[3] = 0
      /\ \A d \in Depths : b[d][1] = 0 /\ b[d][2] = 0 /\ b[d][3] = 0
  OBVIOUS
<1> HIDE DEF q, o, b
<1>7. \A i \in 1..2 : (i = 1 /\ i + 1 = 2) \/ (i = 2 /\ i + 1 = 3)
  OBVIOUS
<1>8. ASSUME NEW i \in 1..2
      PROVE  /\ o[i] = o[i + 1] \/ o[i] = o[i + 1] + 1
             /\ \E h \in SUBSET g : <<q[i], o[i] - o[i + 1], h>> \in Pool
             /\ \A d \in Depths : b[d][i] = b[d][i + 1] + Turn(q[i], d)
  <2>1. 1 - 1 = 0 /\ 1 - 0 = 1 /\ 0 + 1 = 1 /\ 0 + 0 = 0
    OBVIOUS
  <2>2. CASE i = 1 /\ i + 1 = 2
    BY <1>2, <1>4, <1>5, <1>6, <2>1, <2>2
  <2>3. CASE i = 2 /\ i + 1 = 3
    BY <1>2, <1>4, <1>5, <1>6, <2>1, <2>3
  <2> QED
    BY <1>7, <2>2, <2>3
<1>9. Course(Pool, q, o, b, g)
  BY <1>5, <1>6, <1>8 DEF Course
<1>10. Even(q, o, b)
  <2>1. 2 + 1 = 3
    OBVIOUS
  <2> QED
    BY <1>5, <1>6, <2>1 DEF Even
<1>11. \A i \in 1..Len(q) : q[i].op # "save" /\ \A d \in Depths : b[d][i] = 0
  BY <1>3, <1>5, <1>6, <1>7
<1>12. Loose(Pool, q, o, b, 1, g)
  BY <1>6, <1>9, <1>10, <1>11 DEF Loose
<1> QED
  BY <1>12 DEF q, R, C

\* postfix, after the fields
LEMMA CloseSound == ASSUME IInv, CloseConcepts PROVE IInv'
<1>1. /\ todo # <<>> /\ Head(todo).op = "closing" /\ Known
      /\ UNCHANGED <<text, source, errors, holes, verdict>>
  BY DEF CloseConcepts, Doing, Top
<1>2. Types /\ Standing(todo, Seen, saved, Deep, ~holes, ~errors)
  BY <1>1, Takes
<1>3. PICK owed, open : \E n \in {0, 1} : \E h :
        Stood(todo, Seen, saved, Deep, ~holes, ~errors, owed, open) /\ First(todo, Seen, owed, open, n, h)
  BY <1>1, <1>2, FirstStep
<1>4. PICK n, h : First(todo, Seen, owed, open, n, h)
  BY <1>3
<1>5. n = 1 /\ Head(todo).keep \in Nat /\ \A d \in Depths : Turn(Head(todo), d) = 0
  BY <1>1, <1>4, Owes, NoTurn DEF First
<1>6. saved \in Seq(Place) /\ leaves \in Seq(1..Len(source))
  BY <1>2 DEF Types
<1>7. Len(source) \in Nat /\ at \in 1..Len(source)
  BY <1>1, <1>2, TokenFacts
<1>8. CASE /\ at' = at + 1 /\ cut' = FALSE /\ PopState
           /\ Then(<<Rule("postfix_more")>>) /\ UNCHANGED <<depths, leaves>>
  <2>1. /\ saved # <<>> /\ saved' = SubSeq(saved, 1, Len(saved) - 1)
        /\ todo' = <<Rule("postfix_more")>> \o Tail(todo)
    BY <1>8 DEF PopState, Popped, Then, Rest
  <2>2. saved' \in Seq(Place)
    BY <1>2, <2>1, TopState DEF Popped
  <2>3. \E o, b : Loose(Pool, <<Rule("postfix_more")>>, o, b, 0, Seen)
    <3>1. "postfix_more" \in Rules /\ Needs("postfix_more") \subseteq Seen /\ 0 \in Nat
      BY RuleNames DEF Names, Needs
    <3> QED
      BY <3>1, LooseRules
  <2>4. Standing(<<Rule("postfix_more")>> \o Tail(todo), Seen, SubSeq(saved, 1, Len(saved) - 1),
                 Deep, ~holes, ~errors)
    BY <1>3, <1>4, <1>5, <1>6, <2>3, Released
  <2>5. Deep' = Deep
    BY <1>8 DEF Deep, depths
  <2>6. at' \in 1..Len(source) + 1
    BY <1>7, <1>8
  <2>7. Types'
    BY <1>1, <1>2, <1>8, <2>2, <2>6, TypesStay DEF Types, depths
  <2> QED
    BY <1>1, <2>1, <2>4, <2>5, <2>7, StaysSound
<1>9. CASE Keep(Head(todo).keep) /\ Restore /\ Then(ReturnNode2)
  <2>1. todo' = <<>> \o Tail(todo)
    BY <1>9 DEF Then, Rest, ReturnNode2
  <2>2. /\ saved' = SubSeq(saved, 1, Len(saved) - 1) /\ saved' \in Seq(Place)
        /\ at' \in 1..Len(source) /\ cut' \in BOOLEAN /\ fun_depth' \in Nat /\ loop_depth' \in Nat
        /\ \A d \in Depths : Deep'[d] = DepthOf(saved[Len(saved)], d)
    BY <1>2, <1>9, RestoredTypes
  <2>3. leaves' \in Seq(1..Len(source))
    BY <1>5, <1>6, <1>9, Kept
  <2>4. /\ 1 \in 1..Len(todo) /\ Given(owed, 1) /\ \A d \in Depths : Turn(todo[1], d) = 0
        /\ Tail(todo) = SubSeq(todo, 1 + 1, Len(todo))
    <3>1. 1 + 1 = 2
      OBVIOUS
    <3>2. owed[1] # owed[2]
      BY <1>4, <1>5 DEF First
    <3> QED
      BY <1>4, <1>5, <3>1, <3>2 DEF First, Given
  <2>5. Standing(<<>> \o SubSeq(todo, 1 + 1, Len(todo)), Seen, SubSeq(saved, 1, Len(saved) - 1),
                 Deep', ~holes, ~errors)
    <3>1. \E o, b : Loose(Pool, <<>>, o, b, 0, Seen)
      BY EmptyIsLoose
    <3>2. ~errors => ~errors /\ 1 = 1
      OBVIOUS
    <3> QED
      BY <1>3, <1>6, <2>2, <2>4, <3>1, <3>2, Restored
  <2>6. at' \in 1..Len(source) + 1
    BY <1>7, <2>2
  <2>7. Types'
    BY <1>1, <1>2, <2>2, <2>3, <2>6, TypesStay DEF Types
  <2> QED
    BY <1>1, <2>1, <2>2, <2>4, <2>5, <2>7, StaysSound
<1> QED
  BY <1>8, <1>9 DEF CloseConcepts, Top

\* The first step that goes on after an error is one of them.
LEMMA NearestCaller ==
  ASSUME NEW T, todo \in Seq(T), Callers # {}
  PROVE  Nearest \in 1..Len(todo) /\ todo[Nearest].op \in {"closing", "unchecked"}
<1>1. Callers \subseteq Nat /\ Callers \subseteq 1..Len(todo)
  BY DEF Callers
<1>2. \E i \in Callers : \A j \in Callers : i <= j
  BY <1>1, Least
<1>3. Nearest \in Callers
  BY <1>2 DEF Nearest
<1> QED
  BY <1>1, <1>3 DEF Callers

\* An error is returned.
LEMMA ErrorSound ==
  ASSUME IInv, todo # <<>>, Known, Head(todo).op \in {"match", "fail"}, Error
  PROVE  IInv'
<1>1. verdict = "parsing" /\ Types /\ Standing(todo, Seen, saved, Deep, ~holes, ~errors)
      /\ \A d \in Depths : Deep[d] \in Nat
  BY Takes
<1>2. errors' = TRUE /\ UNCHANGED <<text, source>>
  BY DEF Error
<1>3. Units' = Units /\ Seen' = Seen
  BY <1>2 DEF Units, Seen
<1>4. PICK owed, open : \E n \in {0, 1} : \E h :
        Stood(todo, Seen, saved, Deep, ~holes, ~errors, owed, open) /\ First(todo, Seen, owed, open, n, h)
  BY <1>1, FirstStep
<1>5. PICK T : todo \in Seq(T)
  BY <1>1 DEF Standing
<1>6. saved \in Seq(Place) /\ leaves \in Seq(1..Len(source)) /\ Len(source) \in Nat
      /\ at \in 1..Len(source) + 1 /\ errors' \in BOOLEAN /\ holes \in BOOLEAN
      /\ cut \in BOOLEAN /\ fun_depth \in Nat /\ loop_depth \in Nat
  <2>1. Len(source) \in Nat
    BY <1>1, TokenFacts
  <2> QED
    BY <1>1, <1>2, <2>1 DEF Types
<1>7. CASE /\ todo' = <<>> /\ verdict' = "rejected"
           /\ UNCHANGED <<scan, depths, saved, leaves, holes>>
  <2>1. Types'
    BY <1>1, <1>2, <1>6, <1>7, TypesStay DEF scan, depths
  <2> QED
    BY <1>1, <1>2, <1>3, <1>7, <2>1 DEF IInv
<1>8. CASE /\ Callers # {} /\ Keep(todo[Nearest].keep) /\ UNCHANGED verdict
           /\ todo[Nearest].op = "closing" /\ Restore
           /\ todo' = ReturnNode2 \o SubSeq(todo, Nearest + 1, Len(todo)) /\ UNCHANGED holes
  <2> DEFINE c == Nearest
  <2>1. c \in 1..Len(todo) /\ todo[c].op = "closing"
    BY <1>5, <1>8, NearestCaller
  <2>2. todo' = <<>> \o SubSeq(todo, c + 1, Len(todo))
    BY <1>8 DEF ReturnNode2
  <2>3. Keep(todo[c].keep)
    BY <1>8
  <2> HIDE DEF c
  <2>4. PICK h \in SUBSET Seen : Sound(Pool, todo[c], owed[c] - owed[c + 1], h)
    BY <1>4, <2>1, AtStep
  <2>5. /\ owed[c] - owed[c + 1] = 1 /\ todo[c].keep \in Nat /\ "<" \in h
        /\ \A d \in Depths : Turn(todo[c], d) = 0
    BY <2>1, <2>4, Owes, NoTurn
  <2>6. Given(owed, c)
    <3>1. Len(todo) \in Nat /\ owed \in [1..Len(todo) + 1 -> Nat]
      BY <1>4, <1>5 DEF Stood, Course
    <3>2. owed[c] \in Nat /\ owed[c + 1] \in Nat
      BY <2>1, <3>1
    <3> QED
      BY <2>5, <3>2 DEF Given
  <2>7. /\ saved' = SubSeq(saved, 1, Len(saved) - 1) /\ saved' \in Seq(Place)
        /\ at' \in 1..Len(source) /\ cut' \in BOOLEAN /\ fun_depth' \in Nat /\ loop_depth' \in Nat
        /\ \A d \in Depths : Deep'[d] = DepthOf(saved[Len(saved)], d)
    BY <1>1, <1>8, RestoredTypes
  <2>8. leaves' \in Seq(1..Len(source))
    BY <1>6, <2>3, <2>5, Kept
  <2>9. Standing(<<>> \o SubSeq(todo, c + 1, Len(todo)), Seen, SubSeq(saved, 1, Len(saved) - 1),
                 Deep', ~holes, FALSE)
    <3>1. \E o, b : Loose(Pool, <<>>, o, b, 0, Seen)
      BY EmptyIsLoose
    <3>2. FALSE => ~errors /\ c = 1
      OBVIOUS
    <3> QED
      BY <1>4, <1>6, <2>1, <2>5, <2>6, <2>7, <3>1, <3>2, Restored
  <2>10. Standing(todo', Seen', saved', Deep', ~holes', ~errors')
    <3>1. holes' = holes /\ (~errors') = FALSE
      BY <1>2, <1>8
    <3> QED
      BY <1>3, <2>2, <2>7, <2>9, <3>1
  <2>11. at' \in 1..Len(source) + 1
    BY <1>6, <2>7
  <2>12. Types'
    BY <1>1, <1>2, <1>6, <1>8, <2>7, <2>8, <2>11, TypesStay DEF Types
  <2>13. "<" \in Units
    BY <2>4, <2>5 DEF Seen
  <2> QED
    BY <1>1, <1>2, <1>3, <1>8, <2>10, <2>12, <2>13 DEF IInv
<1>9. CASE /\ Callers # {} /\ Keep(todo[Nearest].keep) /\ UNCHANGED verdict
           /\ todo[Nearest].op = "unchecked" /\ holes' = TRUE
           /\ todo' = SubSeq(todo, Nearest + 1, Len(todo))
           /\ UNCHANGED <<scan, depths, saved>>
  <2> DEFINE c == Nearest
  <2>1. c \in 1..Len(todo) /\ todo[c].op = "unchecked"
    BY <1>5, <1>9, NearestCaller
  <2>2. todo' = SubSeq(todo, c + 1, Len(todo)) /\ Keep(todo[c].keep)
    BY <1>9
  <2> HIDE DEF c
  <2>3. PICK h \in SUBSET Seen : Sound(Pool, todo[c], owed[c] - owed[c + 1], h)
    BY <1>4, <2>1, AtStep
  <2>4. todo[c].keep \in Nat /\ "using" \in h
    BY <2>1, <2>3, Owes
  <2>5. leaves' \in Seq(1..Len(source))
    BY <1>6, <2>2, <2>4, Kept
  <2>6. Standing(SubSeq(todo, c + 1, Len(todo)), Seen, saved, Deep, FALSE, FALSE)
    BY <1>1, <1>4, <2>1, Swallowed
  <2>7. Deep' = Deep
    BY <1>9 DEF Deep, depths
  <2>8. Standing(todo', Seen', saved', Deep', ~holes', ~errors')
    <3>1. (~holes') = FALSE /\ (~errors') = FALSE
      BY <1>2, <1>9
    <3> QED
      BY <1>3, <1>9, <2>2, <2>6, <2>7, <3>1
  <2>9. Types'
    <3>1. holes' \in BOOLEAN
      BY <1>9
    <3> QED
      BY <1>1, <1>2, <1>6, <1>9, <2>5, <3>1, TypesStay DEF Types, scan, depths
  <2>10. "using" \in Units
    BY <2>3, <2>4 DEF Seen
  <2> QED
    BY <1>1, <1>2, <1>3, <1>9, <2>8, <2>9, <2>10 DEF IInv
<1> QED
  BY <1>7, <1>8, <1>9 DEF Error
\* A sequence whose first step stays behind others put before it.
LEMMA StepStays ==
  ASSUME NEW q, NEW T, q \in Seq(T), q # <<>>, NEW p, NEW U, p \in Seq(U)
  PROVE  Append(p, Head(q)) \o Tail(q) = p \o q
<1> DEFINE X == T \union U
<1>1. p \in Seq(X) /\ q \in Seq(X) /\ Head(q) \in X /\ Tail(q) \in Seq(X)
  OBVIOUS
<1> HIDE DEF X
<1>2. Append(p, Head(q)) = p \o <<Head(q)>>
  BY <1>1
<1>3. <<Head(q)>> \in Seq(X)
  BY <1>1
<1>4. (p \o <<Head(q)>>) \o Tail(q) = p \o (<<Head(q)>> \o Tail(q))
  BY <1>1, <1>3, ConcatAssociative
<1>5. <<Head(q)>> \o Tail(q) = q
  BY <1>1
<1> QED
  BY <1>2, <1>4, <1>5

\* Calls, conditions and loops.
LEMMA ControlSound == ASSUME IInv, Control PROVE IInv'
<1>1. /\ todo # <<>> /\ Known
      /\ UNCHANGED <<text, source, scan, saved, depths, leaves, errors, holes, verdict>>
  BY DEF Control, Doing
<1>2. Types /\ Standing(todo, Seen, saved, Deep, ~holes, ~errors)
  BY <1>1, Takes
<1>3. Types' /\ Deep' = Deep
  BY <1>1, <1>2 DEF Types, Place, scan, depths, Deep
<1>4. SUFFICES Standing(todo', Seen, saved, Deep, ~holes, ~errors)
  BY <1>1, <1>3, StaysSound
<1>5. Head(todo).op # "save" /\ Head(todo).op \notin {"enter", "leave"}
  BY DEF Control, Doing, Top
<1>6. PICK owed, open : \E n \in {0, 1} : \E h :
        Stood(todo, Seen, saved, Deep, ~holes, ~errors, owed, open) /\ First(todo, Seen, owed, open, n, h)
  BY <1>1, <1>2, <1>5, FirstStep
<1>7. PICK n \in {0, 1} : \E h : First(todo, Seen, owed, open, n, h)
  BY <1>6
<1>8. PICK h : First(todo, Seen, owed, open, n, h)
  BY <1>7
<1>9. Stood(todo, Seen, saved, Deep, ~holes, ~errors, owed, open)
  BY <1>6
<1>10. h \subseteq Seen /\ Sound(Pool, Head(todo), n, h)
  BY <1>8 DEF First
<1>11. \A d \in Depths : Turn(Head(todo), d) = 0
  BY <1>5, NoTurn
<1>12. \A p : Arm(Pool, p, n, Seen) => Standing(p \o Tail(todo), Seen, saved, Deep, ~holes, ~errors)
  BY <1>8, <1>9, <1>11, TurnedTo
<1>13. \A p : Flow(Pool, p, n, h) => Standing(p \o Tail(todo), Seen, saved, Deep, ~holes, ~errors)
  BY <1>10, <1>12, MoreFlows DEF Arm
<1>14. PICK T : todo \in Seq(T)
  BY <1>2 DEF Standing
<1>15. ASSUME NEW p, NEW U, p \in Seq(U), \E o, b : Loose(Pool, p, o, b, 0, Seen)
       PROVE  Standing(Append(p, Head(todo)) \o Tail(todo), Seen, saved, Deep, ~holes, ~errors)
  <2>1. Standing(p \o todo, Seen, saved, Deep, ~holes, ~errors)
    BY <1>8, <1>9, <1>15, Again
  <2>2. Append(p, Head(todo)) \o Tail(todo) = p \o todo
    BY <1>1, <1>14, <1>15, StepStays
  <2> QED
    BY <2>1, <2>2
<1>16. n = 0 => Standing(<<>> \o Tail(todo), Seen, saved, Deep, ~holes, ~errors)
  BY <1>8, <1>9, <1>11, Passed
<1>17. Len(leaves) \in Nat
  BY <1>2 DEF Types
<1>18. CASE Doing("rule") /\ Then(Grammar[Top.rule])
  <2>1. Head(todo).op = "rule" /\ todo' = Grammar[Head(todo).rule] \o Tail(todo)
    BY <1>18 DEF Doing, Then, Top, Rest
  <2>2. n = 0 /\ Head(todo).rule \in Rules /\ Needs(Head(todo).rule) \subseteq h
    BY <1>10, <2>1 DEF Sound
  <2>3. Needs(Head(todo).rule) \subseteq Seen
    BY <1>10, <2>2
  <2>4. Arm(Pool, Grammar[Head(todo).rule], 0, Needs(Head(todo).rule))
    BY <2>2, PoolIsSound
  <2>5. Arm(Pool, Grammar[Head(todo).rule], 0, Seen)
    BY <2>3, <2>4, MoreFlows
  <2> QED
    BY <1>12, <2>1, <2>2, <2>5
<1>19. CASE /\ Doing("branch")
            /\ Then(IF Token \in DOMAIN Top.arms THEN Top.arms[Token] ELSE Top.other)
  <2> DEFINE s == Head(todo)
  <2>1. /\ s.op = "branch"
        /\ todo' = (IF Token \in DOMAIN s.arms THEN s.arms[Token] ELSE s.other) \o Tail(todo)
    BY <1>19 DEF Doing, Then, Top, Rest
  <2>2. /\ \A t \in DOMAIN s.arms : Arm(Pool, s.arms[t], n, h \union ({t} \intersect Words))
        /\ Arm(Pool, s.other, n, h)
    BY <1>10, <2>1 DEF Sound
  <2>3. {Token} \intersect Words \subseteq Seen
    BY <1>1, <1>2, TokenFacts DEF Seen
  <2>4. h \union ({Token} \intersect Words) \subseteq Seen
    BY <1>10, <2>3
  <2>5. CASE Token \in DOMAIN s.arms
    <3>1. Arm(Pool, s.arms[Token], n, h \union ({Token} \intersect Words))
      BY <2>2, <2>5
    <3>2. Arm(Pool, s.arms[Token], n, Seen)
      BY <2>4, <3>1, MoreFlows
    <3>3. todo' = s.arms[Token] \o Tail(todo)
      BY <2>1, <2>5
    <3> QED
      BY <1>12, <3>2, <3>3
  <2>6. CASE Token \notin DOMAIN s.arms
    <3>1. Arm(Pool, s.other, n, Seen)
      BY <1>10, <2>2, MoreFlows
    <3>2. todo' = s.other \o Tail(todo)
      BY <2>1, <2>6
    <3> QED
      BY <1>12, <3>1, <3>2
  <2> QED
    BY <2>5, <2>6
<1>20. CASE /\ Doing("chain")
            /\ Then(IF Token \in Top.on THEN <<Skip, Rule(Top.rule), Top>> ELSE <<>>)
  <2> DEFINE r == Head(todo).rule
  <2>1. /\ Head(todo).op = "chain"
        /\ todo' = (IF Token \in Head(todo).on THEN <<Skip, Rule(r), Head(todo)>> ELSE <<>>) \o Tail(todo)
    BY <1>20 DEF Doing, Then, Top, Rest
  <2>2. n = 0 /\ r \in Rules /\ Needs(r) \subseteq h
    BY <1>10, <2>1 DEF Sound
  <2> HIDE DEF r
  <2>3. Needs(r) \subseteq Seen
    BY <1>10, <2>2
  <2>4. \E o, b : Loose(Pool, <<Skip, Rule(r)>>, o, b, 0, Seen)
    BY <2>2, <2>3, <1>17, LooseRules
  <2>5. Append(<<Skip, Rule(r)>>, Head(todo)) = <<Skip, Rule(r), Head(todo)>>
    <3> DEFINE x == Skip
               y == Rule(r)
               z == Head(todo)
               q == <<x, y>>
    <3> HIDE DEF x, y, z
    <3>1. q \in Seq({x, y, z}) /\ z \in {x, y, z}
      OBVIOUS
    <3>2. q \o <<z>> = <<x, y, z>>
      BY TupleJoins
    <3> HIDE DEF q
    <3>3. Append(q, z) = q \o <<z>>
      BY <3>1
    <3>4. Append(q, z) = <<x, y, z>>
      BY <3>2, <3>3
    <3> QED
      BY ONLY <3>4 DEF x, y, z, q
  <2>6. <<Skip, Rule(r)>> \in Seq({Skip, Rule(r)})
    OBVIOUS
  <2>7. Standing(<<Skip, Rule(r), Head(todo)>> \o Tail(todo), Seen, saved, Deep, ~holes, ~errors)
    BY <1>15, <2>4, <2>5, <2>6
  <2>8. CASE Token \in Head(todo).on
    BY <2>1, <2>7, <2>8
  <2>9. CASE Token \notin Head(todo).on
    BY <1>16, <2>1, <2>2, <2>9
  <2> QED
    BY <2>8, <2>9
<1>21. CASE \/ Doing("repeat") /\ Then(IF Token = Top.on THEN Append(Top.steps, Top) ELSE <<>>)
            \/ Doing("until") /\ Then(IF Token = Top.on THEN <<>> ELSE Append(Top.steps, Top))
  <2> DEFINE p == Head(todo).steps
  <2>1. /\ Head(todo).op \in {"repeat", "until"}
        /\ todo' = Append(p, Head(todo)) \o Tail(todo) \/ todo' = <<>> \o Tail(todo)
    BY <1>21 DEF Doing, Then, Top, Rest
  <2>2. n = 0 /\ Flow(Pool, p, 0, h)
    BY <1>10, <2>1 DEF Sound
  <2> HIDE DEF p
  <2>3. Flow(Pool, p, 0, Seen)
    BY <1>10, <2>2, MoreFlows
  <2>4. PICK o, b : Loose(Pool, p, o, b, 0, Seen)
    BY <2>3, FlowIsLoose
  <2>5. PICK U : p \in Seq(U)
    BY <2>4 DEF Loose, Course
  <2>6. Standing(Append(p, Head(todo)) \o Tail(todo), Seen, saved, Deep, ~holes, ~errors)
    BY <1>15, <2>4, <2>5
  <2> QED
    BY <1>16, <2>1, <2>2, <2>6
<1>22. CASE /\ Doing("within")
            /\ Then(IF (IF Top.in = "loop" THEN loop_depth ELSE fun_depth) > 0
                    THEN Top.steps ELSE Top.other)
  <2>1. /\ Head(todo).op = "within"
        /\ todo' = Head(todo).steps \o Tail(todo) \/ todo' = Head(todo).other \o Tail(todo)
    BY <1>22 DEF Doing, Then, Top, Rest
  <2>2. n = 0 /\ Flow(Pool, Head(todo).steps, 0, h) /\ Flow(Pool, Head(todo).other, 0, h)
    BY <1>10, <2>1 DEF Sound
  <2> QED
    BY <1>13, <2>1, <2>2
<1>23. CASE /\ Doing("concepts")
            /\ Then(<<Rule("fields"), [op |-> "closing", keep |-> Len(leaves)]>>)
  <2>1. /\ Head(todo).op = "concepts"
        /\ todo' = <<Rule("fields"), Closing(Len(leaves))>> \o Tail(todo)
    BY <1>23 DEF Doing, Then, Top, Rest, Closing
  <2>2. n = 1 /\ "<" \in h
    BY <1>10, <2>1, Owes
  <2>3. \E o, b : Loose(Pool, <<Rule("fields"), Closing(Len(leaves))>>, o, b, 1, Seen)
    BY <1>10, <1>17, <2>2, LooseConcepts
  <2> QED
    BY <1>8, <1>9, <1>11, <2>1, <2>2, <2>3, Turned
<1>24. CASE /\ Doing("careless")
            /\ Then(<<Rule(Top.rule), [op |-> "unchecked", keep |-> Len(leaves)]>>)
  <2> DEFINE r == Head(todo).rule
  <2>1. /\ Head(todo).op = "careless"
        /\ todo' = <<Rule(r), Unchecked(Len(leaves))>> \o Tail(todo)
    BY <1>24 DEF Doing, Then, Top, Rest, Unchecked
  <2>2. n = 0 /\ "using" \in h /\ r \in Rules /\ Needs(r) \subseteq h
    BY <1>10, <2>1 DEF Sound
  <2> HIDE DEF r
  <2>3. Needs(r) \subseteq Seen /\ "using" \in Seen
    BY <1>10, <2>2
  <2>4. \E o, b : Loose(Pool, <<Rule(r), Unchecked(Len(leaves))>>, o, b, 0, Seen)
    BY <1>17, <2>2, <2>3, LooseRules
  <2> QED
    BY <1>8, <1>9, <1>11, <2>1, <2>2, <2>4, Turned
<1>25. CASE Doing("unchecked") /\ Then(<<>>)
  <2>1. Head(todo).op = "unchecked" /\ todo' = <<>> \o Tail(todo)
    BY <1>25 DEF Doing, Then, Top, Rest
  <2>2. n = 0
    BY <1>10, <2>1, Owes
  <2> QED
    BY <1>16, <2>1, <2>2
<1> QED
  BY <1>18, <1>19, <1>20, <1>21, <1>22, <1>23, <1>24, <1>25 DEF Control

\* fun_depth and loop_depth around a body
LEMMA BodySound == ASSUME IInv, EnterBody \/ LeaveBody PROVE IInv'
<1>1. /\ todo # <<>> /\ Head(todo).op \in {"enter", "leave"}
      /\ UNCHANGED <<text, source, scan, saved, leaves, errors, holes, verdict>>
      /\ todo' = <<>> \o Tail(todo)
  BY DEF EnterBody, LeaveBody, Doing, Top, Then, Rest
<1>2. /\ Types /\ Standing(todo, Seen, saved, Deep, ~holes, ~errors)
      /\ \A d \in Depths : Deep[d] \in Nat
  BY <1>1, Takes
<1>3. PICK owed, open : \E n \in {0, 1} : \E h :
        Stood(todo, Seen, saved, Deep, ~holes, ~errors, owed, open) /\ First(todo, Seen, owed, open, n, h)
  BY <1>1, <1>2, FirstStep
<1>4. PICK n, h : First(todo, Seen, owed, open, n, h)
  BY <1>3
<1>5. n = 0 /\ Head(todo).in \in Depths
  BY <1>1, <1>4, Owes DEF First
<1>6. /\ Deep["loop"] = loop_depth /\ Deep["fun"] = fun_depth
      /\ Deep'["loop"] = loop_depth' /\ Deep'["fun"] = fun_depth'
  BY DEF Deep, Depths
<1>7. fun_depth \in Nat /\ loop_depth \in Nat
  BY <1>2 DEF Types
<1>8. \A d \in Depths : Deep'[d] = Deep[d] - Turn(Head(todo), d)
  <2>1. CASE EnterBody
    <3>1. /\ Head(todo).op = "enter"
          /\ loop_depth' = IF Head(todo).in = "loop" THEN loop_depth + 1 ELSE loop_depth
          /\ fun_depth' = IF Head(todo).in = "fun" THEN fun_depth + 1 ELSE fun_depth
      BY <2>1 DEF EnterBody, Doing, Top
    <3> QED
      BY <1>6, <1>7, <3>1 DEF Turn, Depths
  <2>2. CASE LeaveBody
    <3>1. /\ Head(todo).op = "leave"
          /\ loop_depth' = IF Head(todo).in = "loop" THEN loop_depth - 1 ELSE loop_depth
          /\ fun_depth' = IF Head(todo).in = "fun" THEN fun_depth - 1 ELSE fun_depth
      BY <2>2 DEF LeaveBody, Doing, Top
    <3> QED
      BY <1>6, <1>7, <3>1 DEF Turn, Depths
  <2> QED
    BY <2>1, <2>2
<1>9. /\ Standing(<<>> \o Tail(todo), Seen, saved, Deep', ~holes, ~errors)
      /\ \A d \in Depths : Deep'[d] \in Nat
  BY <1>2, <1>3, <1>4, <1>5, <1>8, TurnedBody
<1>10. fun_depth' \in Nat /\ loop_depth' \in Nat
  BY <1>6, <1>9 DEF Depths
<1>11. Types'
  BY <1>1, <1>2, <1>10, TypesStay DEF Types, scan
<1> QED
  BY <1>1, <1>9, <1>11, StaysSound

\* The parser begins with the rule of a module.
LEMMA InitSound == Init => IInv
<1> SUFFICES ASSUME Init
             PROVE  IInv
  OBVIOUS
<1>1. /\ text \in Texts /\ source = text.first /\ at = 1 /\ cut = FALSE
      /\ todo = Grammar["module"] /\ saved = <<>> /\ fun_depth = 0 /\ loop_depth = 0
      /\ leaves = <<>> /\ errors = FALSE /\ holes = FALSE /\ verdict = "parsing"
  BY DEF Init
<1>2. source \in Seq(STRING) /\ \A i \in DOMAIN source : source[i] \notin Longer
  BY <1>1, TextAssumption
<1>3. Types
  <2>1. Len(source) \in Nat /\ 1 \in 1..Len(source) + 1
    BY <1>2
  <2>2. saved \in Seq(Place) /\ leaves \in Seq(1..Len(source))
    BY <1>1
  <2>3. {cut, errors, holes} \subseteq BOOLEAN /\ verdict \in {"parsing", "accepted", "rejected"}
    BY <1>1
  <2>4. fun_depth \in Nat /\ loop_depth \in Nat /\ at \in 1..Len(source) + 1
    BY <1>1, <2>1
  <2> QED
    BY <1>1, <1>2, <2>2, <2>3, <2>4 DEF Types
<1> DEFINE r == "module"
           q == <<Rule("module")>>
<1>4. r \in Rules /\ Needs(r) = {} /\ 0 \in Nat
  BY RuleNames DEF Names, Needs
<1>5. PICK o, b : Loose(Pool, q, o, b, 0, Seen)
  BY <1>4, LooseRules
<1>6. q \in Seq({Rule("module")}) /\ Len(q) = 1 /\ Head(q) = Rule("module") /\ Tail(q) = <<>> /\ q # <<>>
  OBVIOUS
<1>7. Rule("module").op = "rule" /\ Rule("module").rule = "module"
  BY DEF Rule
<1> HIDE DEF q
<1>8. /\ Course(Pool, q, o, b, Seen) /\ Shape(q, o, b)
      /\ o[1] = 0 /\ \A d \in Depths : b[d][1] = 0
      /\ \A i \in 1..Len(q) : ~Given(o, i)
  <2>1. Course(Pool, q, o, b, Seen) /\ Even(q, o, b) /\ o[1] = 0 /\ \A d \in Depths : b[d][1] = 0
    BY <1>5 DEF Loose
  <2>2. \A i \in 1..Len(q) : i = 1
    BY <1>6
  <2>3. ~Given(o, 1)
    <3>1. 1 + 1 = Len(q) + 1
      BY <1>6
    <3> QED
      BY <2>1, <3>1 DEF Even, Given
  <2>4. q[1].op # "save" /\ q[1].op # "unchecked"
    BY <1>6, <1>7 DEF q
  <2> QED
    BY <2>1, <2>2, <2>3, <2>4 DEF Shape
<1>9. Account(o, b, Len(q), Len(saved), saved, Deep, ~holes)
  <2>1. Len(saved) = 0 /\ Len(saved) \in Nat /\ 0 <= 0
    BY <1>1
  <2>2. \A d \in Depths : Deep[d] = 0
    BY <1>1 DEF Deep
  <2> QED
    BY <1>8, <2>1, <2>2 DEF Account
<1>10. Standing(q, Seen, saved, Deep, ~holes, ~errors)
  <2>1. ~Held(q)
    BY <1>6, <1>7 DEF Held
  <2>2. ~errors => o[1] = Len(saved)
    BY <1>1, <1>8
  <2> QED
    BY <1>6, <1>8, <1>9, <2>1, <2>2 DEF Standing, Stands, Line, Due
<1>11. PICK owed, open : \E n \in {0, 1} : \E h :
         Stood(q, Seen, saved, Deep, ~holes, ~errors, owed, open) /\ First(q, Seen, owed, open, n, h)
  <2>1. Head(q).op # "save"
    BY <1>6, <1>7
  <2> QED
    BY <1>6, <1>10, <2>1, FirstStep
<1>12. PICK n, h : First(q, Seen, owed, open, n, h)
  BY <1>11
<1>13. n = 0 /\ \A d \in Depths : Turn(Head(q), d) = 0
  BY <1>6, <1>7, <1>12, Owes, NoTurn DEF First
<1>14. Arm(Pool, Grammar["module"], 0, Seen)
  <2>1. Arm(Pool, Grammar["module"], 0, {}) /\ {} \subseteq Seen
    BY <1>4, PoolIsSound
  <2> QED
    BY <2>1, MoreFlows
<1>15. Standing(Grammar["module"] \o Tail(q), Seen, saved, Deep, ~holes, ~errors)
  BY <1>11, <1>12, <1>13, <1>14, TurnedTo
<1>16. Grammar["module"] \o Tail(q) = todo
  <2>1. PICK U : Grammar["module"] \in Seq(U)
    <3>1. Grammar["module"] = module
      BY Entries
    <3> QED
      BY <3>1, Modules DEF Straight
  <2>2. Grammar["module"] \o <<>> = Grammar["module"]
    BY <2>1
  <2> QED
    BY <1>1, <1>6, <2>2
<1> QED
  BY <1>1, <1>3, <1>15, <1>16 DEF IInv

\* Every step keeps the invariant.
LEMMA NextSound == IInv /\ [Next]_vars => IInv'
<1> SUFFICES ASSUME IInv, [Next]_vars
             PROVE  IInv'
  OBVIOUS
<1>1. CASE Mismatch \/ Refuse
  <2>1. todo # <<>> /\ Known /\ Head(todo).op \in {"match", "fail"} /\ Error
    BY <1>1 DEF Mismatch, Refuse, Doing, Top
  <2> QED
    BY <2>1, ErrorSound
<1>2. CASE Accept
  <2>1. /\ verdict = "parsing" /\ todo = <<>> /\ verdict' = "accepted"
        /\ UNCHANGED <<text, source, scan, todo, saved, depths, leaves, errors, holes>>
    BY <1>2 DEF Accept
  <2>2. Units' = Units /\ Seen' = Seen /\ Deep' = Deep /\ Types'
    BY <2>1 DEF IInv, Units, Seen, Deep, Types, Place, scan, depths
  <2> QED
    BY <2>1, <2>2 DEF IInv
<1>3. CASE UNCHANGED vars
  BY <1>3 DEF IInv, Types, Place, Units, Seen, Deep, vars, scan, depths
<1> QED
  BY <1>1, <1>2, <1>3, ReadSound, SaveSound, ReleaseSound, TokenSound, ControlSound, BodySound,
     CloseSound, ForRestoreSound DEF Next, Step, Finished
-----------------------------------------------------------------------------
(***************************************************************************)
(* What the invariant says of the bodies and of accepted modules.          *)
(***************************************************************************)
\* A number that grows by one at the places of A, falls by one at those of B,
\* read from the end, is what there are more of A than of B.
Tallied(f, n, A, B) ==
  /\ n \in Nat /\ f \in [1..n + 1 -> Int] /\ f[n + 1] = 0
  /\ A \subseteq 1..n /\ B \subseteq 1..n
  /\ \A i \in 1..n : f[i] = (f[i + 1] + IF i \in A THEN 1 ELSE 0) - IF i \in B THEN 1 ELSE 0

\* Both sets are finite, and the number at the start is their difference.
LEMMA Tally ==
  ASSUME NEW n, NEW f, NEW A, NEW B, Tallied(f, n, A, B)
  PROVE  /\ IsFiniteSet(A) /\ IsFiniteSet(B)
         /\ Cardinality(A) - Cardinality(B) = f[1]
<1>0. /\ n \in Nat /\ f \in [1..n + 1 -> Int] /\ f[n + 1] = 0
      /\ A \subseteq 1..n /\ B \subseteq 1..n
      /\ \A i \in 1..n : f[i] = (f[i + 1] + IF i \in A THEN 1 ELSE 0) - IF i \in B THEN 1 ELSE 0
  BY DEF Tallied
<1> USE <1>0
<1>1. IsFiniteSet(A) /\ IsFiniteSet(B)
  <2>1. IsFiniteSet(1..n)
    BY FS_Interval
  <2> QED
    BY <2>1, FS_Subset
<1> DEFINE From(S, i) == {j \in S : i <= j}
           count(S, i) == Cardinality(From(S, i))
<1>2. \A i \in 1..n + 1 : /\ IsFiniteSet(From(A, i)) /\ IsFiniteSet(From(B, i))
                          /\ count(A, i) \in Nat /\ count(B, i) \in Nat
  <2>1. \A i \in 1..n + 1 : From(A, i) \subseteq A /\ From(B, i) \subseteq B
    OBVIOUS
  <2> HIDE DEF From
  <2> QED
    BY <1>1, <2>1, FS_Subset, FS_CardinalityType
<1>3. ASSUME NEW S, S \subseteq 1..n, NEW i \in 1..n, IsFiniteSet(From(S, i + 1))
      PROVE  count(S, i) = count(S, i + 1) + IF i \in S THEN 1 ELSE 0
  <2>0. i \in Int /\ \A j \in S : j \in Int
    BY <1>3
  <2>1. CASE i \in S
    <3>1. From(S, i) = From(S, i + 1) \union {i} /\ i \notin From(S, i + 1)
      <4>1. \A j \in S : i <= j <=> (j = i \/ i + 1 <= j)
        BY <1>3, <2>0
      <4>2. ~(i + 1 <= i)
        BY <1>3
      <4> QED
        BY <2>1, <4>1, <4>2
    <3> HIDE DEF From
    <3>2. Cardinality(From(S, i)) = Cardinality(From(S, i + 1)) + 1
      BY <1>3, <3>1, FS_AddElement
    <3> QED
      BY <2>1, <3>2
  <2>2. CASE i \notin S
    <3>1. From(S, i) = From(S, i + 1)
      <4>1. \A j \in S : j # i => (i <= j <=> i + 1 <= j)
        BY <1>3, <2>0
      <4> QED
        BY <2>2, <4>1
    <3>2. Cardinality(From(S, i + 1)) \in Nat
      BY <1>3, FS_CardinalityType
    <3> HIDE DEF From
    <3> QED
      BY <2>2, <3>1, <3>2
  <2> QED
    BY <2>1, <2>2
<1>4. count(A, n + 1) = 0 /\ count(B, n + 1) = 0
  <2>1. \A j \in 1..n : ~(n + 1 <= j)
    OBVIOUS
  <2>2. (\A j \in A : ~(n + 1 <= j)) /\ \A j \in B : ~(n + 1 <= j)
    BY <2>1
  <2>3. From(A, n + 1) = {} /\ From(B, n + 1) = {}
    BY <2>2
  <2> QED
    BY <2>3, FS_EmptySet
<1>5. From(A, 1) = A /\ From(B, 1) = B
  <2>1. (\A j \in A : 1 <= j) /\ \A j \in B : 1 <= j
    OBVIOUS
  <2> QED
    BY <2>1
<1> HIDE DEF From
<1> DEFINE T == {m \in 0..n : count(A, n + 1 - m) - count(B, n + 1 - m) # f[n + 1 - m]}
<1>6. T = {}
  <2> SUFFICES ASSUME T # {}
               PROVE  FALSE
    OBVIOUS
  <2>1. T \subseteq Nat
    OBVIOUS
  <2>2. PICK m \in T : \A y \in T : m <= y
    BY <2>1, Least
  <2>3. m \in 0..n /\ count(A, n + 1 - m) - count(B, n + 1 - m) # f[n + 1 - m]
    OBVIOUS
  <2>4. m # 0
    <3> SUFFICES ASSUME m = 0
                 PROVE  FALSE
      OBVIOUS
    <3>1. n + 1 - m = n + 1
      OBVIOUS
    <3> QED
      BY <1>4, <2>3, <3>1
  <2> DEFINE i == n + 1 - m
  <2>5. /\ i \in 1..n /\ i + 1 \in 1..n + 1 /\ i \in 1..n + 1
        /\ m - 1 \in 0..n /\ n + 1 - (m - 1) = i + 1 /\ ~(m <= m - 1)
    BY <2>3, <2>4
  <2>6. m - 1 \notin T
    BY <2>2, <2>5
  <2>7. count(A, i + 1) - count(B, i + 1) = f[i + 1]
    BY <2>5, <2>6
  <2>8. count(A, i) - count(B, i) # f[i]
    BY <2>3
  <2> HIDE DEF T, i
  <2>9. /\ count(A, i) = count(A, i + 1) + IF i \in A THEN 1 ELSE 0
        /\ count(B, i) = count(B, i + 1) + IF i \in B THEN 1 ELSE 0
    BY <1>2, <1>3, <2>5
  <2>10. count(A, i + 1) \in Nat /\ count(B, i + 1) \in Nat /\ f[i + 1] \in Int
    BY <1>2, <2>5
  <2>11. f[i] = (f[i + 1] + IF i \in A THEN 1 ELSE 0) - IF i \in B THEN 1 ELSE 0
    BY <2>5
  <2> HIDE DEF count
  <2> QED
    BY <2>7, <2>8, <2>9, <2>10, <2>11
<1>7. n \in 0..n /\ n + 1 - n = 1
  OBVIOUS
<1>8. count(A, 1) - count(B, 1) = f[1]
  BY <1>6, <1>7
<1> QED
  BY <1>1, <1>5, <1>8

\* The course of all steps still to take, the one that saves a state included.
Overall(q, kept, deep, sure, owed, open) ==
  /\ Len(q) \in Nat
  /\ owed \in [1..Len(q) + 1 -> Nat] /\ owed[Len(q) + 1] = 0
  /\ open \in [Depths -> [1..Len(q) + 1 -> Nat]] /\ \A d \in Depths : open[d][Len(q) + 1] = 0
  /\ \A i \in 1..Len(q) :
       /\ owed[i] = owed[i + 1] \/ owed[i] = owed[i + 1] + 1
       /\ q[i].op = "closing" => Given(owed, i)
       /\ \A d \in Depths : open[d][i] = open[d][i + 1] + Turn(q[i], d)
  /\ Held(q) => \E i \in 1..Len(q) : Given(owed, i) /\ q[i].op # "closing"
  /\ owed[1] <= Due(q, kept)
  /\ \A d \in Depths : open[d][1] <= deep[d]
  /\ sure /\ owed[1] = Due(q, kept) => \A d \in Depths : deep[d] = open[d][1]

\* There is such a course while the invariant holds.
LEMMA HasOverall ==
  ASSUME NEW q, NEW g, NEW kept, NEW deep, NEW sure, NEW exact,
         Standing(q, g, kept, deep, sure, exact)
  PROVE  \E owed, open : Overall(q, kept, deep, sure, owed, open)
<1>1. PICK owed, open : Stands(q, owed, open, g, kept, deep, sure, exact)
  BY DEF Standing
<1>2. PICK T : q \in Seq(T)
  BY DEF Standing
<1> DEFINE r == Line(q)
           m == Len(r)
<1>3. Course(Pool, r, owed, open, g) /\ Shape(r, owed, open)
  BY <1>1 DEF Stands
<1>4. m \in Nat
  BY <1>3, CourseFalls
<1>5. /\ owed \in [1..m + 1 -> Nat] /\ open \in [Depths -> [1..m + 1 -> Nat]]
      /\ owed[m + 1] = 0 /\ \A d \in Depths : open[d][m + 1] = 0
  BY <1>3 DEF Course, Shape, Even
<1>6. ASSUME NEW i \in 1..m
      PROVE  /\ owed[i] = owed[i + 1] \/ owed[i] = owed[i + 1] + 1
             /\ r[i].op = "closing" => Given(owed, i)
             /\ \A d \in Depths : open[d][i] = open[d][i + 1] + Turn(r[i], d)
  <2>1. PICK h \in SUBSET g : <<r[i], owed[i] - owed[i + 1], h>> \in Pool
    BY <1>3 DEF Course
  <2> DEFINE n == owed[i] - owed[i + 1]
             x == <<r[i], n, h>>
  <2>2. x \in Pool /\ x[1] = r[i] /\ x[2] = n /\ x[3] = h
    BY <2>1
  <2> HIDE DEF x, n
  <2>3. Sound(Pool, x[1], x[2], x[3])
    BY <2>2, PoolIsSound DEF Closed
  <2>4. r[i].op = "closing" => n = 1
    BY <2>2, <2>3, Owes
  <2>5. n = 1 => Given(owed, i)
    <3>1. i \in 1..m + 1 /\ i + 1 \in 1..m + 1
      BY <1>4
    <3>2. owed[i] \in Nat /\ owed[i + 1] \in Nat
      BY <1>5, <3>1
    <3> QED
      BY <3>2 DEF n, Given
  <2> QED
    BY <1>3, <2>4, <2>5 DEF Course
<1>7. /\ owed[1] <= Due(q, kept)
      /\ \A d \in Depths : open[d][1] <= deep[d]
      /\ sure /\ owed[1] = Due(q, kept) => \A d \in Depths : deep[d] = open[d][1]
  BY <1>1 DEF Stands, Account
<1>8. CASE ~Held(q)
  <2>1. r = q
    BY <1>8 DEF Line
  <2>2. Overall(q, kept, deep, sure, owed, open)
    BY <1>4, <1>5, <1>6, <1>7, <1>8, <2>1 DEF Overall
  <2> QED
    BY <2>2
<1>9. CASE Held(q)
  <2>1. /\ r = Tail(q) /\ q # <<>> /\ Head(q).op = "save" /\ Head(q) = q[1]
        /\ Len(q) = m + 1 /\ \A i \in 1..m : r[i] = q[i + 1]
    BY <1>2, <1>9 DEF Line, Held
  <2> HIDE DEF r, m
  <2> DEFINE o == [i \in 1..m + 2 |-> IF i = 1 THEN owed[1] ELSE owed[i - 1]]
             b == [d \in Depths |-> [i \in 1..m + 2 |-> IF i = 1 THEN open[d][1] ELSE open[d][i - 1]]]
  <2>2. \A i \in 1..m + 1 : i \in 1..m + 2 /\ i + 1 \in 1..m + 2 /\ i + 1 # 1 /\ (i + 1) - 1 = i
    BY <1>4
  <2>3. /\ \A i \in 1..m + 1 : o[i + 1] = owed[i] /\ \A d \in Depths : b[d][i + 1] = open[d][i]
        /\ o[1] = owed[1] /\ \A d \in Depths : b[d][1] = open[d][1]
    BY <1>4, <2>2
  <2>4. /\ o \in [1..m + 2 -> Nat] /\ b \in [Depths -> [1..m + 2 -> Nat]]
    <3>1. \A i \in 1..m + 2 : i # 1 => i - 1 \in 1..m + 1
      BY <1>4
    <3>2. 1 \in 1..m + 1
      BY <1>4
    <3> QED
      BY <1>5, <3>1, <3>2
  <2> HIDE DEF o, b
  <2>5. (m + 1) + 1 = m + 2 /\ 1 \in 1..m + 1 /\ m + 1 \in 1..m + 1 /\ 1 + 1 = 2
    BY <1>4
  <2>6. o[m + 2] = 0 /\ \A d \in Depths : b[d][m + 2] = 0
    BY <1>5, <2>3, <2>5
  <2>7. ASSUME NEW i \in 1..m + 1
        PROVE  /\ o[i] = o[i + 1] \/ o[i] = o[i + 1] + 1
               /\ q[i].op = "closing" => Given(o, i)
               /\ \A d \in Depths : b[d][i] = b[d][i + 1] + Turn(q[i], d)
    <3>1. CASE i = 1
      <4>1. o[1] = o[2] /\ \A d \in Depths : b[d][1] = b[d][2] /\ b[d][1] \in Nat
        <5>1. o[1 + 1] = owed[1] /\ \A d \in Depths : b[d][1 + 1] = open[d][1]
          BY <2>3, <2>5
        <5>2. 1 \in 1..m + 2
          BY <1>4
        <5> QED
          BY <2>3, <2>4, <2>5, <5>1, <5>2
      <4>2. q[1].op = "save"
        BY <2>1
      <4>3. \A d \in Depths : Turn(q[1], d) = 0
        BY <4>2, NoTurn
      <4> QED
        BY <2>5, <3>1, <4>1, <4>2, <4>3
    <3>2. CASE i # 1
      <4> DEFINE e == i - 1
      <4>1. e \in 1..m /\ e \in 1..m + 1 /\ e + 1 \in 1..m + 1 /\ i = e + 1 /\ i + 1 = (e + 1) + 1
        BY <1>4, <3>2
      <4> HIDE DEF e
      <4>2. /\ o[i] = owed[e] /\ o[i + 1] = owed[e + 1]
            /\ \A d \in Depths : b[d][i] = open[d][e] /\ b[d][i + 1] = open[d][e + 1]
        BY <2>3, <4>1
      <4>3. q[i] = r[e]
        BY <2>1, <4>1
      <4> QED
        BY <1>6, <4>1, <4>2, <4>3 DEF Given
    <3> QED
      BY <3>1, <3>2
  <2>8. \E i \in 1..m + 1 : Given(o, i) /\ q[i].op # "closing"
    <3>1. PICK e \in 1..m : Given(owed, e) /\ r[e].op # "closing"
      BY <1>1, <1>9 DEF Stands, Opened, r, m
    <3>2. e + 1 \in 1..m + 1 /\ e \in 1..m + 1 /\ e + 1 \in 1..m + 1
      BY <1>4
    <3>3. o[e + 1] = owed[e] /\ o[(e + 1) + 1] = owed[e + 1] /\ q[e + 1] = r[e]
      BY <2>1, <2>3, <3>2
    <3> QED
      BY <3>1, <3>2, <3>3 DEF Given
  <2>9. Overall(q, kept, deep, sure, o, b)
    <3>1. Len(q) = m + 1 /\ Len(q) \in Nat /\ Len(q) + 1 = m + 2
      BY <1>4, <2>1
    <3> QED
      BY <1>7, <2>3, <2>4, <2>6, <2>7, <2>8, <3>1 DEF Overall
  <2> QED
    BY <2>9
<1> QED
  BY <1>8, <1>9

\* What is still to be given back, and the bodies that are still open, in
\* numbers of steps.
Ends(q, op, d) == {i \in 1..Len(q) : q[i].op = op /\ q[i].in = d}
\* What is still to be given back, and the bodies still open, as numbers of steps.
Counted(q, owed, open) ==
  /\ IsFiniteSet({i \in 1..Len(q) : Given(owed, i)})
  /\ Cardinality({i \in 1..Len(q) : Given(owed, i)}) = owed[1]
  /\ \A d \in Depths : Cardinality(Ends(q, "leave", d)) - Cardinality(Ends(q, "enter", d)) = open[d][1]

\* The course tells these numbers.
LEMMA CountedAhead ==
  ASSUME NEW q, NEW kept, NEW deep, NEW sure, NEW owed, NEW open,
         Overall(q, kept, deep, sure, owed, open)
  PROVE  Counted(q, owed, open)
<1> DEFINE n == Len(q)
           A == {i \in 1..n : Given(owed, i)}
           E(op, d) == {i \in 1..n : q[i].op = op /\ q[i].in = d}
<1>1. /\ n \in Nat /\ owed \in [1..n + 1 -> Nat] /\ owed[n + 1] = 0
      /\ open \in [Depths -> [1..n + 1 -> Nat]] /\ \A d \in Depths : open[d][n + 1] = 0
      /\ \A i \in 1..n : /\ owed[i] = owed[i + 1] \/ owed[i] = owed[i + 1] + 1
                         /\ \A d \in Depths : open[d][i] = open[d][i + 1] + Turn(q[i], d)
  BY DEF Overall
<1>2. \A i \in 1..n : i \in 1..n + 1 /\ i + 1 \in 1..n + 1
  BY <1>1
<1> HIDE DEF n
<1>3. IsFiniteSet(A) /\ Cardinality(A) = owed[1]
  <2> DEFINE B == {}
  <2>1. owed \in [1..n + 1 -> Int]
    BY <1>1
  <2>2. ASSUME NEW i \in 1..n
        PROVE  owed[i] = (owed[i + 1] + IF i \in A THEN 1 ELSE 0) - IF i \in B THEN 1 ELSE 0
    <3>1. owed[i] \in Nat /\ owed[i + 1] \in Nat
      BY <1>1, <1>2
    <3>2. i \notin B
      OBVIOUS
    <3>3. i \in A <=> owed[i] # owed[i + 1]
      BY DEF Given
    <3>4. owed[i] = owed[i + 1] \/ owed[i] = owed[i + 1] + 1
      BY <1>1
    <3> HIDE DEF A, B
    <3> QED
      BY <3>1, <3>2, <3>3, <3>4
  <2>3. A \subseteq 1..n /\ B \subseteq 1..n
    OBVIOUS
  <2>4. Cardinality(B) = 0
    BY FS_EmptySet
  <2> HIDE DEF A, B
  <2>5. IsFiniteSet(A) /\ Cardinality(A) - Cardinality(B) = owed[1]
    <3>1. Tallied(owed, n, A, B)
      BY <1>1, <2>1, <2>2, <2>3 DEF Tallied
    <3> QED
      BY <3>1, Tally
  <2>6. Cardinality(A) \in Nat
    BY <2>5, FS_CardinalityType
  <2> QED
    BY <2>4, <2>5, <2>6
<1>4. ASSUME NEW d \in Depths
      PROVE  Cardinality(E("leave", d)) - Cardinality(E("enter", d)) = open[d][1]
  <2> DEFINE f == open[d]
             C == E("leave", d)
             B == E("enter", d)
  <2>1. f \in [1..n + 1 -> Nat] /\ f[n + 1] = 0
    BY <1>1
  <2>2. f \in [1..n + 1 -> Int]
    BY <2>1
  <2>3. C \subseteq 1..n /\ B \subseteq 1..n
    OBVIOUS
  <2>4. ASSUME NEW i \in 1..n
        PROVE  f[i] = (f[i + 1] + IF i \in C THEN 1 ELSE 0) - IF i \in B THEN 1 ELSE 0
    <3>1. f[i] = f[i + 1] + Turn(q[i], d)
      BY <1>1
    <3>2. f[i + 1] \in Nat
      BY <1>2, <2>1
    <3>3. /\ Turn(q[i], d) = (IF i \in C THEN 1 ELSE 0) - IF i \in B THEN 1 ELSE 0
          /\ Turn(q[i], d) \in Int
      BY DEF Turn
    <3> HIDE DEF f, C, B
    <3> QED
      BY <3>1, <3>2, <3>3
  <2> HIDE DEF f, C, B
  <2>5. Cardinality(C) - Cardinality(B) = f[1]
    <3>1. Tallied(f, n, C, B)
      BY <1>1, <2>1, <2>2, <2>3, <2>4 DEF Tallied
    <3> QED
      BY <3>1, Tally
  <2> QED
    BY <2>5 DEF f, C, B
<1> QED
  BY <1>3, <1>4 DEF n, Ends, Counted

\* The depths count the bodies that are being parsed.
LEMMA BodiesCounted ==
  ASSUME Types,
         NEW owed, NEW open, Overall(todo, saved, Deep, ~holes, owed, open)
  PROVE  Len(saved) = Closings =>
           /\ \A d \in Depths : Bodies(d) <= Deep[d]
           /\ ~holes => \A d \in Depths : Deep[d] = Bodies(d)
<1> DEFINE n == Len(todo)
           A == {i \in 1..n : Given(owed, i)}
           C == {i \in DOMAIN todo : todo[i].op = "closing"}
<1>0. Counted(todo, owed, open)
  BY CountedAhead
<1>1. /\ n \in Nat /\ owed[1] <= Due(todo, saved)
      /\ \A i \in 1..n : todo[i].op = "closing" => Given(owed, i)
      /\ Held(todo) => \E i \in 1..n : Given(owed, i) /\ todo[i].op # "closing"
      /\ \A d \in Depths : open[d][1] <= Deep[d]
      /\ ~holes /\ owed[1] = Due(todo, saved) => \A d \in Depths : Deep[d] = open[d][1]
      /\ owed \in [1..n + 1 -> Nat]
  BY DEF Overall
<1>2. DOMAIN todo = 1..n
  BY <1>1
<1>3. IsFiniteSet(A) /\ Cardinality(A) = owed[1]
  BY <1>0 DEF Counted
<1>4. \A d \in Depths : Bodies(d) = open[d][1]
  <2>1. \A d \in Depths : Cardinality(Ends(todo, "leave", d)) - Cardinality(Ends(todo, "enter", d))
                          = open[d][1]
    BY <1>0 DEF Counted
  <2>2. \A op, d : Pending(op, d) = Cardinality(Ends(todo, op, d))
    BY <1>2 DEF Pending, Ends
  <2> QED
    BY <2>1, <2>2 DEF Bodies
<1>5. Closings = Cardinality(C) /\ C \subseteq A
  BY <1>1, <1>2 DEF Closings
<1>6. owed[1] \in Nat
  <2>1. 1 \in 1..n + 1
    BY <1>1
  <2> QED
    BY <1>1, <2>1
<1>7. Len(saved) \in Nat
  BY DEF Types
<1> HIDE DEF A
<1>8. IsFiniteSet(C) /\ Cardinality(C) \in Nat /\ Cardinality(C) <= owed[1]
  BY <1>3, <1>5, FS_Subset, FS_CardinalityType
<1>9. Held(todo) => Cardinality(C) + 1 <= owed[1]
  <2> SUFFICES ASSUME Held(todo)
               PROVE  Cardinality(C) + 1 <= owed[1]
    OBVIOUS
  <2>1. PICK e \in 1..n : Given(owed, e) /\ todo[e].op # "closing"
    BY <1>1
  <2>2. e \notin C /\ e \in A
    BY <2>1 DEF A
  <2> HIDE DEF C
  <2>3. Cardinality(C \union {e}) = Cardinality(C) + 1 /\ IsFiniteSet(C \union {e})
    BY <1>8, <2>2, FS_AddElement
  <2>4. C \union {e} \subseteq A
    BY <1>5, <2>2
  <2>5. Cardinality(C \union {e}) <= Cardinality(A)
    BY <1>3, <2>4, FS_Subset
  <2> QED
    BY <1>3, <2>3, <2>5
<1> HIDE DEF C, n
<1>10. Len(saved) = Closings => owed[1] = Due(todo, saved)
  <2>1. CASE Held(todo)
    <3>1. Due(todo, saved) = Len(saved) + 1
      BY <2>1 DEF Due
    <3> QED
      BY <1>1, <1>5, <1>6, <1>7, <1>8, <1>9, <2>1, <3>1
  <2>2. CASE ~Held(todo)
    <3>1. Due(todo, saved) = Len(saved)
      BY <2>2 DEF Due
    <3> QED
      BY <1>1, <1>5, <1>6, <1>7, <1>8, <3>1
  <2> QED
    BY <2>1, <2>2
<1> QED
  BY <1>1, <1>4, <1>10
-----------------------------------------------------------------------------
(***************************************************************************)
(* The order of the leaves.                                                *)
(***************************************************************************)
\* A step that owes nothing, and a list of such steps.
Ready(s) == (\E g : Fits(s, 0, g)) /\ s.op # "unchecked"
AllReady(q) == (\E T : q \in Seq(T)) /\ \A i \in 1..Len(q) : Ready(q[i])
\* What such a step turns into: more of them, or a list that saves a state.
Enters(q) == AllReady(q) \/ q \in {Angle, Header}

\* A course that owes nothing is of such steps,
LEMMA FlowsReady ==
  ASSUME NEW S, Closed(S), NEW q, NEW g, Flow(S, q, 0, g)
  PROVE  AllReady(q)
<1>1. PICK owed, open :
        /\ Course(S, q, owed, open, g) /\ owed[1] = 0
        /\ \A i \in 1..Len(q) : q[i].op \notin {"save", "closing", "unchecked"}
  BY DEF Flow
<1>2. /\ Len(q) \in Nat
      /\ \A i \in 1..Len(q) + 1 : owed[i] \in Nat
      /\ \A i, j \in 1..Len(q) + 1 : i <= j => owed[j] <= owed[i]
  BY <1>1, CourseFalls
<1>3. \A i \in 1..Len(q) + 1 : owed[i] = 0
  <2>1. ASSUME NEW i \in 1..Len(q) + 1
        PROVE  owed[i] = 0
    <3>1. 1 \in 1..Len(q) + 1 /\ 1 <= i
      BY <1>2
    <3>2. owed[i] <= owed[1] /\ owed[i] \in Nat
      BY <1>2, <3>1
    <3> QED
      BY <1>1, <3>2
  <2> QED
    BY <2>1
<1>4. ASSUME NEW i \in 1..Len(q)
      PROVE  Ready(q[i])
  <2>1. i \in 1..Len(q) + 1 /\ i + 1 \in 1..Len(q) + 1
    BY <1>2
  <2>2. owed[i] - owed[i + 1] = 0
    BY <1>3, <2>1
  <2>3. PICK h \in SUBSET g : <<q[i], owed[i] - owed[i + 1], h>> \in S
    BY <1>1 DEF Course
  <2>4. <<q[i], 0, h>> \in S
    BY <2>2, <2>3
  <2> QED
    BY <1>1, <2>4 DEF Ready, Fits
<1>5. \E T : q \in Seq(T)
  BY <1>1 DEF Course
<1> QED
  BY <1>4, <1>5 DEF AllReady

\* and an arm that owes nothing enters it, or saves.
LEMMA ArmEnters ==
  ASSUME NEW S, Closed(S), NEW q, NEW g, Arm(S, q, 0, g)
  PROVE  Enters(q)
<1>1. CASE Flow(S, q, 0, g)
  BY <1>1, FlowsReady DEF Enters
<1>2. CASE Saving(S, q, 0, g)
  BY <1>2 DEF Saving, Enters
<1> QED
  BY <1>1, <1>2 DEF Arm

\* Calls of rules are such steps, and so is what only looks at a token.
LEMMA RulesReady ==
  /\ \A r \in Rules : Ready(Rule(r)) /\ Enters(Grammar[r])
  /\ \A s : Plain(s) => Ready(s)
<1>1. ASSUME NEW r \in Rules
      PROVE  Ready(Rule(r)) /\ Enters(Grammar[r])
  <2>1. <<Rule(r), 0, Needs(r)>> \in Pool
    BY DEF Pool
  <2>2. Rule(r).op = "rule"
    BY DEF Rule
  <2>3. Ready(Rule(r))
    BY <2>1, <2>2, PoolIsSound DEF Ready, Fits
  <2>4. Arm(Pool, Grammar[r], 0, Needs(r)) /\ Closed(Pool)
    BY PoolIsSound
  <2> QED
    BY <2>3, <2>4, ArmEnters
<1>2. \A s : Plain(s) => Ready(s)
  BY DEF Plain, Ready
<1> QED
  BY <1>1, <1>2

\* What a step that owes nothing is, and what it turns into.
LEMMA ReadyTurns ==
  ASSUME NEW s, Ready(s)
  PROVE  /\ s.op \in {"match", "next", "gt", "fail", "enter", "leave", "careless", "rule", "chain",
                      "branch", "repeat", "until", "within"}
         /\ s.op = "match" => (s.leaf => "EOF" \notin s.on)
         /\ s.op = "rule" => Enters(Grammar[s.rule])
         /\ s.op \in {"careless", "chain"} => Ready(Rule(s.rule))
         /\ s.op = "branch" => Enters(s.other) /\ \A t \in DOMAIN s.arms : Enters(s.arms[t])
         /\ s.op \in {"repeat", "until"} => AllReady(s.steps)
         /\ s.op = "within" => AllReady(s.steps) /\ AllReady(s.other)
<1>1. PICK g : Fits(s, 0, g)
  BY DEF Ready
<1>2. PICK S : Closed(S) /\ <<s, 0, g>> \in S
  BY <1>1 DEF Fits
<1>3. Sound(S, s, 0, g)
  <2> DEFINE x == <<s, 0, g>>
  <2>1. x \in S /\ x[1] = s /\ x[2] = 0 /\ x[3] = g
    BY <1>2
  <2> HIDE DEF x
  <2>2. Sound(S, x[1], x[2], x[3])
    BY <1>2, <2>1 DEF Closed
  <2> QED
    BY <2>1, <2>2
<1>4. 0 # 1
  OBVIOUS
<1>5. s.op \in {"match", "next", "gt", "fail", "enter", "leave", "careless", "rule", "chain",
                "branch", "repeat", "until", "within"}
  BY <1>3, <1>4 DEF Sound, Ready
<1>6. s.op = "match" => (s.leaf => "EOF" \notin s.on)
  BY <1>3 DEF Sound
<1>7. s.op \in {"rule", "careless", "chain"} => s.rule \in Rules
  BY <1>3 DEF Sound
<1>8. s.op = "branch" =>
        /\ Arm(S, s.other, 0, g)
        /\ \A t \in DOMAIN s.arms : Arm(S, s.arms[t], 0, g \union ({t} \intersect Words))
  BY <1>3 DEF Sound
<1>9. s.op \in {"repeat", "until"} => Flow(S, s.steps, 0, g)
  BY <1>3 DEF Sound
<1>10. s.op = "within" => Flow(S, s.steps, 0, g) /\ Flow(S, s.other, 0, g)
  BY <1>3 DEF Sound
<1>11. s.op = "branch" => Enters(s.other) /\ \A t \in DOMAIN s.arms : Enters(s.arms[t])
  BY <1>2, <1>8, ArmEnters
<1>12. s.op \in {"repeat", "until"} => AllReady(s.steps)
  BY <1>2, <1>9, FlowsReady
<1>13. s.op = "within" => AllReady(s.steps) /\ AllReady(s.other)
  BY <1>2, <1>10, FlowsReady
<1>14. s.op = "rule" => Enters(Grammar[s.rule])
  BY <1>7, RulesReady
<1>15. s.op \in {"careless", "chain"} => Ready(Rule(s.rule))
  BY <1>7, RulesReady
<1> QED
  BY ONLY <1>5, <1>6, <1>11, <1>12, <1>13, <1>14, <1>15

\* The steps between a save and the step that gives the state back or hands it
\* to the closing, with the number of leaves made since the save.
Wanted     == Option(">", <<Fail>>)
Another(k) == Branch("in" :> <<Release, Match({"in"}), Rule("expression"), Match({")"})>> \o for_body,
                     <<GiveUp(k), Rule("region_for_loop")>>)
Window(w, m) ==
  \/ m = 0 /\ w \in {<<Skip, Cut, Wanted, Concepts>>, <<Cut, Wanted, Concepts>>,
                     <<Wanted, Concepts>>, <<Fail, Concepts>>, <<Concepts>>}
  \/ m = 0 /\ w \in {<<Tried>>, <<Match({"var"}), Rule("id"), More>>, <<Rule("id"), More>>,
                     <<Leaf(IdTokens), More>>}
  \/ m = 1 /\ w \in {<<More>>, <<Skip, Rule("id"), Another(2)>>, <<Rule("id"), Another(2)>>,
                     <<Leaf(IdTokens), Another(2)>>}
  \/ m \in {1, 2} /\ w = <<Another(m)>>
  \/ m \in Nat /\ w \in {<<Release>>, <<GiveUp(m)>>}
\* Such steps, and others behind them.
Windowed(v, m) == \E w, p : v = w \o p /\ Window(w, m) /\ AllReady(p)

\* What a window's first step is, and what it turns into: another window.
Moving(w, m) ==
  LET s == Head(w)
  IN /\ m \in Nat /\ w # <<>> /\ \E T : w \in Seq(T)
     /\ \A i \in 1..Len(w) : w[i].op \notin {"closing", "unchecked", "save"}
     /\ s.op \in {"next", "gt", "match", "branch", "rule", "concepts", "fail", "release", "restore"}
     /\ s.op \in {"next", "gt"} => Window(Tail(w), m)
     /\ s.op = "match" => \/ s.leaf /\ "EOF" \notin s.on /\ Window(Tail(w), m + 1)
                          \/ ~s.leaf /\ Window(Tail(w), m)
     /\ s.op = "branch" => /\ Windowed(s.other \o Tail(w), m)
                           /\ \A t \in DOMAIN s.arms : Windowed(s.arms[t] \o Tail(w), m)
     /\ s.op = "rule" => Windowed(Grammar[s.rule] \o Tail(w), m)
     /\ s.op \in {"concepts", "release", "restore"} => Tail(w) = <<>>
     /\ s.op = "restore" => s.drop = m

\* Short lists.
LEMMA ShortLists ==
  /\ AllReady(<<>>)
  /\ \A a : /\ <<a>> # <<>> /\ Head(<<a>>) = a /\ Tail(<<a>>) = <<>> /\ <<a>> \in Seq({a})
            /\ Len(<<a>>) = 1 /\ \A i \in 1..1 : <<a>>[i] = a
            /\ <<>> \o <<a>> = <<a>> /\ <<a>> \o <<>> = <<a>>
  /\ \A a, b : /\ <<a, b>> # <<>> /\ Head(<<a, b>>) = a /\ Tail(<<a, b>>) = <<b>>
               /\ Len(<<a, b>>) = 2 /\ \A i \in 1..2 : <<a, b>>[i] \in {a, b}
               /\ <<a, b>> \in Seq({a, b}) /\ <<a>> \o <<b>> = <<a, b>>
  /\ \A a, b, c : /\ <<a, b, c>> # <<>> /\ Head(<<a, b, c>>) = a /\ Tail(<<a, b, c>>) = <<b, c>>
                  /\ Len(<<a, b, c>>) = 3 /\ \A i \in 1..3 : <<a, b, c>>[i] \in {a, b, c}
                  /\ <<a, b, c>> \in Seq({a, b, c})
  /\ \A a, b, c, d :
       /\ <<a, b, c, d>> # <<>> /\ Head(<<a, b, c, d>>) = a /\ Tail(<<a, b, c, d>>) = <<b, c, d>>
       /\ Len(<<a, b, c, d>>) = 4 /\ \A i \in 1..4 : <<a, b, c, d>>[i] \in {a, b, c, d}
       /\ <<a, b, c, d>> \in Seq({a, b, c, d})
<1>1. AllReady(<<>>)
  <2>1. <<>> \in Seq({}) /\ Len(<<>>) = 0 /\ 1..0 = {}
    OBVIOUS
  <2> QED
    BY <2>1 DEF AllReady
<1>2. ASSUME NEW a
      PROVE  /\ <<a>> # <<>> /\ Head(<<a>>) = a /\ Tail(<<a>>) = <<>> /\ <<a>> \in Seq({a})
             /\ Len(<<a>>) = 1 /\ \A i \in 1..1 : <<a>>[i] = a
             /\ <<>> \o <<a>> = <<a>> /\ <<a>> \o <<>> = <<a>>
  OBVIOUS
<1>3. ASSUME NEW a, NEW b
      PROVE  /\ <<a, b>> # <<>> /\ Head(<<a, b>>) = a
             /\ Len(<<a, b>>) = 2 /\ \A i \in 1..2 : <<a, b>>[i] \in {a, b}
             /\ <<a, b>> \in Seq({a, b})
  OBVIOUS
<1>4. ASSUME NEW a, NEW b, NEW c
      PROVE  /\ <<a, b, c>> # <<>> /\ Head(<<a, b, c>>) = a
             /\ Len(<<a, b, c>>) = 3 /\ \A i \in 1..3 : <<a, b, c>>[i] \in {a, b, c}
             /\ <<a, b, c>> \in Seq({a, b, c})
  OBVIOUS
<1>5. ASSUME NEW a, NEW b, NEW c, NEW d
      PROVE  /\ <<a, b, c, d>> # <<>> /\ Head(<<a, b, c, d>>) = a
             /\ Len(<<a, b, c, d>>) = 4 /\ \A i \in 1..4 : <<a, b, c, d>>[i] \in {a, b, c, d}
             /\ <<a, b, c, d>> \in Seq({a, b, c, d})
  OBVIOUS
<1>6. ASSUME NEW a, NEW b
      PROVE  Tail(<<a, b>>) = <<b>>
  <2> DEFINE q == Tail(<<a, b>>)
             r == <<b>>
  <2>1. q \in Seq({a, b}) /\ r \in Seq({a, b}) /\ Len(q) = 1 /\ Len(r) = 1 /\ \A i \in 1..1 : q[i] = r[i]
    OBVIOUS
  <2> HIDE DEF q, r
  <2>2. q = r
    BY <2>1, SeqEqual
  <2> QED
    BY <2>2 DEF q, r
<1>7. ASSUME NEW a, NEW b, NEW c
      PROVE  Tail(<<a, b, c>>) = <<b, c>>
  <2> DEFINE q == Tail(<<a, b, c>>)
             r == <<b, c>>
  <2>1. q \in Seq({a, b, c}) /\ r \in Seq({a, b, c}) /\ Len(q) = 2 /\ Len(r) = 2 /\ \A i \in 1..2 : q[i] = r[i]
    OBVIOUS
  <2> HIDE DEF q, r
  <2>2. q = r
    BY <2>1, SeqEqual
  <2> QED
    BY <2>2 DEF q, r
<1>8. ASSUME NEW a, NEW b, NEW c, NEW d
      PROVE  Tail(<<a, b, c, d>>) = <<b, c, d>>
  <2> DEFINE q == Tail(<<a, b, c, d>>)
             r == <<b, c, d>>
  <2>1. /\ q \in Seq({a, b, c, d}) /\ r \in Seq({a, b, c, d}) /\ Len(q) = 3 /\ Len(r) = 3
        /\ \A i \in 1..3 : q[i] = r[i]
    OBVIOUS
  <2> HIDE DEF q, r
  <2>2. q = r
    BY <2>1, SeqEqual
  <2> QED
    BY <2>2 DEF q, r
<1>9. \A a, b : <<a>> \o <<b>> = <<a, b>>
  BY TupleJoins
<1> QED
  BY <1>1, <1>2, <1>3, <1>4, <1>5, <1>6, <1>7, <1>8, <1>9

\* Its first step decides what may be asked of a window.
LEMMA MovingBy ==
  ASSUME NEW w, NEW m \in Nat, NEW a, w # <<>>, Head(w) = a, \E T : w \in Seq(T),
         \A i \in 1..Len(w) : w[i].op \notin {"closing", "unchecked", "save"}
  PROVE  /\ a.op \in {"next", "gt"} /\ Window(Tail(w), m) => Moving(w, m)
         /\ a.op = "match" /\ a.leaf /\ "EOF" \notin a.on /\ Window(Tail(w), m + 1) => Moving(w, m)
         /\ a.op = "match" /\ ~a.leaf /\ Window(Tail(w), m) => Moving(w, m)
         /\ /\ a.op = "branch" /\ Windowed(a.other \o Tail(w), m)
            /\ \A t \in DOMAIN a.arms : Windowed(a.arms[t] \o Tail(w), m)
            => Moving(w, m)
         /\ a.op = "rule" /\ Windowed(Grammar[a.rule] \o Tail(w), m) => Moving(w, m)
         /\ a.op \in {"concepts", "release"} /\ Tail(w) = <<>> => Moving(w, m)
         /\ a.op = "restore" /\ a.drop = m /\ Tail(w) = <<>> => Moving(w, m)
         /\ a.op = "fail" => Moving(w, m)
<1>1. a.op \in {"next", "gt"} /\ Window(Tail(w), m) => Moving(w, m)
  BY DEF Moving
<1>2. a.op = "match" /\ a.leaf /\ "EOF" \notin a.on /\ Window(Tail(w), m + 1) => Moving(w, m)
  BY DEF Moving
<1>3. a.op = "match" /\ ~a.leaf /\ Window(Tail(w), m) => Moving(w, m)
  BY DEF Moving
<1>4. /\ a.op = "branch" /\ Windowed(a.other \o Tail(w), m)
      /\ \A t \in DOMAIN a.arms : Windowed(a.arms[t] \o Tail(w), m)
      => Moving(w, m)
  BY DEF Moving
<1>5. a.op = "rule" /\ Windowed(Grammar[a.rule] \o Tail(w), m) => Moving(w, m)
  BY DEF Moving
<1>6. a.op \in {"concepts", "release"} /\ Tail(w) = <<>> => Moving(w, m)
  BY DEF Moving
<1>7. a.op = "restore" /\ a.drop = m /\ Tail(w) = <<>> => Moving(w, m)
  BY DEF Moving
<1>8. a.op = "fail" => Moving(w, m)
  BY DEF Moving
<1> QED
  BY ONLY <1>1, <1>2, <1>3, <1>4, <1>5, <1>6, <1>7, <1>8

\* The steps that windows are made of.
LEMMA WindowSteps ==
  /\ Skip.op = "next" /\ Cut.op = "gt" /\ Fail.op = "fail" /\ Concepts.op = "concepts"
  /\ Release.op = "release"
  /\ Rule("id").op = "rule" /\ Grammar[Rule("id").rule] = <<Leaf(IdTokens)>>
  /\ Leaf(IdTokens).op = "match" /\ Leaf(IdTokens).leaf /\ "EOF" \notin Leaf(IdTokens).on
  /\ Match({"var"}).op = "match" /\ ~Match({"var"}).leaf
  /\ Wanted.op = "branch" /\ Wanted.other = <<>>
  /\ \A t \in DOMAIN Wanted.arms : Wanted.arms[t] = <<Fail>>
  /\ Tried.op = "branch" /\ Tried.other = NoName
  /\ \A t \in DOMAIN Tried.arms : Tried.arms[t] = Name1
  /\ More.op = "branch" /\ More.other = <<Another(1)>>
  /\ \A t \in DOMAIN More.arms : More.arms[t] = Name2
  /\ \A k : /\ GiveUp(k).op = "restore" /\ GiveUp(k).drop = k
            /\ Another(k).op = "branch" /\ Another(k).other = <<GiveUp(k), Rule("region_for_loop")>>
            /\ \A t \in DOMAIN Another(k).arms :
                 Another(k).arms[t] =
                   <<Release, Match({"in"}), Rule("expression"), Match({")"})>> \o for_body
<1>1. /\ Skip.op = "next" /\ Cut.op = "gt" /\ Fail.op = "fail" /\ Concepts.op = "concepts"
      /\ Release.op = "release" /\ Rule("id").op = "rule" /\ Rule("id").rule = "id"
  BY DEF Skip, Cut, Fail, Concepts, Release, Rule
<1>2. Grammar["id"] = <<Leaf(IdTokens)>>
  BY Entries DEF id
<1>3. Leaf(IdTokens).op = "match" /\ Leaf(IdTokens).leaf /\ "EOF" \notin Leaf(IdTokens).on
  BY DEF Leaf, IdTokens
<1>4. Match({"var"}).op = "match" /\ ~Match({"var"}).leaf
  BY DEF Match
<1>5. \A f, q : Branch(f, q).op = "branch" /\ Branch(f, q).arms = f /\ Branch(f, q).other = q
  BY DEF Branch
<1>6. \A t, q : \A x \in DOMAIN (t :> q) : (t :> q)[x] = q
  BY DEF :>
<1>7. Wanted = Branch(">" :> <<Fail>>, <<>>)
  BY DEF Wanted, Option
<1>8. Wanted.op = "branch" /\ Wanted.other = <<>> /\ \A t \in DOMAIN Wanted.arms : Wanted.arms[t] = <<Fail>>
  BY <1>5, <1>6, <1>7
<1>9. Tried.op = "branch" /\ Tried.other = NoName /\ \A t \in DOMAIN Tried.arms : Tried.arms[t] = Name1
  BY <1>5, <1>6 DEF Tried
<1>10. \A k : for_in(k) = <<Another(k)>>
  BY DEF for_in, Another
<1>11. More = Branch("," :> Name2, <<Another(1)>>)
  BY <1>10 DEF More
<1>12. More.op = "branch" /\ More.other = <<Another(1)>> /\ \A t \in DOMAIN More.arms : More.arms[t] = Name2
  <2> DEFINE f == "," :> Name2
             q == <<Another(1)>>
  <2>1. More = Branch(f, q) /\ \A x \in DOMAIN f : f[x] = Name2
    BY <1>6, <1>11
  <2> HIDE DEF f, q
  <2>2. More.op = "branch" /\ More.other = q /\ More.arms = f
    BY <1>5, <2>1
  <2> QED
    BY <2>1, <2>2 DEF q
<1>13. ASSUME NEW k
       PROVE  /\ GiveUp(k).op = "restore" /\ GiveUp(k).drop = k
              /\ Another(k).op = "branch" /\ Another(k).other = <<GiveUp(k), Rule("region_for_loop")>>
              /\ \A t \in DOMAIN Another(k).arms :
                   Another(k).arms[t] =
                     <<Release, Match({"in"}), Rule("expression"), Match({")"})>> \o for_body
  <2>1. GiveUp(k).op = "restore" /\ GiveUp(k).drop = k
    BY DEF GiveUp
  <2> DEFINE out == <<Release, Match({"in"}), Rule("expression"), Match({")"})>> \o for_body
             again == <<GiveUp(k), Rule("region_for_loop")>>
  <2>2. Another(k) = Branch("in" :> out, again)
    BY DEF Another
  <2> HIDE DEF out, again
  <2>3. Another(k).op = "branch" /\ Another(k).other = again /\ \A t \in DOMAIN Another(k).arms : Another(k).arms[t] = out
    BY <1>5, <1>6, <2>2
  <2> QED
    BY <2>1, <2>3 DEF out, again
<1> QED
  BY ONLY <1>1, <1>2, <1>3, <1>4, <1>8, <1>9, <1>12, <1>13

\* A window with nothing behind it; names that were read, or none, and what is
\* taken when a state was given back.
LEMMA Windows ==
  /\ \A w, m : Window(w, m) /\ (\E T : w \in Seq(T)) => Windowed(w, m)
  /\ Windowed(NoName, 0)
  /\ \A k \in Nat : /\ Windowed(<<GiveUp(k), Rule("region_for_loop")>>, k)
                    /\ Windowed(<<Release, Match({"in"}), Rule("expression"), Match({")"})>> \o for_body, k)
<1>1. ASSUME NEW w, NEW m, Window(w, m), \E T : w \in Seq(T)
      PROVE  Windowed(w, m)
  <2>1. w = w \o <<>>
    BY <1>1
  <2> QED
    BY <1>1, <2>1, ShortLists DEF Windowed
<1>2. AllReady(<<Rule("region_for_loop")>>)
  <2>1. Ready(Rule("region_for_loop"))
    BY RulesReady, RuleNames DEF Names
  <2> QED
    BY <2>1, ShortLists DEF AllReady
<1>3. \A k \in Nat : Window(<<Release>>, k) /\ Window(<<GiveUp(k)>>, k)
  BY DEF Window
<1>4. Windowed(NoName, 0)
  <2>1. NoName = <<Release>> \o <<Rule("region_for_loop")>>
    BY ShortLists DEF NoName
  <2> QED
    BY <1>2, <1>3, <2>1 DEF Windowed
<1>5. ASSUME NEW k \in Nat
      PROVE  Windowed(<<GiveUp(k), Rule("region_for_loop")>>, k)
  <2>1. <<GiveUp(k), Rule("region_for_loop")>> = <<GiveUp(k)>> \o <<Rule("region_for_loop")>>
    BY ShortLists
  <2> QED
    BY <1>2, <1>3, <2>1 DEF Windowed
<1>6. ASSUME NEW k \in Nat
      PROVE  Windowed(<<Release, Match({"in"}), Rule("expression"), Match({")"})>> \o for_body, k)
  <2> DEFINE p == <<Match({"in"}), Rule("expression"), Match({")"})>> \o for_body
  <2>1. Flows(p, 0, {})
    BY Bodied, SimpleSteps, StraightTuples, PlainUses
  <2>2. AllReady(p)
    BY <2>1, FlowsReady DEF Flows
  <2>3. <<Release, Match({"in"}), Rule("expression"), Match({")"})>> \o for_body = <<Release>> \o p
    BY DEF for_body
  <2> HIDE DEF p
  <2> QED
    BY <1>3, <2>2, <2>3 DEF Windowed
<1> QED
  BY <1>1, <1>4, <1>5, <1>6

\* Steps of a rule: none that saves, and none that the machine makes.
Quiet(q) == /\ q # <<>> /\ \E T : q \in Seq(T)
            /\ \A i \in 1..Len(q) : q[i].op \notin {"closing", "unchecked", "save"}

\* So every window moves to the next one, until its state is given back.
LEMMA WindowMoves ==
  ASSUME NEW w, NEW m, Window(w, m)
  PROVE  Moving(w, m)
<1>1. /\ \A a : a.op \notin {"closing", "unchecked", "save"} => Quiet(<<a>>)
      /\ \A a, b : {a.op, b.op} \intersect {"closing", "unchecked", "save"} = {} => Quiet(<<a, b>>)
      /\ \A a, b, c : {a.op, b.op, c.op} \intersect {"closing", "unchecked", "save"} = {} =>
           Quiet(<<a, b, c>>)
      /\ \A a, b, c, d : {a.op, b.op, c.op, d.op} \intersect {"closing", "unchecked", "save"} = {} =>
           Quiet(<<a, b, c, d>>)
  <2>1. ASSUME NEW S, NEW q \in Seq(S), q # <<>>, \A x \in S : x.op \notin {"closing", "unchecked", "save"}
        PROVE  Quiet(q)
    BY <2>1 DEF Quiet
  <2>2. ASSUME NEW a, a.op \notin {"closing", "unchecked", "save"}
        PROVE  Quiet(<<a>>)
    <3> DEFINE S == {a}
               q == <<a>>
    <3>1. \A x \in S : x.op \notin {"closing", "unchecked", "save"}
      BY <2>2
    <3>2. q \in Seq(S) /\ q # <<>>
      BY ShortLists
    <3> HIDE DEF S, q
    <3>3. Quiet(q)
      BY ONLY <2>1, <3>1, <3>2
    <3> QED
      BY ONLY <3>3 DEF q
  <2>3. ASSUME NEW a, NEW b, {a.op, b.op} \intersect {"closing", "unchecked", "save"} = {}
        PROVE  Quiet(<<a, b>>)
    <3> DEFINE S == {a, b}
               q == <<a, b>>
    <3>1. \A x \in S : x.op \notin {"closing", "unchecked", "save"}
      BY <2>3
    <3>2. q \in Seq(S) /\ q # <<>>
      BY ShortLists
    <3> HIDE DEF S, q
    <3>3. Quiet(q)
      BY ONLY <2>1, <3>1, <3>2
    <3> QED
      BY ONLY <3>3 DEF q
  <2>4. ASSUME NEW a, NEW b, NEW c, {a.op, b.op, c.op} \intersect {"closing", "unchecked", "save"} = {}
        PROVE  Quiet(<<a, b, c>>)
    <3> DEFINE S == {a, b, c}
               q == <<a, b, c>>
    <3>1. \A x \in S : x.op \notin {"closing", "unchecked", "save"}
      BY <2>4
    <3>2. q \in Seq(S) /\ q # <<>>
      BY ShortLists
    <3> HIDE DEF S, q
    <3>3. Quiet(q)
      BY ONLY <2>1, <3>1, <3>2
    <3> QED
      BY ONLY <3>3 DEF q
  <2>5. ASSUME NEW a, NEW b, NEW c, NEW d,
               {a.op, b.op, c.op, d.op} \intersect {"closing", "unchecked", "save"} = {}
        PROVE  Quiet(<<a, b, c, d>>)
    <3> DEFINE S == {a, b, c, d}
               q == <<a, b, c, d>>
    <3>1. \A x \in S : x.op \notin {"closing", "unchecked", "save"}
      BY <2>5
    <3>2. q \in Seq(S) /\ q # <<>>
      BY ShortLists
    <3> HIDE DEF S, q
    <3>3. Quiet(q)
      BY ONLY <2>1, <3>1, <3>2
    <3> QED
      BY ONLY <3>3 DEF q
  <2> QED
    BY ONLY <2>2, <2>3, <2>4, <2>5
<1>2. ASSUME NEW q, NEW k \in Nat, NEW a, Quiet(q), Head(q) = a
      PROVE  /\ a.op \in {"next", "gt"} /\ Window(Tail(q), k) => Moving(q, k)
             /\ a.op = "match" /\ a.leaf /\ "EOF" \notin a.on /\ Window(Tail(q), k + 1) => Moving(q, k)
             /\ a.op = "match" /\ ~a.leaf /\ Window(Tail(q), k) => Moving(q, k)
             /\ /\ a.op = "branch" /\ Windowed(a.other \o Tail(q), k)
                /\ \A t \in DOMAIN a.arms : Windowed(a.arms[t] \o Tail(q), k)
                => Moving(q, k)
             /\ a.op = "rule" /\ Windowed(Grammar[a.rule] \o Tail(q), k) => Moving(q, k)
             /\ a.op \in {"concepts", "release"} /\ Tail(q) = <<>> => Moving(q, k)
             /\ a.op = "restore" /\ a.drop = k /\ Tail(q) = <<>> => Moving(q, k)
             /\ a.op = "fail" => Moving(q, k)
  BY <1>2, MovingBy DEF Quiet
<1>3. 0 \in Nat /\ 1 \in Nat /\ 2 \in Nat /\ 0 + 1 = 1 /\ 1 + 1 = 2
  OBVIOUS
\* the attempt at generic arguments
<1>4. CASE m = 0 /\ w = <<Skip, Cut, Wanted, Concepts>>
  <2>1. Quiet(w) /\ Head(w) = Skip /\ Tail(w) = <<Cut, Wanted, Concepts>>
    BY <1>1, <1>4, ShortLists, WindowSteps
  <2>2. Window(Tail(w), 0)
    BY <2>1 DEF Window
  <2> QED
    BY <1>2, <1>3, <1>4, <2>1, <2>2, WindowSteps
<1>5. CASE m = 0 /\ w = <<Cut, Wanted, Concepts>>
  <2>1. Quiet(w) /\ Head(w) = Cut /\ Tail(w) = <<Wanted, Concepts>>
    BY <1>1, <1>5, ShortLists, WindowSteps
  <2>2. Window(Tail(w), 0)
    BY <2>1 DEF Window
  <2> QED
    BY <1>2, <1>3, <1>5, <2>1, <2>2, WindowSteps
<1>6. CASE m = 0 /\ w = <<Wanted, Concepts>>
  <2>1. Quiet(w) /\ Head(w) = Wanted /\ Tail(w) = <<Concepts>>
    BY <1>1, <1>6, ShortLists, WindowSteps
  <2>2. <<>> \o <<Concepts>> = <<Concepts>> /\ <<Fail>> \o <<Concepts>> = <<Fail, Concepts>>
    BY ShortLists
  <2>3. Windowed(<<Concepts>>, 0) /\ Windowed(<<Fail, Concepts>>, 0)
    <3>1. Window(<<Concepts>>, 0) /\ Window(<<Fail, Concepts>>, 0)
      BY DEF Window
    <3> QED
      BY <3>1, Windows, ShortLists
  <2>4. Windowed(Wanted.other \o Tail(w), 0) /\ \A t \in DOMAIN Wanted.arms : Windowed(Wanted.arms[t] \o Tail(w), 0)
    BY <2>1, <2>2, <2>3, WindowSteps
  <2> QED
    BY <1>2, <1>3, <1>6, <2>1, <2>4, WindowSteps
<1>7. CASE m = 0 /\ w = <<Fail, Concepts>>
  <2>1. Quiet(w) /\ Head(w) = Fail
    BY <1>1, <1>7, ShortLists, WindowSteps
  <2> QED
    BY <1>2, <1>3, <1>7, <2>1, WindowSteps
<1>8. CASE m = 0 /\ w = <<Concepts>>
  <2>1. Quiet(w) /\ Head(w) = Concepts /\ Tail(w) = <<>>
    BY <1>1, <1>8, ShortLists, WindowSteps
  <2> QED
    BY <1>2, <1>3, <1>8, <2>1, WindowSteps
\* the names in the header of a for
<1>9. CASE m = 0 /\ w = <<Tried>>
  <2>1. Quiet(w) /\ Head(w) = Tried /\ Tail(w) = <<>>
    BY <1>1, <1>9, ShortLists, WindowSteps
  <2>2. Windowed(Name1, 0)
    <3>1. Window(Name1, 0) /\ \E T : Name1 \in Seq(T)
      BY ShortLists DEF Window, Name1
    <3> QED
      BY <3>1, Windows
  <2>3. Name1 \o <<>> = Name1 /\ NoName \o <<>> = NoName
    <3>1. \A a, b, c : <<a, b, c>> \o <<>> = <<a, b, c>> /\ <<a, b>> \o <<>> = <<a, b>>
      OBVIOUS
    <3> QED
      BY <3>1 DEF Name1, NoName
  <2>4. Windowed(Tried.other \o Tail(w), 0) /\ \A t \in DOMAIN Tried.arms : Windowed(Tried.arms[t] \o Tail(w), 0)
    BY <2>1, <2>2, <2>3, WindowSteps, Windows
  <2> QED
    BY <1>2, <1>3, <1>9, <2>1, <2>4, WindowSteps
<1>10. CASE m = 0 /\ w = <<Match({"var"}), Rule("id"), More>>
  <2>1. Quiet(w) /\ Head(w) = Match({"var"}) /\ Tail(w) = <<Rule("id"), More>>
    BY <1>1, <1>10, ShortLists, WindowSteps
  <2>2. Window(Tail(w), 0)
    BY <2>1 DEF Window
  <2> QED
    BY <1>2, <1>3, <1>10, <2>1, <2>2, WindowSteps
<1>11. ASSUME NEW k \in {0, 1}, NEW a, w = <<Rule("id"), a>>, m = k, a.op = "branch",
              Window(<<Leaf(IdTokens), a>>, k)
       PROVE  Moving(w, m)
  <2>1. Quiet(w) /\ Head(w) = Rule("id") /\ Tail(w) = <<a>>
    BY <1>1, <1>11, ShortLists, WindowSteps
  <2>2. Grammar[Rule("id").rule] \o Tail(w) = <<Leaf(IdTokens), a>>
    <3>1. \A x, y : <<x>> \o <<y>> = <<x, y>>
      BY ShortLists
    <3>2. <<Leaf(IdTokens)>> \o <<a>> = <<Leaf(IdTokens), a>>
      BY <3>1
    <3>3. Grammar[Rule("id").rule] = <<Leaf(IdTokens)>>
      BY WindowSteps
    <3> QED
      BY ONLY <2>1, <3>2, <3>3
  <2>3. Windowed(Grammar[Rule("id").rule] \o Tail(w), k)
    BY <1>11, <2>2, ShortLists, Windows
  <2> QED
    BY <1>2, <1>3, <1>11, <2>1, <2>3, WindowSteps
<1>12. ASSUME NEW k \in {0, 1}, NEW a, w = <<Leaf(IdTokens), a>>, m = k, a.op = "branch",
              Window(<<a>>, k + 1)
       PROVE  Moving(w, m)
  <2>1. Quiet(w) /\ Head(w) = Leaf(IdTokens) /\ Tail(w) = <<a>>
    BY <1>1, <1>12, ShortLists, WindowSteps
  <2> QED
    BY <1>2, <1>3, <1>12, <2>1, WindowSteps
<1>13. CASE m = 1 /\ w = <<More>>
  <2>1. Quiet(w) /\ Head(w) = More /\ Tail(w) = <<>>
    BY <1>1, <1>13, ShortLists, WindowSteps
  <2>2. Name2 = <<Skip, Rule("id"), Another(2)>>
    <3>1. for_in(2) = <<Another(2)>>
      BY DEF for_in, Another
    <3>2. \A a, b, c : <<a, b>> \o <<c>> = <<a, b, c>>
      BY TupleJoins
    <3> QED
      BY <3>1, <3>2 DEF Name2
  <2>3. Windowed(Name2, 1) /\ Windowed(<<Another(1)>>, 1)
    <3>1. Window(Name2, 1) /\ (\E T : Name2 \in Seq(T)) /\ Window(<<Another(1)>>, 1)
      BY <2>2, ShortLists DEF Window
    <3> QED
      BY <3>1, Windows, ShortLists
  <2>4. Name2 \o <<>> = Name2 /\ <<Another(1)>> \o <<>> = <<Another(1)>>
    <3>1. \A a, b, c : <<a, b, c>> \o <<>> = <<a, b, c>> /\ <<a>> \o <<>> = <<a>>
      OBVIOUS
    <3> QED
      BY <2>2, <3>1
  <2>5. Windowed(More.other \o Tail(w), 1) /\ \A t \in DOMAIN More.arms : Windowed(More.arms[t] \o Tail(w), 1)
    BY <2>1, <2>3, <2>4, WindowSteps
  <2> QED
    BY <1>2, <1>3, <1>13, <2>1, <2>5, WindowSteps
<1>14. CASE m = 1 /\ w = <<Skip, Rule("id"), Another(2)>>
  <2>1. Quiet(w) /\ Head(w) = Skip /\ Tail(w) = <<Rule("id"), Another(2)>>
    BY <1>1, <1>14, ShortLists, WindowSteps
  <2>2. Window(Tail(w), 1)
    BY <2>1 DEF Window
  <2> QED
    BY <1>2, <1>3, <1>14, <2>1, <2>2, WindowSteps
<1>15. CASE m \in {1, 2} /\ w = <<Another(m)>>
  <2>1. Quiet(w) /\ Head(w) = Another(m) /\ Tail(w) = <<>> /\ m \in Nat
    BY <1>1, <1>15, ShortLists, WindowSteps
  <2> DEFINE out == <<Release, Match({"in"}), Rule("expression"), Match({")"})>> \o for_body
             again == <<GiveUp(m), Rule("region_for_loop")>>
  <2>2. Windowed(out, m) /\ Windowed(again, m)
    BY <2>1, Windows
  <2>3. out \o <<>> = out /\ again \o <<>> = again
    <3>1. \A a, b : <<a, b>> \o <<>> = <<a, b>>
      OBVIOUS
    <3>2. out \o <<>> = out
      BY DEF for_body
    <3> QED
      BY <3>1, <3>2
  <2>4. Another(m).other = again /\ \A t \in DOMAIN Another(m).arms : Another(m).arms[t] = out
    BY WindowSteps
  <2> HIDE DEF out, again
  <2>5. /\ Windowed(Another(m).other \o Tail(w), m)
        /\ \A t \in DOMAIN Another(m).arms : Windowed(Another(m).arms[t] \o Tail(w), m)
    BY <2>1, <2>2, <2>3, <2>4
  <2>6. Another(m).op = "branch"
    BY WindowSteps
  <2> QED
    BY <1>2, <2>1, <2>5, <2>6
<1>16. CASE m \in Nat /\ w = <<Release>>
  <2>1. Quiet(w) /\ Head(w) = Release /\ Tail(w) = <<>>
    BY <1>1, <1>16, ShortLists, WindowSteps
  <2> QED
    BY <1>2, <1>16, <2>1, WindowSteps
<1>17. CASE m \in Nat /\ w = <<GiveUp(m)>>
  <2>1. Quiet(w) /\ Head(w) = GiveUp(m) /\ Tail(w) = <<>>
    BY <1>1, <1>17, ShortLists, WindowSteps
  <2>2. GiveUp(m).op = "restore" /\ GiveUp(m).drop = m
    BY DEF GiveUp
  <2> QED
    BY ONLY <1>2, <1>17, <2>1, <2>2
<1>18. /\ Window(<<Leaf(IdTokens), More>>, 0) /\ Window(<<More>>, 0 + 1)
       /\ Window(<<Leaf(IdTokens), Another(2)>>, 1) /\ Window(<<Another(2)>>, 1 + 1)
  BY <1>3 DEF Window
<1>19. More.op = "branch" /\ Another(2).op = "branch" /\ 0 \in {0, 1} /\ 1 \in {0, 1}
  BY WindowSteps
<1>20. CASE m = 0 /\ w = <<Rule("id"), More>>
  BY <1>11, <1>18, <1>19, <1>20
<1>21. CASE m = 0 /\ w = <<Leaf(IdTokens), More>>
  BY <1>12, <1>18, <1>19, <1>21
<1>22. CASE m = 1 /\ w = <<Rule("id"), Another(2)>>
  BY <1>11, <1>18, <1>19, <1>22
<1>23. CASE m = 1 /\ w = <<Leaf(IdTokens), Another(2)>>
  BY <1>12, <1>18, <1>19, <1>23
<1> QED
  BY <1>4, <1>5, <1>6, <1>7, <1>8, <1>9, <1>10, <1>13, <1>14, <1>15, <1>16, <1>17, <1>20, <1>21,
     <1>22, <1>23 DEF Window

\* A step that goes on after an error: what it keeps was made before the state
\* that is its own was saved.
Calls(s) == s.op \in {"closing", "unchecked"}
Waits(s, mine, top, made, kept, tree) ==
  /\ Calls(s) /\ s.keep \in 0..made
  /\ s.op = "closing" => mine \in 1..top /\ \A x \in 1..s.keep : tree[x] < kept[mine].at

\* The steps behind those of a window.  Counted from the end, every closing has
\* a state of its own among the first top of those that are kept, later ones
\* earlier states; and what a later caller keeps is among what an earlier one does.
Backs(q, top, made, own, kept, tree) ==
  /\ (\E T : q \in Seq(T)) /\ own \in [Nat -> Nat]
  /\ \A i \in 1..Len(q) : Ready(q[i]) \/ Waits(q[i], own[Len(q) - i], top, made, kept, tree)
  /\ \A i, j \in 1..Len(q) : i < j /\ Calls(q[i]) /\ Calls(q[j]) =>
       /\ q[j].keep <= q[i].keep
       /\ q[i].op = "closing" /\ q[j].op = "closing" => own[Len(q) - j] < own[Len(q) - i]

\* A step that owes nothing does not go on after an error.
LEMMA ReadyIsNoCaller == \A s : Ready(s) => ~Calls(s)
BY ReadyTurns DEF Calls

\* The first c steps may be dropped: what is kept of the states and leaves is
\* what the callers that stay wait for.
Drops(q, top, made, own, kept, tree, c, top2, made2, kept2, tree2) ==
  /\ Backs(q, top, made, own, kept, tree)
  /\ {top, made, top2, made2} \subseteq Nat /\ c \in 0..Len(q)
  /\ \A i \in c + 1..Len(q) : Calls(q[i]) =>
       q[i].keep <= made2 /\ (q[i].op = "closing" => own[Len(q) - i] <= top2)
  /\ \A x \in 1..made : x <= made2 => tree2[x] = tree[x]
  /\ \A x \in 1..top : x <= top2 => kept2[x] = kept[x]

\* Then others may be taken that owe nothing.
LEMMA BacksGoOn ==
  ASSUME NEW q, NEW top, NEW made, NEW own, NEW kept, NEW tree,
         NEW c, NEW top2, NEW made2, NEW kept2, NEW tree2,
         Drops(q, top, made, own, kept, tree, c, top2, made2, kept2, tree2),
         NEW p, AllReady(p)
  PROVE  Backs(p \o SubSeq(q, c + 1, Len(q)), top2, made2, own, kept2, tree2)
<1>9. Backs(q, top, made, own, kept, tree) /\ {top, made, top2, made2} \subseteq Nat /\ c \in 0..Len(q)
  BY DEF Drops
<1> DEFINE r == SubSeq(q, c + 1, Len(q))
           n == Len(q)
           k == Len(p)
           s == p \o r
<1>1. n \in Nat /\ (\E T : r \in Seq(T)) /\ Len(r) = n - c /\ \A i \in 1..n - c : r[i] = q[c + i]
  <2>1. PICK T : q \in Seq(T)
    BY <1>9 DEF Backs
  <2>2. Len(q) \in Nat /\ c + 1 \in Nat /\ \A i \in c + 1..Len(q) : q[i] \in T
    BY <1>9, <2>1
  <2>3. /\ r \in Seq(T) /\ Len(r) = IF c + 1 <= Len(q) THEN Len(q) - (c + 1) + 1 ELSE 0
        /\ \A i \in 1..Len(q) - (c + 1) + 1 : r[i] = q[c + 1 + i - 1]
    BY <2>1, <2>2, SubSeqProperties
  <2>4. c \in Nat /\ c <= Len(q)
    BY <1>9, <2>2
  <2>5. \A i \in 1..Len(q) - c : i \in 1..Len(q) - (c + 1) + 1 /\ c + 1 + i - 1 = c + i
    BY <2>2, <2>4
  <2> HIDE DEF r
  <2>6. Len(r) = Len(q) - c
    BY <2>2, <2>3, <2>4
  <2> QED
    BY <2>2, <2>3, <2>5, <2>6
<1> HIDE DEF r
<1>2. /\ \E T : s \in Seq(T)
      /\ k \in Nat /\ Len(s) = k + (n - c)
      /\ \A i \in 1..k : s[i] = p[i]
      /\ \A i \in 1..n - c : s[k + i] = q[c + i]
  <2>1. \E T : p \in Seq(T)
    BY DEF AllReady
  <2>2. /\ \E T : s \in Seq(T)
        /\ Len(p) \in Nat /\ Len(s) = Len(p) + Len(r)
        /\ \A i \in 1..Len(p) : s[i] = p[i]
        /\ \A i \in 1..Len(r) : s[Len(p) + i] = r[i]
    <3>1. \E T : r \in Seq(T)
      BY <1>1
    <3> QED
      BY ONLY <2>1, <3>1, Joined
  <2> QED
    BY <1>1, <2>2
<1>3. \A i \in 1..k : Ready(p[i])
  BY DEF AllReady
<1>8. c \in Nat
  BY <1>9
<1> HIDE DEF n, k, s
\* a step of s is one of p, or one of q at the same distance from the end
<1>4. ASSUME NEW i \in 1..Len(s)
      PROVE  \/ Ready(s[i]) /\ ~Calls(s[i])
             \/ \E e \in c + 1..n : s[i] = q[e] /\ n - e = Len(s) - i /\ i = k + (e - c)
  <2>1. CASE i <= k
    <3>1. i \in 1..k
      BY <1>2, <2>1
    <3> QED
      BY <1>2, <1>3, <3>1, ReadyIsNoCaller
  <2>2. CASE ~(i <= k)
    <3> DEFINE e == i - k + c
    <3>1. /\ e \in c + 1..n /\ e - c \in 1..n - c /\ k + (e - c) = i /\ c + (e - c) = e
          /\ n - e = Len(s) - i
      BY <1>1, <1>2, <1>8, <2>2
    <3>2. s[i] = q[e]
      BY <1>2, <3>1
    <3> QED
      BY <3>1, <3>2
  <2> QED
    BY <2>1, <2>2
<1>5. ASSUME NEW i \in 1..Len(s)
      PROVE  Ready(s[i]) \/ Waits(s[i], own[Len(s) - i], top2, made2, kept2, tree2)
  <2> SUFFICES ASSUME NEW e \in c + 1..n, s[i] = q[e], n - e = Len(s) - i, ~Ready(q[e])
               PROVE  Waits(q[e], own[n - e], top2, made2, kept2, tree2)
    BY <1>4
  <2>1. e \in 1..Len(q) /\ e \in c + 1..Len(q)
    BY <1>1, <1>9 DEF n
  <2>2. Waits(q[e], own[n - e], top, made, kept, tree)
    BY <1>9, <2>1 DEF Backs, n
  <2>3. Calls(q[e]) /\ q[e].keep <= made2 /\ (q[e].op = "closing" => own[n - e] <= top2)
    BY <2>1, <2>2 DEF Waits, n, Drops
  <2>4. q[e].keep \in 0..made2 /\ q[e].keep \in 0..made
    BY <1>9, <2>2, <2>3 DEF Waits
  <2>5. ASSUME q[e].op = "closing"
        PROVE  own[n - e] \in 1..top2 /\ \A x \in 1..q[e].keep : tree2[x] < kept2[own[n - e]].at
    <3>1. own[n - e] \in 1..top /\ own[n - e] <= top2 /\ own[n - e] \in 1..top2
      BY <1>9, <2>2, <2>3, <2>5 DEF Waits
    <3>2. kept2[own[n - e]] = kept[own[n - e]]
      BY <3>1 DEF Drops
    <3>3. ASSUME NEW x \in 1..q[e].keep
          PROVE  tree2[x] < kept2[own[n - e]].at
      <4>1. x \in 1..made /\ x <= made2
        BY <1>9, <2>4
      <4>2. tree2[x] = tree[x]
        BY <4>1 DEF Drops
      <4>3. tree[x] < kept[own[n - e]].at
        BY <2>2, <2>5 DEF Waits
      <4> QED
        BY <3>2, <4>2, <4>3
    <3> QED
      BY <3>1, <3>3
  <2> QED
    BY <2>3, <2>4, <2>5 DEF Waits
<1>6. ASSUME NEW i \in 1..Len(s), NEW j \in 1..Len(s), i < j, Calls(s[i]), Calls(s[j])
      PROVE  /\ s[j].keep <= s[i].keep
             /\ s[i].op = "closing" /\ s[j].op = "closing" => own[Len(s) - j] < own[Len(s) - i]
  <2>1. PICK e \in c + 1..n : s[i] = q[e] /\ n - e = Len(s) - i /\ i = k + (e - c)
    BY <1>4, <1>6
  <2>2. PICK f \in c + 1..n : s[j] = q[f] /\ n - f = Len(s) - j /\ j = k + (f - c)
    BY <1>4, <1>6
  <2>3. e \in 1..n /\ f \in 1..n /\ e < f
    <3>1. i < j /\ i = k + (e - c) /\ j = k + (f - c) /\ c \in Nat
      BY <1>6, <1>9, <2>1, <2>2
    <3> QED
      BY ONLY <1>1, <1>2, <3>1, e \in c + 1..n, f \in c + 1..n
  <2>4. /\ q[f].keep <= q[e].keep
        /\ q[e].op = "closing" /\ q[f].op = "closing" => own[n - f] < own[n - e]
    <3>1. e \in 1..Len(q) /\ f \in 1..Len(q)
      BY <2>3 DEF n
    <3> QED
      BY <1>6, <1>9, <2>1, <2>2, <2>3, <3>1 DEF Backs, n
  <2> QED
    BY <2>1, <2>2, <2>4
<1>7. Backs(s, top2, made2, own, kept2, tree2)
  BY <1>2, <1>5, <1>6, <1>9 DEF Backs
<1> QED
  BY <1>7 DEF s, r, n

\* A caller is put before them.
LEMMA BacksCaller ==
  ASSUME NEW q, NEW low \in Nat, NEW top \in Nat, NEW made \in Nat, NEW own, NEW kept, NEW tree,
         Backs(q, low, made, own, kept, tree), low <= top,
         NEW s, Calls(s), s.keep = made,
         s.op = "closing" => top = low + 1 /\ \A x \in 1..made : tree[x] < kept[top].at
  PROVE  \E own2 : Backs(<<s>> \o q, top, made, own2, kept, tree)
<1> DEFINE n == Len(q)
           own2 == [own EXCEPT ![n] = top]
           r == <<s>> \o q
<1>1. n \in Nat /\ own \in [Nat -> Nat] /\ own2 \in [Nat -> Nat]
  BY DEF Backs
<1>2. own2[n] = top /\ \A x \in Nat : x # n => own2[x] = own[x]
  BY <1>1
<1>3. /\ \E T : r \in Seq(T)
      /\ Len(r) = 1 + n /\ r[1] = s /\ \A i \in 1..n : r[1 + i] = q[i]
  <2>1. Len(<<s>>) = 1 /\ <<s>>[1] = s /\ <<s>> \in Seq({s}) /\ 1 \in 1..1
    OBVIOUS
  <2>2. \E T : q \in Seq(T)
    BY DEF Backs
  <2>3. \E T : <<s>> \in Seq(T)
    BY <2>1
  <2> DEFINE p == <<s>>
  <2> HIDE DEF p
  <2>4. /\ \E T : p \o q \in Seq(T)
        /\ Len(p \o q) = Len(p) + Len(q)
        /\ \A i \in 1..Len(p) : (p \o q)[i] = p[i]
        /\ \A i \in 1..Len(q) : (p \o q)[Len(p) + i] = q[i]
    <3>1. \E T : p \in Seq(T)
      BY <2>3 DEF p
    <3> QED
      BY ONLY <2>2, <3>1, Joined
  <2>5. Len(p) = 1 /\ p[1] = s /\ r = p \o q
    BY <2>1 DEF p
  <2> QED
    BY <2>1, <2>4, <2>5
<1> HIDE DEF own2, r, n
<1>4. ASSUME NEW i \in 1..n
      PROVE  /\ Ready(q[i]) \/ Waits(q[i], own2[n - i], top, made, kept, tree)
             /\ Calls(q[i]) => q[i].keep <= made
             /\ q[i].op = "closing" => own2[n - i] <= low
  <2>6. i \in 1..Len(q)
    BY DEF n
  <2>1. n - i \in Nat /\ n - i # n
    BY <1>1
  <2>2. own2[n - i] = own[n - i] /\ own[n - i] \in Nat
    BY <1>1, <1>2, <2>1
  <2>3. Ready(q[i]) \/ Waits(q[i], own[n - i], low, made, kept, tree)
    BY <2>6 DEF Backs, n
  <2>4. CASE Ready(q[i])
    BY <2>4, ReadyIsNoCaller DEF Calls
  <2>5. CASE Waits(q[i], own[n - i], low, made, kept, tree)
    <3>1. q[i].keep \in 0..made /\ (q[i].op = "closing" => own[n - i] \in 1..low /\ own[n - i] \in 1..top)
      BY <2>5 DEF Waits
    <3>2. Waits(q[i], own2[n - i], top, made, kept, tree)
      BY <2>2, <2>5, <3>1 DEF Waits
    <3> QED
      BY <2>2, <3>1, <3>2
  <2> QED
    BY <2>3, <2>4, <2>5
<1>5. Waits(s, own2[n], top, made, kept, tree)
  BY <1>2 DEF Waits
<1>6. \A i \in 1..Len(r) : Ready(r[i]) \/ Waits(r[i], own2[Len(r) - i], top, made, kept, tree)
  <2> SUFFICES ASSUME NEW i \in 1..Len(r)
               PROVE  Ready(r[i]) \/ Waits(r[i], own2[Len(r) - i], top, made, kept, tree)
    OBVIOUS
  <2>1. CASE i = 1
    <3>1. Len(r) - i = n /\ r[i] = s
      BY <1>1, <1>3, <2>1
    <3> QED
      BY <1>5, <3>1
  <2>2. CASE i # 1
    <3> DEFINE e == i - 1
    <3>1. e \in 1..n /\ i = 1 + e /\ Len(r) - i = n - e
      BY <1>1, <1>3, <2>2
    <3>2. r[i] = q[e]
      BY <1>3, <3>1
    <3> HIDE DEF e
    <3> QED
      BY <1>4, <3>1, <3>2
  <2> QED
    BY <2>1, <2>2
<1>7. ASSUME NEW i \in 1..Len(r), NEW j \in 1..Len(r), i < j, Calls(r[i]), Calls(r[j])
      PROVE  /\ r[j].keep <= r[i].keep
             /\ r[i].op = "closing" /\ r[j].op = "closing" => own2[Len(r) - j] < own2[Len(r) - i]
  <2> DEFINE f == j - 1
  <2>5. i \in 1..1 + n /\ j \in 1..1 + n /\ i < j /\ Len(r) = 1 + n
    BY <1>3, <1>7
  <2>1. f \in 1..n /\ j = 1 + f /\ Len(r) - j = n - f
    BY ONLY <1>1, <2>5
  <2>2. r[j] = q[f]
    BY <1>3, <2>1
  <2> HIDE DEF f
  <2>3. CASE i = 1
    <3>1. r[i] = s /\ Len(r) - i = n
      BY <1>1, <1>3, <2>3
    <3>2. q[f].keep <= made /\ (q[f].op = "closing" => own2[n - f] <= low)
      BY <1>4, <1>7, <2>1, <2>2
    <3>3. ASSUME s.op = "closing", q[f].op = "closing"
          PROVE  own2[n - f] < own2[n]
      <4>1. own2[n - f] <= low /\ own2[n] = low + 1
        BY <1>2, <3>2, <3>3
      <4>2. own2[n - f] \in Nat
        <5>1. n - f \in Nat
          BY ONLY <1>1, <2>1
        <5> QED
          BY <1>1, <5>1
      <4> QED
        BY <4>1, <4>2
    <3> QED
      BY <2>1, <2>2, <3>1, <3>2, <3>3
  <2>4. CASE i # 1
    <3> DEFINE e == i - 1
    <3>1. e \in 1..n /\ i = 1 + e /\ Len(r) - i = n - e /\ e < f
      BY ONLY <1>1, <2>1, <2>4, <2>5
    <3>2. r[i] = q[e]
      BY <1>3, <3>1
    <3> HIDE DEF e
    <3>3. /\ q[f].keep <= q[e].keep
          /\ q[e].op = "closing" /\ q[f].op = "closing" => own[n - f] < own[n - e]
      <4>1. e \in 1..Len(q) /\ f \in 1..Len(q)
        BY <2>1, <3>1 DEF n
      <4> QED
        BY <1>7, <2>1, <2>2, <3>1, <3>2, <4>1 DEF Backs, n
    <3>4. own2[n - f] = own[n - f] /\ own2[n - e] = own[n - e]
      <4>1. n - f \in Nat /\ n - f # n /\ n - e \in Nat /\ n - e # n
        <5>1. n \in Nat /\ e \in 1..n /\ f \in 1..n
          BY <1>1, <2>1, <3>1
        <5> QED
          BY ONLY <5>1
      <4> QED
        BY <1>2, <4>1
    <3> QED
      BY <2>1, <2>2, <3>1, <3>2, <3>3, <3>4
  <2> QED
    BY <2>3, <2>4
<1>8. Backs(r, top, made, own2, kept, tree)
  BY <1>1, <1>3, <1>6, <1>7 DEF Backs
<1> QED
  BY <1>8 DEF r

\* Where the parser is: outside of any window, about to enter one, or in one,
\* whose leaves were made behind the state that was saved for it.
Free(q, kept, tree) == \E own : Backs(q, Len(kept), Len(tree), own, kept, tree)
Starting(q, kept, tree) ==
  \E w \in {Angle, Header} : \E r : q = w \o r /\ Free(r, kept, tree)
Inside(q, kept, tree, w, m, r, own) ==
  /\ q = w \o r /\ Window(w, m) /\ m <= Len(tree) /\ kept # <<>>
  /\ \A x \in 1..Len(tree) - m : tree[x] < kept[Len(kept)].at
  /\ Backs(r, Len(kept) - 1, Len(tree) - m, own, kept, tree)
Trying(q, kept, tree) == \E w, m, r, own : Inside(q, kept, tree, w, m, r, own)
OnTheWay(q, kept, tree) ==
  Free(q, kept, tree) \/ Starting(q, kept, tree) \/ Trying(q, kept, tree)

\* A list with others behind it.
LEMMA Heads ==
  ASSUME NEW w, NEW r, \E T : w \in Seq(T), \E T : r \in Seq(T), w # <<>>
  PROVE  /\ w \o r # <<>> /\ Head(w \o r) = Head(w) /\ Tail(w \o r) = Tail(w) \o r
         /\ \E T : Tail(w) \in Seq(T)
<1>1. PICK T1 : w \in Seq(T1)
  OBVIOUS
<1>2. PICK T2 : r \in Seq(T2)
  OBVIOUS
<1> DEFINE T == T1 \union T2
<1>3. w \in Seq(T) /\ r \in Seq(T)
  BY <1>1, <1>2
<1> HIDE DEF T
<1>4. w \o r \in Seq(T) /\ Len(w) \in Nat /\ Len(w) >= 1 /\ Len(r) \in Nat /\ Len(w \o r) = Len(w) + Len(r)
  BY <1>3
<1>5. w \o r # <<>>
  BY <1>4
<1>6. Head(w \o r) = Head(w)
  BY <1>3, <1>4
<1>7. Tail(w) \in Seq(T) /\ Len(Tail(w)) = Len(w) - 1 /\ \A i \in 1..Len(w) - 1 : Tail(w)[i] = w[i + 1]
  BY <1>3, <1>4
<1>8. Tail(w \o r) = Tail(w) \o r
  <2> DEFINE a == Tail(w \o r)
             b == Tail(w) \o r
  <2>1. a \in Seq(T) /\ b \in Seq(T)
    BY <1>3, <1>4, <1>5, <1>7
  <2>2. Len(a) = Len(w) + Len(r) - 1 /\ Len(b) = Len(w) + Len(r) - 1
    BY <1>3, <1>4, <1>5, <1>7
  <2>3. \A i \in 1..Len(w) + Len(r) - 1 : a[i] = b[i]
    BY <1>3, <1>4, <1>5, <1>7
  <2> HIDE DEF a, b
  <2>4. a = b
    BY <2>1, <2>2, <2>3, SeqEqual
  <2> QED
    BY <2>4 DEF a, b
<1> QED
  BY <1>5, <1>6, <1>7, <1>8

\* Three lists in a row.
LEMMA ThreeLists ==
  ASSUME NEW a, NEW b, NEW c, \E T : a \in Seq(T), \E T : b \in Seq(T), \E T : c \in Seq(T)
  PROVE  (a \o b) \o c = a \o (b \o c)
<1>1. PICK T1 : a \in Seq(T1)
  OBVIOUS
<1>2. PICK T2 : b \in Seq(T2)
  OBVIOUS
<1>3. PICK T3 : c \in Seq(T3)
  OBVIOUS
<1> DEFINE T == (T1 \union T2) \union T3
<1>4. a \in Seq(T) /\ b \in Seq(T) /\ c \in Seq(T)
  BY <1>1, <1>2, <1>3
<1> HIDE DEF T
<1> QED
  BY <1>4, ConcatAssociative

\* Outside of windows a step that owes nothing is dropped, or stays, behind
\* others; leaves may be added.
LEMMA FreeGoesOn ==
  ASSUME NEW q, NEW K, NEW kept \in Seq(K), NEW L, NEW tree \in Seq(L), NEW tree2 \in Seq(L),
         Free(q, kept, tree), q # <<>>,
         Len(tree) <= Len(tree2), \A x \in 1..Len(tree) : tree2[x] = tree[x],
         NEW p, AllReady(p)
  PROVE  Free(p \o Tail(q), kept, tree2) /\ Free(p \o q, kept, tree2)
<1>1. PICK own : Backs(q, Len(kept), Len(tree), own, kept, tree)
  BY DEF Free
<1>2. PICK T : q \in Seq(T)
  BY <1>1 DEF Backs
<1>3. /\ Len(kept) \in Nat /\ Len(tree) \in Nat /\ Len(tree2) \in Nat /\ Len(q) \in Nat
      /\ 0 \in 0..Len(q) /\ 1 \in 0..Len(q) /\ 0 + 1 = 1 /\ 1 + 1 = 2
      /\ SubSeq(q, 1, Len(q)) = q /\ SubSeq(q, 2, Len(q)) = Tail(q)
  BY <1>2
<1>4. \A i \in 1..Len(q) : Calls(q[i]) =>
        q[i].keep <= Len(tree2) /\ (q[i].op = "closing" => own[Len(q) - i] <= Len(kept))
  <2> SUFFICES ASSUME NEW i \in 1..Len(q), Calls(q[i])
               PROVE  q[i].keep <= Len(tree2) /\ (q[i].op = "closing" => own[Len(q) - i] <= Len(kept))
    OBVIOUS
  <2>1. Waits(q[i], own[Len(q) - i], Len(kept), Len(tree), kept, tree)
    BY <1>1, ReadyIsNoCaller DEF Backs
  <2>2. q[i].keep \in 0..Len(tree) /\ (q[i].op = "closing" => own[Len(q) - i] \in 1..Len(kept))
    BY <2>1 DEF Waits
  <2> QED
    BY <1>3, <2>2
<1>5. \A c \in {0, 1} : \A i \in c + 1..Len(q) : i \in 1..Len(q)
  BY <1>3
<1>6. /\ \A x \in 1..Len(tree) : x <= Len(tree2) => tree2[x] = tree[x]
      /\ \A x \in 1..Len(kept) : x <= Len(kept) => kept[x] = kept[x]
  OBVIOUS
<1>7. \A c \in {0, 1} : Backs(p \o SubSeq(q, c + 1, Len(q)), Len(kept), Len(tree2), own, kept, tree2)
  <2> SUFFICES ASSUME NEW c \in {0, 1}
               PROVE  Backs(p \o SubSeq(q, c + 1, Len(q)), Len(kept), Len(tree2), own, kept, tree2)
    OBVIOUS
  <2>1. c \in 0..Len(q)
    BY <1>3
  <2>2. \A i \in c + 1..Len(q) : Calls(q[i]) =>
          q[i].keep <= Len(tree2) /\ (q[i].op = "closing" => own[Len(q) - i] <= Len(kept))
    BY <1>4, <1>5
  <2>3. Drops(q, Len(kept), Len(tree), own, kept, tree, c, Len(kept), Len(tree2), kept, tree2)
    BY <1>1, <1>3, <1>6, <2>1, <2>2 DEF Drops
  <2> QED
    BY <2>3, BacksGoOn
<1>8. /\ Backs(p \o Tail(q), Len(kept), Len(tree2), own, kept, tree2)
      /\ Backs(p \o q, Len(kept), Len(tree2), own, kept, tree2)
  BY <1>3, <1>7
<1> QED
  BY <1>8 DEF Free

\* A rule or an arm is entered.
LEMMA FreeEnters ==
  ASSUME NEW q, NEW K, NEW kept \in Seq(K), NEW L, NEW tree \in Seq(L),
         Free(q, kept, tree), q # <<>>, NEW p, Enters(p)
  PROVE  OnTheWay(p \o Tail(q), kept, tree)
<1>1. Len(tree) \in Nat /\ Len(tree) <= Len(tree) /\ \A x \in 1..Len(tree) : tree[x] = tree[x]
  OBVIOUS
<1>2. CASE AllReady(p)
  BY <1>1, <1>2, FreeGoesOn DEF OnTheWay
<1>3. CASE p \in {Angle, Header}
  <2>1. Free(<<>> \o Tail(q), kept, tree)
    BY <1>1, ShortLists, FreeGoesOn
  <2>2. <<>> \o Tail(q) = Tail(q)
    <3>1. \E T : q \in Seq(T)
      BY DEF Free, Backs
    <3> QED
      BY <3>1
  <2> QED
    BY <1>3, <2>1, <2>2 DEF OnTheWay, Starting
<1> QED
  BY <1>2, <1>3 DEF Enters

\* In a window the first step is dropped, and another window entered; the
\* leaves that are added are counted.
LEMMA TryingGoesOn ==
  ASSUME NEW q, NEW K, NEW kept \in Seq(K), NEW L, NEW tree \in Seq(L), NEW tree2 \in Seq(L),
         NEW w, NEW m \in Nat, NEW r, NEW own, Inside(q, kept, tree, w, m, r, own),
         NEW v, NEW m2 \in Nat, Windowed(v, m2),
         Len(tree2) = Len(tree) + (m2 - m), m <= m2, \A x \in 1..Len(tree) : tree2[x] = tree[x]
  PROVE  Trying(v \o r, kept, tree2)
<1>1. PICK w2, p : v = w2 \o p /\ Window(w2, m2) /\ AllReady(p)
  BY DEF Windowed
<1>2. (\E T : w2 \in Seq(T)) /\ (\E T : p \in Seq(T)) /\ (\E T : r \in Seq(T))
  BY <1>1, WindowMoves DEF Moving, AllReady, Inside, Backs
<1>3. v \o r = w2 \o (p \o r)
  BY <1>1, <1>2, ThreeLists
<1>4. /\ Len(kept) \in Nat /\ Len(kept) - 1 \in Nat /\ Len(tree) \in Nat /\ Len(tree2) \in Nat
      /\ Len(tree) - m \in Nat /\ Len(tree2) - m2 = Len(tree) - m /\ m2 <= Len(tree2)
  BY DEF Inside
<1>5. Backs(p \o SubSeq(r, 0 + 1, Len(r)), Len(kept) - 1, Len(tree) - m, own, kept, tree2)
  <2> DEFINE top == Len(kept) - 1
             made == Len(tree) - m
  <2>1. top \in Nat /\ made \in Nat /\ Backs(r, top, made, own, kept, tree)
    BY <1>4 DEF Inside
  <2>2. \A x \in 1..made : x <= made => tree2[x] = tree[x]
    BY <1>4
  <2> HIDE DEF top, made
  <2>3. Len(r) \in Nat /\ 0 \in 0..Len(r)
    BY <1>2
  <2>4. \A i \in 0 + 1..Len(r) : Calls(r[i]) =>
          r[i].keep <= made /\ (r[i].op = "closing" => own[Len(r) - i] <= top)
    <3> SUFFICES ASSUME NEW i \in 0 + 1..Len(r), Calls(r[i])
                 PROVE  r[i].keep <= made /\ (r[i].op = "closing" => own[Len(r) - i] <= top)
      OBVIOUS
    <3>1. i \in 1..Len(r)
      BY <2>3
    <3>2. Waits(r[i], own[Len(r) - i], top, made, kept, tree)
      BY <2>1, <3>1, ReadyIsNoCaller DEF Backs
    <3>3. r[i].keep \in 0..made /\ (r[i].op = "closing" => own[Len(r) - i] \in 1..top)
      BY <3>2 DEF Waits
    <3> QED
      BY <2>1, <3>3
  <2>5. \A x \in 1..top : x <= top => kept[x] = kept[x]
    OBVIOUS
  <2>6. Backs(p \o SubSeq(r, 0 + 1, Len(r)), top, made, own, kept, tree2)
    <3>1. Drops(r, top, made, own, kept, tree, 0, top, made, kept, tree2)
      BY <2>1, <2>2, <2>3, <2>4, <2>5 DEF Drops
    <3>2. PICK z \in {0} : Drops(r, top, made, own, kept, tree, z, top, made, kept, tree2)
      BY <3>1
    <3>3. AllReady(p)
      BY <1>1
    <3>4. Backs(p \o SubSeq(r, z + 1, Len(r)), top, made, own, kept, tree2)
      BY ONLY <3>2, <3>3, BacksGoOn
    <3> QED
      BY <3>4
  <2> QED
    BY <2>6 DEF top, made
<1>6. SubSeq(r, 0 + 1, Len(r)) = r
  BY <1>2
<1>7. \A x \in 1..Len(tree2) - m2 : tree2[x] < kept[Len(kept)].at
  <2>1. \A x \in 1..Len(tree2) - m2 : x \in 1..Len(tree) /\ x \in 1..Len(tree) - m
    BY <1>4
  <2>2. \A x \in 1..Len(tree) - m : tree[x] < kept[Len(kept)].at
    BY DEF Inside
  <2> QED
    BY <2>1, <2>2
<1>8. Inside(v \o r, kept, tree2, w2, m2, p \o r, own)
  BY <1>1, <1>3, <1>4, <1>5, <1>6, <1>7 DEF Inside
<1> QED
  BY <1>8 DEF Trying

\* Step c goes on after an error, with the leaves that it keeps among tree2.
Stops(q, top, made, own, kept, tree, c, tree2) ==
  /\ Backs(q, top, made, own, kept, tree) /\ top \in 0..Len(kept) /\ made \in 0..Len(tree)
  /\ c \in 1..Len(q) /\ Calls(q[c]) /\ q[c].keep <= Len(tree2)
  /\ \A x \in 1..Len(tree) : x <= Len(tree2) => tree2[x] = tree[x]

\* An error, or the end of what was called, is where a caller goes on: behind it
\* the parser is outside of any window, without the state that a closing gives
\* back; and what the caller keeps was made before its own state was saved.
LEMMA CallerGoesOn ==
  ASSUME NEW q, NEW K, NEW kept \in Seq(K), NEW L, NEW tree \in Seq(L), NEW tree2 \in Seq(L),
         NEW top, NEW made, NEW own, NEW c, Stops(q, top, made, own, kept, tree, c, tree2),
         NEW p, AllReady(p)
  PROVE  /\ q[c].keep \in 0..made
         /\ q[c].op = "unchecked" => Free(p \o SubSeq(q, c + 1, Len(q)), kept, tree2)
         /\ q[c].op = "closing" =>
              /\ kept # <<>>
              /\ Free(p \o SubSeq(q, c + 1, Len(q)), SubSeq(kept, 1, Len(kept) - 1), tree2)
              /\ \E e \in 1..Len(kept) : \A x \in 1..q[c].keep : tree[x] < kept[e].at
<1>8. /\ Backs(q, top, made, own, kept, tree) /\ top \in 0..Len(kept) /\ made \in 0..Len(tree)
      /\ c \in 1..Len(q) /\ Calls(q[c]) /\ q[c].keep <= Len(tree2)
      /\ \A x \in 1..Len(tree) : x <= Len(tree2) => tree2[x] = tree[x]
  BY DEF Stops
<1>1. /\ Len(kept) \in Nat /\ Len(tree) \in Nat /\ Len(tree2) \in Nat /\ Len(q) \in Nat
      /\ top \in Nat /\ made \in Nat /\ c \in 0..Len(q) /\ top <= Len(kept) /\ made <= Len(tree)
  <2>1. PICK T : q \in Seq(T)
    BY <1>8 DEF Backs
  <2>2. Len(q) \in Nat /\ Len(kept) \in Nat /\ Len(tree) \in Nat /\ Len(tree2) \in Nat
    BY <2>1
  <2> QED
    BY <1>8, <2>2
<1>2. ASSUME NEW i \in 1..Len(q), Calls(q[i])
      PROVE  Waits(q[i], own[Len(q) - i], top, made, kept, tree)
  BY <1>2, <1>8, ReadyIsNoCaller DEF Backs
<1>3. q[c].keep \in 0..made /\ (q[c].op = "closing" => own[Len(q) - c] \in 1..top)
  BY <1>2, <1>8 DEF Waits
<1>4. ASSUME NEW i \in c + 1..Len(q), Calls(q[i])
      PROVE  /\ i \in 1..Len(q) /\ q[i].keep <= Len(tree2)
             /\ q[i].op = "closing" => own[Len(q) - i] \in 1..top
             /\ q[i].op = "closing" /\ q[c].op = "closing" => own[Len(q) - i] < own[Len(q) - c]
  <2>1. i \in 1..Len(q) /\ c < i
    BY <1>1
  <2>2. /\ q[i].keep <= q[c].keep
        /\ q[i].op = "closing" /\ q[c].op = "closing" => own[Len(q) - i] < own[Len(q) - c]
    BY <1>4, <1>8, <2>1 DEF Backs
  <2>3. q[i].keep \in 0..made /\ (q[i].op = "closing" => own[Len(q) - i] \in 1..top)
    BY <1>2, <1>4, <2>1 DEF Waits
  <2>4. q[i].keep <= Len(tree2)
    <3>1. q[i].keep \in Nat /\ q[c].keep \in Nat /\ q[i].keep <= q[c].keep /\ q[c].keep <= Len(tree2)
      BY <1>1, <1>3, <1>8, <2>2, <2>3
    <3> QED
      BY ONLY <1>1, <3>1
  <2> QED
    BY <2>1, <2>2, <2>3, <2>4
<1>5. \A x \in 1..made : x <= Len(tree2) => tree2[x] = tree[x]
  BY <1>1, <1>8
<1>6. ASSUME q[c].op = "unchecked"
      PROVE  Free(p \o SubSeq(q, c + 1, Len(q)), kept, tree2)
  <2>1. \A i \in c + 1..Len(q) : Calls(q[i]) =>
          q[i].keep <= Len(tree2) /\ (q[i].op = "closing" => own[Len(q) - i] <= Len(kept))
    <3> SUFFICES ASSUME NEW i \in c + 1..Len(q), Calls(q[i])
                 PROVE  q[i].keep <= Len(tree2) /\ (q[i].op = "closing" => own[Len(q) - i] <= Len(kept))
      OBVIOUS
    <3>1. q[i].keep <= Len(tree2) /\ (q[i].op = "closing" => own[Len(q) - i] \in 1..top)
      BY <1>4
    <3> QED
      BY <1>1, <3>1
  <2>2. Drops(q, top, made, own, kept, tree, c, Len(kept), Len(tree2), kept, tree2)
    BY <1>1, <1>5, <1>8, <2>1 DEF Drops
  <2>3. Backs(p \o SubSeq(q, c + 1, Len(q)), Len(kept), Len(tree2), own, kept, tree2)
    BY <2>2, BacksGoOn
  <2> QED
    BY <2>3 DEF Free
<1>7. ASSUME q[c].op = "closing"
      PROVE  /\ kept # <<>>
             /\ Free(p \o SubSeq(q, c + 1, Len(q)), SubSeq(kept, 1, Len(kept) - 1), tree2)
             /\ \E e \in 1..Len(kept) : \A x \in 1..q[c].keep : tree[x] < kept[e].at
  <2> DEFINE k == SubSeq(kept, 1, Len(kept) - 1)
             e == own[Len(q) - c]
  <2>1. e \in 1..top /\ e \in 1..Len(kept) /\ \A x \in 1..q[c].keep : tree[x] < kept[e].at
    <3>1. e \in 1..top /\ \A x \in 1..q[c].keep : tree[x] < kept[e].at
      BY <1>2, <1>7, <1>8 DEF Waits
    <3>2. e \in 1..Len(kept)
      <4> HIDE DEF e
      <4> QED
        BY <1>1, <3>1
    <3> QED
      BY <3>1, <3>2
  <2>2. kept # <<>>
    <3> HIDE DEF e
    <3> QED
      BY <2>1
  <2>3. Len(k) = Len(kept) - 1 /\ Len(k) \in Nat /\ \A x \in 1..Len(kept) - 1 : k[x] = kept[x]
    <3>1. Len(kept) >= 1
      BY <2>2
    <3> QED
      BY <3>1, Below
  <2> HIDE DEF k
  <2>4. \A i \in c + 1..Len(q) : Calls(q[i]) =>
          q[i].keep <= Len(tree2) /\ (q[i].op = "closing" => own[Len(q) - i] <= Len(k))
    <3> SUFFICES ASSUME NEW i \in c + 1..Len(q), Calls(q[i])
                 PROVE  q[i].keep <= Len(tree2) /\ (q[i].op = "closing" => own[Len(q) - i] <= Len(k))
      OBVIOUS
    <3>1. /\ q[i].keep <= Len(tree2)
          /\ q[i].op = "closing" => own[Len(q) - i] \in 1..top /\ own[Len(q) - i] < e
      BY <1>4, <1>7
    <3> HIDE DEF e
    <3>2. \A y \in 1..top : y < e => y <= Len(k)
      BY <1>1, <2>1, <2>3
    <3> QED
      BY <3>1, <3>2
  <2>5. \A x \in 1..top : x <= Len(k) => k[x] = kept[x]
    BY <1>1, <2>3
  <2>6. Drops(q, top, made, own, kept, tree, c, Len(k), Len(tree2), k, tree2)
    BY <1>1, <1>5, <1>8, <2>3, <2>4, <2>5 DEF Drops
  <2>7. Backs(p \o SubSeq(q, c + 1, Len(q)), Len(k), Len(tree2), own, k, tree2)
    BY <2>6, BacksGoOn
  <2>8. Free(p \o SubSeq(q, c + 1, Len(q)), k, tree2)
    BY <2>7 DEF Free
  <2>9. \E x \in 1..Len(kept) : \A y \in 1..q[c].keep : tree[y] < kept[x].at
    BY <2>1
  <2> QED
    BY <2>2, <2>8, <2>9 DEF k
<1> QED
  BY <1>3, <1>6, <1>7

\* A window ends where its state is given back.
LEMMA TryingEnds ==
  ASSUME NEW q, NEW K, NEW kept \in Seq(K), NEW L, NEW tree \in Seq(L), NEW tree2 \in Seq(L),
         NEW w, NEW m \in Nat, NEW r, NEW own, Inside(q, kept, tree, w, m, r, own),
         Len(tree) - m <= Len(tree2), \A x \in 1..Len(tree) : x <= Len(tree2) => tree2[x] = tree[x]
  PROVE  Free(r, SubSeq(kept, 1, Len(kept) - 1), tree2)
<1> DEFINE k == SubSeq(kept, 1, Len(kept) - 1)
           made == Len(tree) - m
<1>1. /\ Len(tree) \in Nat /\ Len(tree2) \in Nat /\ made \in Nat /\ made <= Len(tree2) /\ kept # <<>>
      /\ Backs(r, Len(kept) - 1, made, own, kept, tree)
  BY DEF Inside
<1>2. /\ Len(k) = Len(kept) - 1 /\ Len(kept) \in Nat /\ Len(kept) >= 1
      /\ \A x \in 1..Len(kept) - 1 : k[x] = kept[x]
  <2>1. Len(kept) \in Nat /\ Len(kept) >= 1
    BY <1>1
  <2> QED
    BY <2>1, Below
<1>3. \A x \in 1..made : x <= Len(tree2) => tree2[x] = tree[x]
  BY <1>1
<1> HIDE DEF k, made
<1>4. Len(k) \in Nat /\ Backs(r, Len(k), made, own, kept, tree) /\ \A x \in 1..Len(k) : k[x] = kept[x]
  BY <1>1, <1>2
<1>5. PICK T : r \in Seq(T)
  BY <1>1 DEF Backs
<1>6. Len(r) \in Nat /\ 0 \in 0..Len(r)
  BY <1>5
<1>7. \A i \in 0 + 1..Len(r) : Calls(r[i]) =>
        r[i].keep <= Len(tree2) /\ (r[i].op = "closing" => own[Len(r) - i] <= Len(k))
  <2> SUFFICES ASSUME NEW i \in 0 + 1..Len(r), Calls(r[i])
               PROVE  r[i].keep <= Len(tree2) /\ (r[i].op = "closing" => own[Len(r) - i] <= Len(k))
    OBVIOUS
  <2>1. i \in 1..Len(r)
    BY <1>6
  <2>2. Waits(r[i], own[Len(r) - i], Len(k), made, kept, tree)
    BY <1>4, <2>1, ReadyIsNoCaller DEF Backs
  <2>3. r[i].keep \in 0..made /\ (r[i].op = "closing" => own[Len(r) - i] \in 1..Len(k))
    BY <2>2 DEF Waits
  <2> QED
    BY <1>1, <1>4, <2>3
<1>8. Drops(r, Len(k), made, own, kept, tree, 0, Len(k), Len(tree2), k, tree2)
  BY <1>1, <1>3, <1>4, <1>6, <1>7 DEF Drops
<1>9. PICK z \in {0} : Drops(r, Len(k), made, own, kept, tree, z, Len(k), Len(tree2), k, tree2)
  BY <1>8
<1>10. AllReady(<<>>)
  BY ShortLists
<1>11. Backs(<<>> \o SubSeq(r, z + 1, Len(r)), Len(k), Len(tree2), own, k, tree2)
  BY ONLY <1>9, <1>10, BacksGoOn
<1>12. <<>> \o SubSeq(r, z + 1, Len(r)) = r
  <2>1. z + 1 = 1
    OBVIOUS
  <2>2. SubSeq(r, 1, Len(r)) = r /\ <<>> \o r = r
    BY <1>5
  <2> QED
    BY <2>1, <2>2
<1>13. Free(r, k, tree2)
  BY <1>11, <1>12 DEF Free
<1> QED
  BY <1>13 DEF k

\* A call that will go on after an error.
LEMMA Calling ==
  ASSUME NEW q, NEW K, NEW kept \in Seq(K), NEW L, NEW tree \in Seq(L), NEW low \in 0..Len(kept), NEW own,
         Backs(q, low, Len(tree), own, kept, tree), NEW s, Calls(s), s.keep = Len(tree),
         s.op = "closing" => Len(kept) = low + 1 /\ \A x \in 1..Len(tree) : tree[x] < kept[Len(kept)].at,
         NEW R, Ready(R)
  PROVE  Free(<<R, s>> \o q, kept, tree)
<1> DEFINE top == Len(kept)
           made == Len(tree)
<1>1. top \in Nat /\ made \in Nat /\ low \in Nat /\ low <= top
  OBVIOUS
<1>2. Backs(q, low, made, own, kept, tree) /\ s.keep = made
  OBVIOUS
<1>3. s.op = "closing" => top = low + 1 /\ \A x \in 1..made : tree[x] < kept[top].at
  OBVIOUS
<1> HIDE DEF top, made
<1>4. \E own2 : Backs(<<s>> \o q, top, made, own2, kept, tree)
  BY <1>1, <1>2, <1>3, BacksCaller
<1>5. Free(<<s>> \o q, kept, tree)
  BY <1>4 DEF Free, top, made
<1>6. PICK T : q \in Seq(T)
  BY DEF Backs
<1>7. <<s>> \o q # <<>> /\ <<R, s>> \o q = <<R>> \o (<<s>> \o q)
  <2>1. /\ \E U : <<R>> \in Seq(U)
        /\ \E U : <<s>> \in Seq(U)
        /\ \E U : q \in Seq(U)
        /\ <<s>> # <<>> /\ <<R, s>> = <<R>> \o <<s>>
    BY <1>6, ShortLists
  <2> DEFINE a == <<R>>
             b == <<s>>
  <2> HIDE DEF a, b
  <2>2. (a \o b) \o q = a \o (b \o q)
    <3>1. (\E U : a \in Seq(U)) /\ (\E U : b \in Seq(U)) /\ \E U : q \in Seq(U)
      BY <2>1 DEF a, b
    <3> QED
      BY ONLY <3>1, ThreeLists
  <2>3. b \o q # <<>>
    <3>1. (\E U : b \in Seq(U)) /\ (\E U : q \in Seq(U)) /\ b # <<>>
      BY <2>1 DEF b
    <3> QED
      BY ONLY <3>1, Heads
  <2> QED
    BY <2>1, <2>2, <2>3 DEF a, b
<1>8. AllReady(<<R>>)
  BY ShortLists DEF AllReady
<1>9. Len(tree) <= Len(tree) /\ \A x \in 1..Len(tree) : tree[x] = tree[x]
  BY <1>1 DEF made
<1> DEFINE v == <<s>> \o q
           p == <<R>>
<1>10. Free(v, kept, tree) /\ v # <<>> /\ AllReady(p)
  BY <1>5, <1>7, <1>8
<1> HIDE DEF v, p
<1>11. Free(p \o v, kept, tree)
  BY <1>9, <1>10, FreeGoesOn
<1> QED
  BY <1>7, <1>11 DEF v, p

\* The fields are tried with nothing made since the save; and what the first
\* step of a window may turn into are lists.
LEMMA WindowTurns ==
  ASSUME NEW w, NEW m, Window(w, m)
  PROVE  LET s == Head(w)
         IN /\ s.op = "concepts" => m = 0
            /\ s.op = "rule" => \E T : Grammar[s.rule] \in Seq(T)
            /\ s.op = "branch" => /\ \E T : s.other \in Seq(T)
                                 /\ \A t \in DOMAIN s.arms : \E T : s.arms[t] \in Seq(T)
<1> DEFINE Lists(s) ==
             /\ s.op = "rule" => \E T : Grammar[s.rule] \in Seq(T)
             /\ s.op = "branch" => /\ \E T : s.other \in Seq(T)
                                  /\ \A t \in DOMAIN s.arms : \E T : s.arms[t] \in Seq(T)
<1>1. /\ \A a : Head(<<a>>) = a /\ \E T : <<a>> \in Seq(T)
      /\ \A a, b : Head(<<a, b>>) = a /\ \E T : <<a, b>> \in Seq(T)
      /\ \A a, b, c : Head(<<a, b, c>>) = a /\ \E T : <<a, b, c>> \in Seq(T)
      /\ \A a, b, c, d : Head(<<a, b, c, d>>) = a
  <2>1. \A a : Head(<<a>>) = a /\ <<a>> \in Seq({a})
    BY ShortLists
  <2>2. \A a, b : Head(<<a, b>>) = a /\ <<a, b>> \in Seq({a, b})
    BY ShortLists
  <2>3. \A a, b, c : Head(<<a, b, c>>) = a /\ <<a, b, c>> \in Seq({a, b, c})
    BY ShortLists
  <2>4. \A a, b, c, d : Head(<<a, b, c, d>>) = a
    BY ShortLists
  <2> QED
    BY ONLY <2>1, <2>2, <2>3, <2>4, Zenon
<1>2. Lists(Skip) /\ Lists(Cut) /\ Lists(Fail) /\ Lists(Concepts) /\ Lists(Release)
  BY WindowSteps
<1>3. Lists(Leaf(IdTokens)) /\ Lists(Match({"var"}))
  BY WindowSteps
<1>4. Lists(Rule("id"))
  <2>1. \E T : Grammar[Rule("id").rule] \in Seq(T)
    <3>1. <<Leaf(IdTokens)>> \in Seq({Leaf(IdTokens)})
      BY ShortLists
    <3> QED
      BY <3>1, WindowSteps
  <2>2. Rule("id").op # "branch"
    BY WindowSteps
  <2> QED
    BY <2>1, <2>2
<1>5. Lists(Wanted)
  <2>1. <<>> \in Seq({}) /\ <<Fail>> \in Seq({Fail})
    BY ShortLists
  <2>2. (\E T : Wanted.other \in Seq(T)) /\ \A t \in DOMAIN Wanted.arms : \E T : Wanted.arms[t] \in Seq(T)
    BY <2>1, WindowSteps
  <2>3. Wanted.op = "branch"
    BY WindowSteps
  <2> QED
    BY <2>2, <2>3
<1>6. Lists(Tried)
  <2>1. (\E T : NoName \in Seq(T)) /\ \E T : Name1 \in Seq(T)
    BY <1>1 DEF NoName, Name1
  <2> QED
    BY <2>1, WindowSteps
<1>7. Lists(More)
  <2>1. (\E T : <<Another(1)>> \in Seq(T)) /\ \E T : Name2 \in Seq(T)
    <3>1. \E T : for_in(2) \in Seq(T)
      BY <1>1 DEF for_in
    <3>2. \E T : <<Skip, Rule("id")>> \in Seq(T)
      BY <1>1
    <3> DEFINE a == <<Skip, Rule("id")>>
               b == for_in(2)
    <3> HIDE DEF a, b
    <3>3. \E T : a \o b \in Seq(T)
      <4>1. (\E T : a \in Seq(T)) /\ \E T : b \in Seq(T)
        BY <3>1, <3>2 DEF a, b
      <4> QED
        BY ONLY <4>1, Joined
    <3> QED
      BY <1>1, <3>3 DEF Name2, a, b
  <2> QED
    BY <2>1, WindowSteps
<1>8. ASSUME NEW k
      PROVE  Lists(Another(k)) /\ Lists(GiveUp(k))
  <2>1. \E T : <<GiveUp(k), Rule("region_for_loop")>> \in Seq(T)
    BY <1>1
  <2>2. \E T : <<Release, Match({"in"}), Rule("expression"), Match({")"})>> \o for_body \in Seq(T)
    <3> DEFINE a == <<Release, Match({"in"}), Rule("expression"), Match({")"})>>
               b == for_body
    <3>1. \E T : a \in Seq(T)
      BY ShortLists
    <3>2. \E T : b \in Seq(T)
      BY <1>1 DEF for_body
    <3> HIDE DEF a, b
    <3>3. \E T : a \o b \in Seq(T)
      BY ONLY <3>1, <3>2, Joined
    <3> QED
      BY <3>3 DEF a, b
  <2>3. Lists(GiveUp(k))
    BY WindowSteps
  <2>4. Lists(Another(k))
    BY <2>1, <2>2, WindowSteps
  <2> QED
    BY <2>3, <2>4
<1>9. CASE m = 0 /\ w \in {<<Skip, Cut, Wanted, Concepts>>, <<Cut, Wanted, Concepts>>,
                           <<Wanted, Concepts>>, <<Fail, Concepts>>, <<Concepts>>}
  <2>1. Head(w) \in {Skip, Cut, Wanted, Fail, Concepts}
    BY <1>1, <1>9
  <2>2. Lists(Head(w))
    <3> HIDE DEF Lists
    <3> QED
      BY <1>2, <1>5, <2>1
  <2> QED
    BY <1>9, <2>2
<1>10. CASE m = 0 /\ w \in {<<Tried>>, <<Match({"var"}), Rule("id"), More>>, <<Rule("id"), More>>,
                            <<Leaf(IdTokens), More>>}
  <2>1. Head(w) \in {Tried, Match({"var"}), Rule("id"), Leaf(IdTokens)}
    BY <1>1, <1>10
  <2>2. Lists(Head(w))
    <3> HIDE DEF Lists
    <3> QED
      BY <1>3, <1>4, <1>6, <2>1
  <2> QED
    BY <1>10, <2>2
<1>11. CASE m = 1 /\ w \in {<<More>>, <<Skip, Rule("id"), Another(2)>>, <<Rule("id"), Another(2)>>,
                            <<Leaf(IdTokens), Another(2)>>}
  <2>1. Head(w) \in {More, Skip, Rule("id"), Leaf(IdTokens)}
    BY <1>1, <1>11
  <2>2. Lists(Head(w))
    <3> HIDE DEF Lists
    <3> QED
      BY <1>2, <1>3, <1>4, <1>7, <2>1
  <2>3. Head(w).op # "concepts"
    BY <2>1, WindowSteps
  <2> QED
    BY <2>2, <2>3
<1>12. CASE m \in {1, 2} /\ w = <<Another(m)>>
  <2>1. Head(w) = Another(m)
    BY <1>1, <1>12
  <2>2. Lists(Head(w))
    <3> HIDE DEF Lists
    <3> QED
      BY <1>8, <2>1
  <2>3. Head(w).op # "concepts"
    BY <2>1, WindowSteps
  <2> QED
    BY <2>2, <2>3
<1>13. CASE w \in {<<Release>>, <<GiveUp(m)>>}
  <2>1. Head(w) \in {Release, GiveUp(m)}
    BY <1>1, <1>13
  <2>2. Lists(Head(w))
    <3> HIDE DEF Lists
    <3> QED
      BY <1>2, <1>8, <2>1
  <2>3. Head(w).op # "concepts"
    BY <2>1, WindowSteps
  <2> QED
    BY <2>2, <2>3
<1> HIDE DEF Lists
<1> QED
  BY <1>9, <1>10, <1>11, <1>12, <1>13 DEF Window

\* The attempt at generic arguments: what is saved, and what follows.
LEMMA AngleTurns ==
  /\ Angle # <<>> /\ Head(Angle) = Save /\ \E T : Angle \in Seq(T)
  /\ Tail(Angle) = <<Skip, Cut, Wanted, Concepts>>
<1>1. PICK a, b, c, d, e : a = Save /\ b = Skip /\ c = Cut /\ d = Wanted /\ e = Concepts
  OBVIOUS
<1>2. Angle = <<a, b, c, d, e>>
  BY <1>1 DEF Angle, Wanted
<1> DEFINE S == {a, b, c, d, e}
           f == <<a, b, c, d, e>>
           g == Tail(f)
           h == <<b, c, d, e>>
<1>3. f # <<>> /\ f \in Seq(S) /\ Head(f) = a
  OBVIOUS
<1>4. g \in Seq(S) /\ h \in Seq(S) /\ Len(g) = 4 /\ Len(h) = 4 /\ \A i \in 1..4 : g[i] = h[i]
  OBVIOUS
<1>5. g = h
  <2> HIDE DEF S, g, h
  <2> QED
    BY <1>4, SeqEqual
<1>6. h = <<Skip, Cut, Wanted, Concepts>>
  BY <1>1
<1> HIDE DEF S, h
<1>7. /\ Angle # <<>> /\ Head(Angle) = a /\ Angle \in Seq(S) /\ Tail(Angle) = h
  BY <1>2, <1>3, <1>5
<1> QED
  BY <1>1, <1>6, <1>7

\* Where what is first decides where the parser is.
LEMMA Heading ==
  /\ \A q, kept, tree : Free(q, kept, tree) /\ q # <<>> => Ready(Head(q)) \/ Calls(Head(q))
  /\ \A q, kept, tree, w, m, r, own : Inside(q, kept, tree, w, m, r, own) =>
       /\ Moving(w, m) /\ m \in Nat /\ q # <<>> /\ Head(q) = Head(w) /\ Tail(q) = Tail(w) \o r
  /\ \A q, kept, tree : Starting(q, kept, tree) => q # <<>> /\ Head(q).op = "save"
<1>1. ASSUME NEW q, NEW kept, NEW tree, Free(q, kept, tree), q # <<>>
      PROVE  Ready(Head(q)) \/ Calls(Head(q))
  <2>1. PICK own : Backs(q, Len(kept), Len(tree), own, kept, tree)
    BY <1>1 DEF Free
  <2>2. PICK T : q \in Seq(T)
    BY <2>1 DEF Backs
  <2>3. 1 \in 1..Len(q) /\ Head(q) = q[1]
    BY <1>1, <2>2
  <2>4. Ready(q[1]) \/ Waits(q[1], own[Len(q) - 1], Len(kept), Len(tree), kept, tree)
    BY <2>1, <2>3 DEF Backs
  <2> QED
    BY <2>3, <2>4 DEF Waits
<1>2. ASSUME NEW q, NEW kept, NEW tree, NEW w, NEW m, NEW r, NEW own, Inside(q, kept, tree, w, m, r, own)
      PROVE  Moving(w, m) /\ m \in Nat /\ q # <<>> /\ Head(q) = Head(w) /\ Tail(q) = Tail(w) \o r
  <2>1. q = w \o r /\ Window(w, m)
    BY <1>2 DEF Inside
  <2>2. Moving(w, m)
    BY <2>1, WindowMoves
  <2>3. m \in Nat /\ w # <<>> /\ \E T : w \in Seq(T)
    BY <2>2 DEF Moving
  <2>4. \E T : r \in Seq(T)
    BY <1>2 DEF Inside, Backs
  <2>5. w \o r # <<>> /\ Head(w \o r) = Head(w) /\ Tail(w \o r) = Tail(w) \o r
    BY <2>3, <2>4, Heads
  <2> QED
    BY <2>1, <2>2, <2>3, <2>5
<1>3. ASSUME NEW q, NEW kept, NEW tree, Starting(q, kept, tree)
      PROVE  q # <<>> /\ Head(q).op = "save"
  <2>1. PICK w, r : w \in {Angle, Header} /\ q = w \o r /\ Free(r, kept, tree)
    BY <1>3 DEF Starting
  <2>2. w # <<>> /\ Head(w) = Save /\ \E T : w \in Seq(T)
    <3>1. \A a, b : <<a, b>> # <<>> /\ Head(<<a, b>>) = a /\ <<a, b>> \in Seq({a, b})
      BY ShortLists
    <3>3. CASE w = Header
      BY <3>1, <3>3 DEF Header
    <3>4. CASE w = Angle
      BY <3>4, AngleTurns
    <3> QED
      BY <2>1, <3>3, <3>4
  <2>3. \E T : r \in Seq(T)
    BY <2>1 DEF Free, Backs
  <2>4. w \o r # <<>> /\ Head(w \o r) = Head(w)
    BY <2>2, <2>3, Heads
  <2> QED
    BY <2>1, <2>2, <2>4 DEF Save
<1> QED
  BY <1>1, <1>2, <1>3

\* So it is outside of windows, or in one.
LEMMA WhereTaken ==
  ASSUME NEW q, NEW kept, NEW tree, OnTheWay(q, kept, tree), q # <<>>
  PROVE  LET op == Head(q).op IN
         /\ op = "save" => Starting(q, kept, tree)
         /\ op # "save" => Free(q, kept, tree) \/ Trying(q, kept, tree)
         /\ op \in {"release", "restore", "concepts"} => Trying(q, kept, tree)
         /\ op \in {"closing", "unchecked", "enter", "leave", "careless", "chain", "repeat", "until",
                    "within"} => Free(q, kept, tree)
         /\ op \notin {"closing", "unchecked"} /\ Free(q, kept, tree) => Ready(Head(q))
<1>1. Free(q, kept, tree) => Ready(Head(q)) \/ Calls(Head(q))
  BY Heading
<1>2. Starting(q, kept, tree) => Head(q).op = "save"
  BY Heading
<1>3. Ready(Head(q)) => Head(q).op \in {"match", "next", "gt", "fail", "enter", "leave", "careless", "rule",
                                        "chain", "branch", "repeat", "until", "within"}
  BY ReadyTurns
<1>4. Calls(Head(q)) => Head(q).op \in {"closing", "unchecked"}
  BY DEF Calls
<1>5. ASSUME Trying(q, kept, tree)
      PROVE  Head(q).op \in {"next", "gt", "match", "branch", "rule", "concepts", "fail", "release", "restore"}
  <2>1. PICK w, m, r, own : Inside(q, kept, tree, w, m, r, own)
    BY <1>5 DEF Trying
  <2>2. Moving(w, m) /\ Head(q) = Head(w)
    BY <2>1, Heading
  <2> QED
    BY <2>2 DEF Moving
<1> QED
  BY <1>1, <1>2, <1>3, <1>4, <1>5 DEF OnTheWay

\* The state is saved.
LEMMA StartingSaves ==
  ASSUME NEW q, NEW K, NEW kept \in Seq(K), NEW L, NEW tree \in Seq(L), Starting(q, kept, tree),
         NEW y \in K, \A x \in 1..Len(tree) : tree[x] < y.at
  PROVE  Trying(Tail(q), Append(kept, y), tree)
<1>1. PICK w, r : w \in {Angle, Header} /\ q = w \o r /\ Free(r, kept, tree)
  BY DEF Starting
<1>2. PICK own : Backs(r, Len(kept), Len(tree), own, kept, tree)
  BY <1>1 DEF Free
<1>3. PICK T : r \in Seq(T)
  BY <1>2 DEF Backs
<1>4. (\E U : w \in Seq(U)) /\ w # <<>> /\ Window(Tail(w), 0)
  <2>1. CASE w = Header
    <3>1. \A a, b : <<a, b>> # <<>> /\ Tail(<<a, b>>) = <<b>> /\ <<a, b>> \in Seq({a, b})
      BY ShortLists
    <3> QED
      BY <2>1, <3>1 DEF Header, Window
  <2>2. CASE w = Angle
    BY <2>2, AngleTurns DEF Window
  <2> QED
    BY <1>1, <2>1, <2>2
<1>5. Tail(q) = Tail(w) \o r
  BY <1>1, <1>3, <1>4, Heads
<1> DEFINE k == Append(kept, y)
<1>6. /\ Len(kept) \in Nat /\ Len(tree) \in Nat /\ k # <<>> /\ Len(k) = Len(kept) + 1
      /\ Len(k) - 1 = Len(kept) /\ k[Len(k)] = y /\ \A x \in 1..Len(kept) : k[x] = kept[x]
  OBVIOUS
<1> HIDE DEF k
<1>7. Backs(r, Len(kept), Len(tree), own, k, tree)
  <2>1. Len(r) \in Nat /\ 0 \in 0..Len(r)
    BY <1>3
  <2>2. \A i \in 0 + 1..Len(r) : Calls(r[i]) =>
          r[i].keep <= Len(tree) /\ (r[i].op = "closing" => own[Len(r) - i] <= Len(kept))
    <3> SUFFICES ASSUME NEW i \in 0 + 1..Len(r), Calls(r[i])
                 PROVE  r[i].keep <= Len(tree) /\ (r[i].op = "closing" => own[Len(r) - i] <= Len(kept))
      OBVIOUS
    <3>1. i \in 1..Len(r)
      BY <2>1
    <3>2. Waits(r[i], own[Len(r) - i], Len(kept), Len(tree), kept, tree)
      BY <1>2, <3>1, ReadyIsNoCaller DEF Backs
    <3>3. r[i].keep \in 0..Len(tree) /\ (r[i].op = "closing" => own[Len(r) - i] \in 1..Len(kept))
      BY <3>2 DEF Waits
    <3> QED
      BY <1>6, <3>3
  <2>3. Drops(r, Len(kept), Len(tree), own, kept, tree, 0, Len(kept), Len(tree), k, tree)
    BY <1>2, <1>6, <2>1, <2>2 DEF Drops
  <2>4. PICK z \in {0} : Drops(r, Len(kept), Len(tree), own, kept, tree, z, Len(kept), Len(tree), k, tree)
    BY <2>3
  <2>5. AllReady(<<>>)
    BY ShortLists
  <2>6. Backs(<<>> \o SubSeq(r, z + 1, Len(r)), Len(kept), Len(tree), own, k, tree)
    BY ONLY <2>4, <2>5, BacksGoOn
  <2>7. <<>> \o SubSeq(r, z + 1, Len(r)) = r
    <3>1. z + 1 = 1
      OBVIOUS
    <3>2. SubSeq(r, 1, Len(r)) = r /\ <<>> \o r = r
      BY <1>3
    <3> QED
      BY <3>1, <3>2
  <2> QED
    BY <2>6, <2>7
<1>8. Len(tree) - 0 = Len(tree) /\ 0 <= Len(tree)
  BY <1>6
<1>9. Inside(Tail(q), k, tree, Tail(w), 0, r, own)
  BY <1>4, <1>5, <1>6, <1>7, <1>8 DEF Inside
<1>10. Trying(Tail(q), k, tree)
  BY <1>9 DEF Trying
<1> QED
  BY <1>10 DEF k

\* Where a caller goes on, outside of windows or from within one.
Returns(q, kept, tree, c, tree2) ==
  /\ Free(q, kept, tree) \/ Trying(q, kept, tree)
  /\ c \in 1..Len(q) /\ Calls(q[c]) /\ q[c].keep <= Len(tree2)
  /\ \A x \in 1..Len(tree) : x <= Len(tree2) => tree2[x] = tree[x]

\* There the parser is outside of windows, as in CallerGoesOn.
LEMMA BackToCaller ==
  ASSUME NEW q, NEW K, NEW kept \in Seq(K), NEW L, NEW tree \in Seq(L), NEW tree2 \in Seq(L),
         NEW c, Returns(q, kept, tree, c, tree2), NEW p, AllReady(p)
  PROVE  /\ q[c].keep \in 0..Len(tree)
         /\ q[c].op = "unchecked" => Free(p \o SubSeq(q, c + 1, Len(q)), kept, tree2)
         /\ q[c].op = "closing" =>
              /\ kept # <<>>
              /\ Free(p \o SubSeq(q, c + 1, Len(q)), SubSeq(kept, 1, Len(kept) - 1), tree2)
              /\ \E e \in 1..Len(kept) : \A x \in 1..q[c].keep : tree[x] < kept[e].at
<1>4. /\ Free(q, kept, tree) \/ Trying(q, kept, tree)
      /\ c \in 1..Len(q) /\ Calls(q[c]) /\ q[c].keep <= Len(tree2)
      /\ \A x \in 1..Len(tree) : x <= Len(tree2) => tree2[x] = tree[x]
  BY DEF Returns
<1>1. Len(kept) \in Nat /\ Len(tree) \in Nat /\ Len(kept) \in 0..Len(kept) /\ Len(tree) \in 0..Len(tree)
  OBVIOUS
<1>2. CASE Free(q, kept, tree)
  <2>1. PICK own : Backs(q, Len(kept), Len(tree), own, kept, tree)
    BY <1>2 DEF Free
  <2>2. Stops(q, Len(kept), Len(tree), own, kept, tree, c, tree2)
    BY <1>1, <1>4, <2>1 DEF Stops
  <2> QED
    BY <2>2, CallerGoesOn
<1>3. CASE Trying(q, kept, tree)
  <2>1. PICK w, m, r, own : Inside(q, kept, tree, w, m, r, own)
    BY <1>3 DEF Trying
  <2>2. Moving(w, m) /\ m \in Nat
    BY <2>1, Heading
  <2>3. /\ q = w \o r /\ m <= Len(tree) /\ kept # <<>>
        /\ Backs(r, Len(kept) - 1, Len(tree) - m, own, kept, tree)
    BY <2>1 DEF Inside
  <2>4. PICK T1 : w \in Seq(T1)
    BY <2>2 DEF Moving
  <2>5. PICK T2 : r \in Seq(T2)
    BY <2>3 DEF Backs
  <2> DEFINE T == T1 \union T2
             n == Len(w)
             d == c - n
  <2>6. /\ w \in Seq(T) /\ r \in Seq(T) /\ q \in Seq(T) /\ n \in Nat /\ Len(r) \in Nat
        /\ Len(q) = n + Len(r)
        /\ \A i \in 1..n : q[i] = w[i]
        /\ \A i \in 1..Len(r) : q[n + i] = r[i]
    <3>1. w \in Seq(T) /\ r \in Seq(T)
      BY <2>4, <2>5
    <3> HIDE DEF T
    <3> QED
      BY <2>3, <3>1
  <2> HIDE DEF T, n
  <2>7. ~(c <= n)
    <3> SUFFICES ASSUME c <= n
                 PROVE  FALSE
      OBVIOUS
    <3>3. c \in Nat /\ 1 <= c /\ c <= n
      <4>1. c \in 1..Len(q) /\ Len(q) \in Nat
        BY <1>4, <2>6
      <4> QED
        BY <4>1
    <3>1. c \in 1..n /\ q[c] = w[c]
      BY <2>6, <3>3
    <3>2. w[c].op \notin {"closing", "unchecked"}
      BY <2>2, <3>1 DEF Moving, n
    <3> QED
      BY <1>4, <3>1, <3>2 DEF Calls
  <2>8. d \in 1..Len(r) /\ n + d = c
    BY <1>4, <2>6, <2>7
  <2>9. q[c] = r[d]
    BY <2>6, <2>8
  <2>10. SubSeq(q, c + 1, Len(q)) = SubSeq(r, d + 1, Len(r))
    <3> DEFINE a == SubSeq(q, c + 1, Len(q))
               b == SubSeq(r, d + 1, Len(r))
               h == Len(r) - d
    <3>1. /\ c \in Nat /\ d \in Nat /\ h \in Nat /\ Len(q) - c = h
          /\ \A i \in 1..h : d + i \in 1..Len(r) /\ n + (d + i) = c + i /\ c + i \in 1..Len(q)
      BY <2>6, <2>8
    <3>2. a \in Seq(T) /\ Len(a) = h /\ \A i \in 1..h : a[i] = q[c + i]
      <4>1. \A i \in c + 1..Len(q) : q[i] \in T
        BY <2>6, <3>1
      <4>2. /\ a \in Seq(T) /\ Len(a) = IF c + 1 <= Len(q) THEN Len(q) - (c + 1) + 1 ELSE 0
            /\ \A i \in 1..Len(q) - (c + 1) + 1 : a[i] = q[c + 1 + i - 1]
        <5>1. c + 1 \in Nat /\ Len(q) \in Nat
          BY <2>6, <3>1
        <5> QED
          BY <4>1, <5>1, SubSeqProperties
      <4>3. /\ (IF c + 1 <= Len(q) THEN Len(q) - (c + 1) + 1 ELSE 0) = h
            /\ \A i \in 1..h : i \in 1..Len(q) - (c + 1) + 1 /\ c + 1 + i - 1 = c + i
        <5>1. c \in Nat /\ Len(q) \in Nat /\ c <= Len(q) /\ Len(q) - c = h
          BY <2>6, <3>1
        <5> HIDE DEF h
        <5> QED
          BY ONLY <5>1
      <4> HIDE DEF a, h
      <4> QED
        BY <4>2, <4>3
    <3>3. b \in Seq(T) /\ Len(b) = h /\ \A i \in 1..h : b[i] = r[d + i]
      <4>1. \A i \in d + 1..Len(r) : r[i] \in T
        BY <2>6, <3>1
      <4>2. /\ b \in Seq(T) /\ Len(b) = IF d + 1 <= Len(r) THEN Len(r) - (d + 1) + 1 ELSE 0
            /\ \A i \in 1..Len(r) - (d + 1) + 1 : b[i] = r[d + 1 + i - 1]
        <5>1. d + 1 \in Nat /\ Len(r) \in Nat
          BY <2>6, <3>1
        <5> QED
          BY <4>1, <5>1, SubSeqProperties
      <4>3. /\ (IF d + 1 <= Len(r) THEN Len(r) - (d + 1) + 1 ELSE 0) = h
            /\ \A i \in 1..h : i \in 1..Len(r) - (d + 1) + 1 /\ d + 1 + i - 1 = d + i
        <5>1. d \in Nat /\ Len(r) \in Nat /\ d <= Len(r) /\ Len(r) - d = h
          BY <2>6, <2>8, <3>1
        <5> HIDE DEF h, d
        <5> QED
          BY ONLY <5>1
      <4> HIDE DEF b, h, d
      <4> QED
        BY <4>2, <4>3
    <3> HIDE DEF a, b, h, d
    <3>4. ASSUME NEW i \in 1..h
          PROVE  a[i] = b[i]
      <4>1. d + i \in 1..Len(r) /\ n + (d + i) = c + i
        BY <3>1
      <4>2. q[n + (d + i)] = r[d + i]
        BY <2>6, <4>1
      <4>3. q[c + i] = r[d + i]
        BY <4>1, <4>2
      <4> QED
        BY <3>2, <3>3, <4>3
    <3>5. a = b
      BY <3>2, <3>3, <3>4, SeqEqual
    <3> QED
      BY <3>5 DEF a, b
  <2>11. Len(kept) - 1 \in 0..Len(kept) /\ Len(tree) - m \in 0..Len(tree)
    BY <1>1, <2>2, <2>3
  <2> HIDE DEF d
  <2>12. Calls(r[d]) /\ r[d].keep <= Len(tree2)
    BY <1>4, <2>9
  <2>13. /\ r[d].keep \in 0..Len(tree) - m
         /\ r[d].op = "unchecked" => Free(p \o SubSeq(r, d + 1, Len(r)), kept, tree2)
         /\ r[d].op = "closing" =>
              /\ kept # <<>>
              /\ Free(p \o SubSeq(r, d + 1, Len(r)), SubSeq(kept, 1, Len(kept) - 1), tree2)
              /\ \E e \in 1..Len(kept) : \A x \in 1..r[d].keep : tree[x] < kept[e].at
    <3>1. Stops(r, Len(kept) - 1, Len(tree) - m, own, kept, tree, d, tree2)
      BY <1>4, <2>3, <2>8, <2>11, <2>12 DEF Stops
    <3> QED
      BY <3>1, CallerGoesOn
  <2>14. r[d].keep \in 0..Len(tree)
    BY <1>1, <2>2, <2>11, <2>13
  <2> QED
    BY <2>9, <2>10, <2>13, <2>14
<1> QED
  BY <1>2, <1>3, <1>4

\* Every leaf lies before the place, and before the leaves made after it; the
\* saved states were saved in the order of their places.
Rising(tree, end) ==
  \A i \in 1..Len(tree) : tree[i] < end /\ \A j \in 1..Len(tree) : i < j => tree[i] < tree[j]
Later(kept, end) ==
  \A i \in 1..Len(kept) : kept[i].at <= end /\ \A j \in 1..Len(kept) : i < j => kept[i].at <= kept[j].at
LInv == /\ Rising(leaves, at) /\ Later(saved, at)
        /\ verdict = "parsing" => OnTheWay(todo, saved, leaves)

\* Leaves that stay before a place that moves on, and one more.
LEMMA RisingOn ==
  ASSUME NEW S, S \subseteq Nat, NEW tree \in Seq(S), NEW end \in Nat, NEW end2 \in Nat, end <= end2,
         Rising(tree, end)
  PROVE  /\ Rising(tree, end2)
         /\ end < end2 => Rising(Append(tree, end), end2)
<1>1. Len(tree) \in Nat /\ \A i \in 1..Len(tree) : tree[i] \in Nat
  <2>1. Len(tree) \in Nat /\ \A i \in 1..Len(tree) : tree[i] \in S
    OBVIOUS
  <2> QED
    BY <2>1
<1>2. Rising(tree, end2)
  <2> SUFFICES ASSUME NEW i \in 1..Len(tree)
               PROVE  tree[i] < end2 /\ \A j \in 1..Len(tree) : i < j => tree[i] < tree[j]
    BY DEF Rising
  <2>1. tree[i] < end /\ \A j \in 1..Len(tree) : i < j => tree[i] < tree[j]
    BY DEF Rising
  <2> QED
    BY <1>1, <2>1
<1>3. ASSUME end < end2
      PROVE  Rising(Append(tree, end), end2)
  <2> DEFINE u == Append(tree, end)
             n == Len(tree)
  <2>1. Len(u) = n + 1 /\ u[n + 1] = end /\ \A i \in 1..n : u[i] = tree[i]
    OBVIOUS
  <2>2. n \in Nat /\ \A i \in 1..n : tree[i] < end /\ \A j \in 1..n : i < j => tree[i] < tree[j]
    BY <1>1 DEF Rising
  <2> HIDE DEF u, n
  <2>3. ASSUME NEW i \in 1..Len(u)
        PROVE  u[i] < end2 /\ \A j \in 1..Len(u) : i < j => u[i] < u[j]
    <3>1. CASE i = n + 1
      <4>1. u[i] < end2
        BY <1>3, <2>1, <3>1
      <4>2. \A j \in 1..Len(u) : ~(i < j)
        BY <2>1, <2>2, <3>1
      <4> QED
        BY <4>1, <4>2
    <3>2. CASE i # n + 1
      <4>1. i \in 1..n
        BY <2>1, <2>2, <3>2
      <4>2. u[i] = tree[i] /\ tree[i] < end /\ tree[i] \in Nat
        BY <1>1, <2>1, <2>2, <4>1 DEF n
      <4>3. u[i] < end2
        BY <1>3, <4>2
      <4>4. ASSUME NEW j \in 1..Len(u), i < j
            PROVE  u[i] < u[j]
        <5>1. CASE j = n + 1
          BY <2>1, <4>2, <5>1
        <5>2. CASE j # n + 1
          <6>1. j \in 1..n
            BY <2>1, <2>2, <5>2
          <6> QED
            BY <2>1, <2>2, <4>1, <4>2, <4>4, <6>1
        <5> QED
          BY <5>1, <5>2
      <4> QED
        BY <4>3, <4>4
    <3> QED
      BY <3>1, <3>2
  <2>4. Rising(u, end2)
    BY <2>3 DEF Rising
  <2> QED
    BY <2>4 DEF u
<1> QED
  BY <1>2, <1>3

\* The first of them.
LEMMA RisingFirst ==
  ASSUME NEW tree, NEW tree2, NEW end, NEW end2, Rising(tree, end), Len(tree) \in Nat, Len(tree2) \in 0..Len(tree),
         \A x \in 1..Len(tree2) : tree2[x] = tree[x] /\ tree2[x] < end2
  PROVE  Rising(tree2, end2)
<1>1. \A x \in 1..Len(tree2) : x \in 1..Len(tree)
  OBVIOUS
<1> QED
  BY <1>1 DEF Rising

\* What the tree is cut down to.
LEMMA FirstKept ==
  ASSUME NEW S, leaves \in Seq(S), NEW n \in 0..Len(leaves), Keep(n)
  PROVE  leaves' \in Seq(S) /\ Len(leaves') = n /\ \A x \in 1..n : leaves'[x] = leaves[x]
<1>1. n \in Int /\ n \in Nat
  OBVIOUS
<1>2. leaves' \in Seq(S)
  BY <1>1, Kept
<1>3. {j \in DOMAIN leaves : j <= n} = 1..n
  <2>1. Len(leaves) \in Nat /\ DOMAIN leaves = 1..Len(leaves)
    OBVIOUS
  <2>2. \A j \in 1..Len(leaves) : j <= n <=> j \in 1..n
    BY <1>1, <2>1
  <2>3. \A j \in 1..n : j \in 1..Len(leaves)
    BY <1>1, <2>1
  <2> QED
    BY <2>1, <2>2, <2>3
<1>4. leaves' = [i \in 1..n |-> leaves[i]]
  BY <1>3 DEF Keep
<1>5. Len(leaves') = n
  <2>1. DOMAIN leaves' = 1..n
    BY <1>4
  <2>2. DOMAIN leaves' = 1..Len(leaves') /\ Len(leaves') \in Nat
    BY <1>2
  <2> QED
    BY <1>1, <2>1, <2>2
<1> QED
  BY <1>2, <1>4, <1>5

\* Back at the state saved last, the others are as they were; every state was
\* saved before it.
LEMMA LaterBack ==
  ASSUME Types, Later(saved, at), saved # <<>>
  PROVE  /\ Later(Popped, at) /\ Later(Popped, Saved.at) /\ Saved.at <= at /\ Saved.at \in Nat /\ at \in Nat
         /\ \A e \in 1..Len(saved) : saved[e].at \in Nat /\ saved[e].at <= Saved.at
<1>1. saved \in Seq(Place) /\ Len(saved) \in Nat /\ Len(saved) >= 1 /\ at \in Nat
  BY DEF Types
<1>2. ASSUME NEW e \in 1..Len(saved)
      PROVE  saved[e].at \in Nat
  <2>1. saved[e] \in Place
    BY <1>1
  <2>2. saved[e].at \in 1..Len(source)
    BY <2>1 DEF Place
  <2>3. PICK T : source \in Seq(T)
    BY DEF Types
  <2>4. Len(source) \in Nat
    BY <2>3
  <2> QED
    BY <2>2, <2>4
<1> DEFINE n == Len(saved)
           k == Popped
<1>3. Len(k) = n - 1 /\ \A x \in 1..n - 1 : k[x] = saved[x]
  BY <1>1, Below DEF Popped
<1>4. /\ \A i \in 1..n : saved[i].at <= at /\ \A j \in 1..n : i < j => saved[i].at <= saved[j].at
      /\ Saved = saved[n] /\ n \in 1..n /\ n \in Nat
  BY <1>1 DEF Later, Saved
<1> HIDE DEF n, k
<1>5. ASSUME NEW e \in 1..n
      PROVE  saved[e].at \in Nat /\ saved[e].at <= Saved.at
  <2>1. saved[e].at \in Nat
    BY <1>2 DEF n
  <2>2. CASE e = n
    BY <1>4, <2>1, <2>2
  <2>3. CASE e # n
    <3>1. e < n
      BY <1>4, <2>3
    <3> QED
      BY <1>4, <2>1, <3>1
  <2> QED
    BY <2>2, <2>3
<1>6. \A x \in 1..Len(k) : x \in 1..n /\ k[x] = saved[x]
  BY <1>3, <1>4
<1>7. Later(k, at) /\ Later(k, Saved.at)
  BY <1>4, <1>5, <1>6 DEF Later
<1>8. Saved.at <= at /\ Saved.at \in Nat
  BY <1>4, <1>5
<1> QED
  BY <1>1, <1>5, <1>7, <1>8 DEF n, k

\* One more state is saved here.
LEMMA LaterSave ==
  ASSUME NEW K, NEW kept \in Seq(K), NEW end \in Nat, Later(kept, end), NEW y \in K, y.at = end
  PROVE  Later(Append(kept, y), end)
<1> DEFINE u == Append(kept, y)
           n == Len(kept)
<1>1. Len(u) = n + 1 /\ u[n + 1] = y /\ n \in Nat /\ \A i \in 1..n : u[i] = kept[i]
  OBVIOUS
<1>2. \A i \in 1..n : kept[i].at <= end /\ \A j \in 1..n : i < j => kept[i].at <= kept[j].at
  BY DEF Later
<1> HIDE DEF u, n
<1>3. ASSUME NEW i \in 1..Len(u)
      PROVE  u[i].at <= end /\ \A j \in 1..Len(u) : i < j => u[i].at <= u[j].at
  <2>1. CASE i = n + 1
    <3>1. u[i].at = end
      BY <1>1, <2>1
    <3>2. \A j \in 1..Len(u) : ~(i < j)
      BY <1>1, <2>1
    <3> QED
      BY <3>1, <3>2
  <2>2. CASE i # n + 1
    <3>1. i \in 1..n
      BY <1>1, <2>2
    <3>2. u[i] = kept[i] /\ u[i].at <= end
      BY <1>1, <1>2, <3>1
    <3>3. ASSUME NEW j \in 1..Len(u), i < j
          PROVE  u[i].at <= u[j].at
      <4>1. CASE j = n + 1
        BY <1>1, <3>2, <4>1
      <4>2. CASE j # n + 1
        <5>1. j \in 1..n
          BY <1>1, <4>2
        <5> QED
          BY <1>1, <1>2, <3>1, <3>2, <3>3, <5>1
      <4> QED
        BY <4>1, <4>2
    <3> QED
      BY <3>2, <3>3
  <2> QED
    BY <2>1, <2>2
<1>4. Later(u, end)
  BY <1>3 DEF Later
<1> QED
  BY <1>4 DEF u

\* A later place.
LEMMA LaterOn ==
  ASSUME Types, Later(saved, at), NEW end \in Nat, at <= end
  PROVE  Later(saved, end)
<1>1. saved # <<>> => \A e \in 1..Len(saved) : saved[e].at \in Nat
  BY LaterBack
<1>2. at \in Nat /\ saved \in Seq(Place)
  BY DEF Types
<1>3. saved = <<>> => 1..Len(saved) = {}
  OBVIOUS
<1> QED
  BY <1>1, <1>2, <1>3 DEF Later

\* What holds wherever a step is taken, and what keeps the invariant there.
LEMMA Orders ==
  ASSUME IInv, LInv, todo # <<>>
  PROVE  /\ verdict = "parsing" /\ Types /\ OnTheWay(todo, saved, leaves)
         /\ Rising(leaves, at) /\ Later(saved, at) /\ at \in Nat
         /\ saved \in Seq(Place) /\ leaves \in Seq(1..Len(source)) /\ 1..Len(source) \subseteq Nat
         /\ Len(leaves) \in Nat /\ Len(saved) \in Nat
         /\ \E T : todo \in Seq(T)
<1>1. verdict = "parsing" /\ Types /\ Standing(todo, Seen, saved, Deep, ~holes, ~errors)
  BY Takes
<1>2. at \in Nat /\ saved \in Seq(Place) /\ leaves \in Seq(1..Len(source))
  BY <1>1 DEF Types
<1>3. PICK U : source \in Seq(U)
  BY <1>1 DEF Types
<1>4. Len(source) \in Nat
  BY <1>3
<1>5. \E T : todo \in Seq(T)
  BY <1>1 DEF Standing
<1> QED
  BY <1>1, <1>2, <1>4, <1>5 DEF LInv

\* A step keeps the invariant that keeps the leaves and the places in order and
\* leaves the parser where it may be.
LEMMA OrderStays ==
  ASSUME Rising(leaves, at)', Later(saved, at)', OnTheWay(todo, saved, leaves)'
  PROVE  LInv'
BY DEF LInv

\* The state is saved.
LEMMA SaveOrdered == ASSUME IInv, LInv, SaveState PROVE LInv'
<1>1. /\ todo # <<>> /\ Head(todo).op = "save" /\ Known
      /\ UNCHANGED <<at, leaves>> /\ todo' = <<>> \o Tail(todo)
      /\ saved' = Append(saved, [at |-> at, cut |-> cut, fun |-> fun_depth, loop |-> loop_depth])
  BY DEF SaveState, Doing, Top, Then, Rest, scan
<1>2. /\ Types /\ Rising(leaves, at) /\ Later(saved, at) /\ saved \in Seq(Place)
      /\ OnTheWay(todo, saved, leaves) /\ leaves \in Seq(1..Len(source)) /\ at \in Nat
  BY <1>1, Orders
<1> DEFINE x == [at |-> at, cut |-> cut, fun |-> fun_depth, loop |-> loop_depth]
<1>3. x \in Place /\ x.at = at
  BY <1>1, <1>2, TokenFacts DEF Types, Place
<1>4. saved' = Append(saved, x)
  BY <1>1
<1> HIDE DEF x
<1>5. Later(saved', at)
  BY <1>2, <1>3, <1>4, LaterSave
<1>6. Starting(todo, saved, leaves)
  BY <1>1, <1>2, WhereTaken
<1>7. \A i \in 1..Len(leaves) : leaves[i] < x.at
  BY <1>2, <1>3 DEF Rising
<1>8. Trying(Tail(todo), saved', leaves)
  BY <1>2, <1>3, <1>4, <1>6, <1>7, StartingSaves
<1>9. todo' = Tail(todo)
  <2>1. PICK T : todo \in Seq(T)
    BY <1>1, Orders
  <2>2. Tail(todo) \in Seq(T)
    BY <1>1, <2>1
  <2> QED
    BY <1>1, <2>2
<1>10. OnTheWay(todo', saved', leaves')
  BY <1>1, <1>8, <1>9 DEF OnTheWay
<1>11. Rising(leaves', at') /\ Later(saved', at')
  BY <1>1, <1>2, <1>5
<1> QED
  BY <1>10, <1>11, OrderStays

\* A step that is over, on a token that may be passed and kept.
LEMMA TokenOrdered == ASSUME IInv, LInv, MatchToken \/ NextToken \/ CutToken PROVE LInv'
<1>1. /\ todo # <<>> /\ Known /\ Head(todo).op \in {"match", "next", "gt"}
      /\ UNCHANGED saved /\ todo' = <<>> \o Tail(todo)
  BY DEF MatchToken, NextToken, CutToken, Doing, Top, Then, Rest
<1>2. /\ Types /\ Rising(leaves, at) /\ Later(saved, at) /\ saved \in Seq(Place)
      /\ OnTheWay(todo, saved, leaves) /\ leaves \in Seq(1..Len(source)) /\ at \in Nat
      /\ 1..Len(source) \subseteq Nat /\ Len(leaves) \in Nat
  BY <1>1, Orders
<1>3. Width(Token) \in Nat /\ at \in 1..Len(source)
  BY <1>1, <1>2, TokenFacts
<1>4. Free(todo, saved, leaves) \/ Trying(todo, saved, leaves)
  BY <1>1, <1>2, WhereTaken
<1> DEFINE s == Head(todo)
           kept == s.op = "match" /\ s.leaf
\* a name or literal is kept, and it is passed
<1>5. kept => "EOF" \notin s.on
  <2>1. CASE Free(todo, saved, leaves)
    <3>1. Ready(s)
      BY <1>1, <1>2, <2>1, WhereTaken
    <3> QED
      BY <3>1, ReadyTurns
  <2>2. CASE Trying(todo, saved, leaves)
    <3>1. PICK w, m, r, own : Inside(todo, saved, leaves, w, m, r, own)
      BY <2>2 DEF Trying
    <3>2. Moving(w, m) /\ s = Head(w)
      BY <3>1, Heading
    <3> QED
      BY <3>2 DEF Moving
  <2> QED
    BY <1>4, <2>1, <2>2
<1>6. /\ leaves' = IF kept THEN Append(leaves, at) ELSE leaves
      /\ at' \in Nat /\ at <= at' /\ (kept => at < at')
  <2>1. CASE MatchToken
    <3>1. /\ Token \in s.on /\ at' = at + Width(Token) /\ s.op = "match"
          /\ leaves' = IF s.leaf THEN Append(leaves, at) ELSE leaves
      BY <2>1 DEF MatchToken, Doing, Top, Advance
    <3>2. kept => Width(Token) >= 1
      <4> SUFFICES ASSUME kept
                   PROVE  Width(Token) >= 1
        OBVIOUS
      <4>1. Token # "EOF"
        BY <1>5, <3>1
      <4>2. Token \in Operators => Len(Spelling[Token]) >= 1
        BY OperatorSizes
      <4> QED
        BY <4>1, <4>2 DEF Width, Size
    <3> HIDE DEF s
    <3> QED
      BY <1>2, <1>3, <3>1, <3>2
  <2>2. CASE NextToken \/ CutToken
    <3>1. /\ s.op \in {"next", "gt"} /\ leaves' = leaves
          /\ at' = at \/ at' = at + Width(Token)
      BY <2>2 DEF NextToken, CutToken, Doing, Top, Advance
    <3>2. ~kept
      BY <3>1
    <3> HIDE DEF kept
    <3> QED
      BY <1>2, <1>3, <3>1, <3>2
  <2> QED
    BY <2>1, <2>2
<1> HIDE DEF kept
<1>7. Rising(leaves', at')
  <2>1. Rising(leaves, at') /\ (at < at' => Rising(Append(leaves, at), at'))
    BY <1>2, <1>6, RisingOn
  <2> QED
    BY <1>6, <2>1
<1>8. Later(saved', at')
  <2>1. Later(saved, at')
    BY <1>2, <1>6, LaterOn
  <2> QED
    BY <1>1, <2>1
<1>9. /\ leaves' \in Seq(1..Len(source)) /\ Len(leaves) <= Len(leaves')
      /\ \A x \in 1..Len(leaves) : leaves'[x] = leaves[x]
      /\ Len(leaves') = IF kept THEN Len(leaves) + 1 ELSE Len(leaves)
  <2>1. /\ Append(leaves, at) \in Seq(1..Len(source)) /\ Len(Append(leaves, at)) = Len(leaves) + 1
        /\ \A x \in 1..Len(leaves) : Append(leaves, at)[x] = leaves[x]
    BY <1>2, <1>3
  <2>2. Len(leaves) <= Len(leaves) + 1 /\ Len(leaves) <= Len(leaves)
    BY <1>2
  <2>3. CASE kept
    BY <1>6, <2>1, <2>2, <2>3
  <2>4. CASE ~kept
    BY <1>2, <1>6, <2>2, <2>4
  <2> QED
    BY <2>3, <2>4
<1>10. OnTheWay(todo', saved, leaves')
  <2>1. CASE Free(todo, saved, leaves)
    <3>1. Free(<<>> \o Tail(todo), saved, leaves')
      BY <1>1, <1>2, <1>9, <2>1, ShortLists, FreeGoesOn
    <3> QED
      BY <1>1, <3>1 DEF OnTheWay
  <2>2. CASE Trying(todo, saved, leaves)
    <3>1. PICK w, m, r, own : Inside(todo, saved, leaves, w, m, r, own)
      BY <2>2 DEF Trying
    <3>2. Moving(w, m) /\ m \in Nat /\ s = Head(w) /\ Tail(todo) = Tail(w) \o r
      BY <3>1, Heading
    <3> DEFINE n == IF kept THEN m + 1 ELSE m
    <3>3. Window(Tail(w), n)
      <4>1. s.op = "match" => (s.leaf /\ Window(Tail(w), m + 1)) \/ (~s.leaf /\ Window(Tail(w), m))
        BY <3>2 DEF Moving
      <4>2. s.op \in {"next", "gt"} => Window(Tail(w), m)
        BY <3>2 DEF Moving
      <4>3. s.op \in {"match", "next", "gt"}
        BY <1>1
      <4> QED
        BY <4>1, <4>2, <4>3 DEF kept
    <3>4. (\E T : Tail(w) \in Seq(T)) /\ \E T : r \in Seq(T)
      <4>1. w # <<>> /\ \E T : w \in Seq(T)
        BY <3>2 DEF Moving
      <4>2. \E T : r \in Seq(T)
        BY <3>1 DEF Inside, Backs
      <4> QED
        BY <4>1, <4>2
    <3>5. n \in Nat /\ m <= n /\ Len(leaves') = Len(leaves) + (n - m)
      BY <1>2, <1>9, <3>2
    <3> HIDE DEF n
    <3>6. Windowed(Tail(w), n)
      BY <3>3, <3>4, Windows
    <3>7. Trying(Tail(w) \o r, saved, leaves')
      BY <1>2, <1>9, <3>1, <3>2, <3>5, <3>6, TryingGoesOn
    <3>8. todo' = Tail(w) \o r
      <4>1. \E T : Tail(w) \o r \in Seq(T)
        BY <3>4, Joined
      <4>2. <<>> \o (Tail(w) \o r) = Tail(w) \o r
        BY <4>1
      <4> QED
        BY <1>1, <3>2, <4>2
    <3> QED
      BY <3>7, <3>8 DEF OnTheWay
  <2> QED
    BY <1>4, <2>1, <2>2
<1>11. OnTheWay(todo', saved', leaves')
  BY <1>1, <1>10
<1> QED
  BY <1>7, <1>8, <1>11, OrderStays

\* A state is given back, with or without the place that it holds.
LEMMA ReleaseOrdered == ASSUME IInv, LInv, ReleaseState PROVE LInv'
<1>1. /\ todo # <<>> /\ Head(todo).op = "release" /\ UNCHANGED <<at, leaves>>
      /\ saved # <<>> /\ saved' = Popped /\ todo' = <<>> \o Tail(todo)
  BY DEF ReleaseState, PopState, Doing, Top, Then, Rest, scan
<1>2. /\ Types /\ Rising(leaves, at) /\ Later(saved, at) /\ saved \in Seq(Place)
      /\ OnTheWay(todo, saved, leaves) /\ leaves \in Seq(1..Len(source)) /\ Len(leaves) \in Nat
  BY <1>1, Orders
<1>3. Trying(todo, saved, leaves)
  BY <1>1, <1>2, WhereTaken
<1>4. PICK w, m, r, own : Inside(todo, saved, leaves, w, m, r, own)
  BY <1>3 DEF Trying
<1>5. Moving(w, m) /\ m \in Nat /\ Head(todo) = Head(w) /\ Tail(todo) = Tail(w) \o r
  BY <1>4, Heading
<1>6. Tail(w) = <<>> /\ \E T : r \in Seq(T)
  BY <1>1, <1>4, <1>5 DEF Moving, Inside, Backs
<1>7. Len(leaves) - m <= Len(leaves) /\ \A x \in 1..Len(leaves) : x <= Len(leaves) => leaves[x] = leaves[x]
  BY <1>2, <1>5
<1>8. Free(r, Popped, leaves)
  BY <1>2, <1>4, <1>5, <1>7, TryingEnds DEF Popped
<1>9. todo' = r
  <2>1. PICK T : r \in Seq(T)
    BY <1>6
  <2>2. <<>> \o r = r
    BY <2>1
  <2> QED
    BY <1>1, <1>5, <1>6, <2>2
<1>10. OnTheWay(todo', saved', leaves')
  BY <1>1, <1>8, <1>9 DEF OnTheWay
<1>11. Later(Popped, at)
  BY <1>1, <1>2, LaterBack
<1>12. Rising(leaves', at') /\ Later(saved', at')
  BY <1>1, <1>2, <1>11
<1> QED
  BY <1>10, <1>12, OrderStays

\* So with the header of a loop, where the saved state is at once given back.
LEMMA ForRestoreOrdered == ASSUME IInv, LInv, ForRestore PROVE LInv'
<1>1. /\ todo # <<>> /\ Head(todo).op = "restore" /\ Keep(Len(leaves) - Head(todo).drop)
      /\ saved # <<>> /\ saved' = Popped /\ at' = Saved.at /\ todo' = <<>> \o Tail(todo)
  BY DEF ForRestore, Restore, RestoreScanner, Doing, Top, Then, Rest
<1>2. /\ Types /\ Rising(leaves, at) /\ Later(saved, at) /\ saved \in Seq(Place)
      /\ OnTheWay(todo, saved, leaves) /\ leaves \in Seq(1..Len(source)) /\ Len(leaves) \in Nat
  BY <1>1, Orders
<1>3. Trying(todo, saved, leaves)
  BY <1>1, <1>2, WhereTaken
<1>4. PICK w, m, r, own : Inside(todo, saved, leaves, w, m, r, own)
  BY <1>3 DEF Trying
<1>5. Moving(w, m) /\ m \in Nat /\ Head(todo) = Head(w) /\ Tail(todo) = Tail(w) \o r
  BY <1>4, Heading
<1>6. Tail(w) = <<>> /\ Head(todo).drop = m /\ \E T : r \in Seq(T)
  BY <1>1, <1>4, <1>5 DEF Moving, Inside, Backs
<1> DEFINE n == Len(leaves) - m
<1>7. m <= Len(leaves) /\ \A x \in 1..n : leaves[x] < Saved.at
  BY <1>4 DEF Inside, Saved
<1>8. n \in 0..Len(leaves) /\ n \in Nat /\ Keep(n)
  BY <1>1, <1>2, <1>5, <1>6, <1>7
<1> HIDE DEF n
<1>9. leaves' \in Seq(1..Len(source)) /\ Len(leaves') = n /\ \A x \in 1..n : leaves'[x] = leaves[x]
  BY <1>2, <1>8, FirstKept
<1>10. Free(r, Popped, leaves')
  <2>1. Len(leaves) - m <= Len(leaves')
    BY <1>8, <1>9 DEF n
  <2>2. \A x \in 1..Len(leaves) : x <= Len(leaves') => leaves'[x] = leaves[x]
    BY <1>8, <1>9
  <2> QED
    BY <1>2, <1>4, <1>5, <1>9, <2>1, <2>2, TryingEnds DEF Popped
<1>11. todo' = r
  <2>1. PICK T : r \in Seq(T)
    BY <1>6
  <2>2. <<>> \o r = r
    BY <2>1
  <2> QED
    BY <1>1, <1>5, <1>6, <2>2
<1>12. OnTheWay(todo', saved', leaves')
  BY <1>1, <1>10, <1>11 DEF OnTheWay
<1>13. Later(saved', at')
  BY <1>1, <1>2, LaterBack
<1>14. Rising(leaves', at')
  BY <1>1, <1>2, <1>7, <1>8, <1>9, RisingFirst
<1> QED
  BY <1>12, <1>13, <1>14, OrderStays

\* What a caller keeps are leaves that there are.
LEMMA CallerKeeps ==
  ASSUME NEW q, NEW K, NEW kept \in Seq(K), NEW L, NEW tree \in Seq(L),
         Free(q, kept, tree) \/ Trying(q, kept, tree), NEW c \in 1..Len(q), Calls(q[c])
  PROVE  q[c].keep \in 0..Len(tree)
<1>1. CASE Free(q, kept, tree)
  <2>1. PICK own : Backs(q, Len(kept), Len(tree), own, kept, tree)
    BY <1>1 DEF Free
  <2>2. Waits(q[c], own[Len(q) - c], Len(kept), Len(tree), kept, tree)
    BY <2>1, ReadyIsNoCaller DEF Backs
  <2> QED
    BY <2>2 DEF Waits
<1>2. CASE Trying(q, kept, tree)
  <2>1. PICK w, m, r, own : Inside(q, kept, tree, w, m, r, own)
    BY <1>2 DEF Trying
  <2>2. Moving(w, m) /\ m \in Nat
    BY <2>1, Heading
  <2>3. /\ q = w \o r /\ m <= Len(tree) /\ Len(tree) \in Nat
        /\ Backs(r, Len(kept) - 1, Len(tree) - m, own, kept, tree)
    BY <2>1 DEF Inside
  <2>4. /\ Len(w) \in Nat /\ Len(r) \in Nat /\ Len(q) = Len(w) + Len(r)
        /\ \A i \in 1..Len(w) : q[i] = w[i]
        /\ \A i \in 1..Len(r) : q[Len(w) + i] = r[i]
    <3>1. (\E T : w \in Seq(T)) /\ \E T : r \in Seq(T)
      BY <2>2, <2>3 DEF Moving, Backs
    <3> QED
      BY <2>3, <3>1, Joined
  <2>5. CASE c <= Len(w)
    <3>1. c \in 1..Len(w)
      BY <2>4, <2>5
    <3>2. w[c].op \notin {"closing", "unchecked"} /\ q[c] = w[c]
      BY <2>2, <2>4, <3>1 DEF Moving
    <3> QED
      BY <3>2 DEF Calls
  <2>6. CASE ~(c <= Len(w))
    <3> DEFINE d == c - Len(w)
    <3>1. d \in 1..Len(r) /\ Len(w) + d = c
      BY <2>4, <2>6
    <3>2. q[c] = r[d]
      BY <2>4, <3>1
    <3> HIDE DEF d
    <3>3. Waits(r[d], own[Len(r) - d], Len(kept) - 1, Len(tree) - m, kept, tree)
      BY <2>3, <3>1, <3>2, ReadyIsNoCaller DEF Backs
    <3>4. q[c].keep \in 0..Len(tree) - m
      BY <3>2, <3>3 DEF Waits
    <3> QED
      BY <2>2, <2>3, <3>4
  <2> QED
    BY <2>5, <2>6
<1> QED
  BY <1>1, <1>2

\* The body is entered or left.
LEMMA BodyOrdered == ASSUME IInv, LInv, EnterBody \/ LeaveBody PROVE LInv'
<1>1. /\ todo # <<>> /\ Head(todo).op \in {"enter", "leave"} /\ UNCHANGED <<at, saved, leaves>>
      /\ todo' = <<>> \o Tail(todo)
  BY DEF EnterBody, LeaveBody, Doing, Top, Then, Rest, scan
<1>2. /\ Rising(leaves, at) /\ Later(saved, at) /\ saved \in Seq(Place) /\ Len(leaves) \in Nat
      /\ OnTheWay(todo, saved, leaves) /\ leaves \in Seq(1..Len(source))
  BY <1>1, Orders
<1>3. Free(todo, saved, leaves)
  BY <1>1, <1>2, WhereTaken
<1>4. Len(leaves) <= Len(leaves) /\ \A x \in 1..Len(leaves) : leaves[x] = leaves[x]
  BY <1>2
<1>5. Free(<<>> \o Tail(todo), saved, leaves)
  BY <1>1, <1>2, <1>3, <1>4, ShortLists, FreeGoesOn
<1>6. OnTheWay(todo', saved', leaves')
  BY <1>1, <1>5 DEF OnTheWay
<1>7. Rising(leaves', at') /\ Later(saved', at')
  BY <1>1, <1>2
<1> QED
  BY <1>6, <1>7, OrderStays

\* The fields behind a "<" are read: the state is given back, or restored with
\* the leaves that were made before it was saved.
LEMMA CloseOrdered == ASSUME IInv, LInv, CloseConcepts PROVE LInv'
<1>1. /\ todo # <<>> /\ Head(todo).op = "closing" /\ Known
  BY DEF CloseConcepts, Doing, Top
<1>2. /\ Types /\ Rising(leaves, at) /\ Later(saved, at) /\ saved \in Seq(Place) /\ Len(leaves) \in Nat
      /\ OnTheWay(todo, saved, leaves) /\ leaves \in Seq(1..Len(source)) /\ at \in Nat
      /\ 1..Len(source) \subseteq Nat
  BY <1>1, Orders
<1>3. Free(todo, saved, leaves)
  BY <1>1, <1>2, WhereTaken
<1>4. PICK T : todo \in Seq(T)
  BY <1>1, Orders
<1> DEFINE c == 1
<1>5. /\ c \in 1..Len(todo) /\ todo[c] = Head(todo) /\ Calls(todo[c])
      /\ SubSeq(todo, c + 1, Len(todo)) = Tail(todo)
  <2>1. /\ 1 \in 1..Len(todo) /\ todo[1] = Head(todo) /\ 1 + 1 = 2
        /\ SubSeq(todo, 2, Len(todo)) = Tail(todo)
    BY <1>1, <1>4
  <2> QED
    BY <1>1, <2>1 DEF Calls
<1> HIDE DEF c
<1>6. todo[c].keep \in 0..Len(leaves)
  BY <1>2, <1>3, <1>5, CallerKeeps
<1>7. CASE /\ at' = at + 1 /\ PopState /\ Then(<<Rule("postfix_more")>>) /\ UNCHANGED leaves
  <2>1. saved # <<>> /\ saved' = Popped /\ todo' = <<Rule("postfix_more")>> \o Tail(todo)
    BY <1>7 DEF PopState, Then, Rest
  <2>2. Ready(Rule("postfix_more"))
    BY RulesReady, RuleNames DEF Names
  <2> DEFINE p == <<Rule("postfix_more")>>
  <2>3. AllReady(p)
    BY <2>2, ShortLists DEF AllReady
  <2> HIDE DEF p
  <2>4. todo[c].keep <= Len(leaves) /\ \A x \in 1..Len(leaves) : x <= Len(leaves) => leaves[x] = leaves[x]
    BY <1>2, <1>6
  <2>5. Free(p \o SubSeq(todo, c + 1, Len(todo)), SubSeq(saved, 1, Len(saved) - 1), leaves)
    <3>1. Returns(todo, saved, leaves, c, leaves)
      BY <1>3, <1>5, <2>4 DEF Returns
    <3>2. todo[c].op = "closing"
      BY <1>1, <1>5
    <3> QED
      BY <1>2, <2>3, <3>1, <3>2, BackToCaller
  <2>6. OnTheWay(todo', saved', leaves')
    BY <1>5, <1>7, <2>1, <2>5 DEF OnTheWay, Popped, p
  <2>7. Rising(leaves, at + 1) /\ at <= at + 1 /\ at + 1 \in Nat
    BY <1>2, RisingOn
  <2>8. Later(Popped, at + 1)
    <3>1. Later(saved, at + 1)
      BY <1>2, <2>7, LaterOn
    <3>2. /\ Len(Popped) = Len(saved) - 1 /\ Len(saved) - 1 \in Nat
          /\ \A x \in 1..Len(saved) - 1 : Popped[x] = saved[x]
      <4>1. Len(saved) >= 1
        BY <1>2, <2>1
      <4> QED
        BY <1>2, <4>1, Below DEF Popped
    <3>3. \A x \in 1..Len(Popped) : x \in 1..Len(saved) /\ Popped[x] = saved[x]
      BY <1>2, <3>2
    <3> QED
      BY <3>1, <3>3 DEF Later
  <2>9. Rising(leaves', at') /\ Later(saved', at')
    BY <1>7, <2>1, <2>7, <2>8
  <2> QED
    BY <2>6, <2>9, OrderStays
<1>8. CASE Keep(Top.keep) /\ Restore /\ Then(ReturnNode2)
  <2>1. /\ saved # <<>> /\ saved' = Popped /\ at' = Saved.at /\ Keep(todo[c].keep)
        /\ todo' = <<>> \o Tail(todo)
    BY <1>5, <1>8 DEF Restore, RestoreScanner, Then, Rest, ReturnNode2, Top
  <2>2. /\ leaves' \in Seq(1..Len(source)) /\ Len(leaves') = todo[c].keep
        /\ \A x \in 1..todo[c].keep : leaves'[x] = leaves[x]
    BY <1>2, <1>6, <2>1, FirstKept
  <2>3. todo[c].keep <= Len(leaves') /\ \A x \in 1..Len(leaves) : x <= Len(leaves') => leaves'[x] = leaves[x]
    BY <1>2, <1>6, <2>2
  <2>4. /\ Free(<<>> \o SubSeq(todo, c + 1, Len(todo)), SubSeq(saved, 1, Len(saved) - 1), leaves')
        /\ \E e \in 1..Len(saved) : \A x \in 1..todo[c].keep : leaves[x] < saved[e].at
    <3> DEFINE p == <<>>
    <3>1. AllReady(p)
      BY ShortLists
    <3> HIDE DEF p
    <3>2. todo[c].op = "closing"
      BY <1>1, <1>5
    <3>3. /\ Free(p \o SubSeq(todo, c + 1, Len(todo)), SubSeq(saved, 1, Len(saved) - 1), leaves')
          /\ \E e \in 1..Len(saved) : \A x \in 1..todo[c].keep : leaves[x] < saved[e].at
      <4>1. Returns(todo, saved, leaves, c, leaves')
        BY <1>3, <1>5, <2>3 DEF Returns
      <4> QED
        BY <1>2, <2>2, <3>1, <3>2, <4>1, BackToCaller
    <3> QED
      BY <3>3 DEF p
  <2>5. OnTheWay(todo', saved', leaves')
    BY <1>5, <2>1, <2>4 DEF OnTheWay, Popped
  <2>6. Later(saved', at')
    BY <1>2, <2>1, LaterBack
  <2>7. \A x \in 1..Len(leaves') : leaves'[x] = leaves[x] /\ leaves'[x] < Saved.at
    <3>1. PICK e \in 1..Len(saved) : \A x \in 1..todo[c].keep : leaves[x] < saved[e].at
      BY <2>4
    <3>2. saved[e].at \in Nat /\ saved[e].at <= Saved.at /\ Saved.at \in Nat
      BY <1>2, <2>1, LaterBack
    <3>3. \A x \in 1..Len(leaves') : x \in 1..Len(leaves) /\ leaves[x] \in Nat
      <4>1. \A x \in 1..Len(leaves) : leaves[x] \in 1..Len(source)
        BY <1>2
      <4> QED
        BY <1>2, <1>6, <2>2, <4>1
    <3> QED
      BY <2>2, <3>1, <3>2, <3>3
  <2>8. Len(leaves') \in 0..Len(leaves)
    BY <1>6, <2>2
  <2>9. Rising(leaves', at')
    BY <1>2, <2>1, <2>7, <2>8, RisingFirst
  <2> QED
    BY <2>5, <2>6, <2>9, OrderStays
<1> QED
  BY <1>7, <1>8 DEF CloseConcepts

\* An error is returned to the nearest caller that goes on after it.
LEMMA ErrorOrdered ==
  ASSUME IInv, LInv, todo # <<>>, Head(todo).op \in {"match", "fail"}, Error
  PROVE  LInv'
<1>2. /\ Types /\ Rising(leaves, at) /\ Later(saved, at) /\ saved \in Seq(Place) /\ Len(leaves) \in Nat
      /\ OnTheWay(todo, saved, leaves) /\ leaves \in Seq(1..Len(source)) /\ at \in Nat
      /\ 1..Len(source) \subseteq Nat
  BY Orders
<1>3. Free(todo, saved, leaves) \/ Trying(todo, saved, leaves)
  BY <1>2, WhereTaken
<1>4. PICK T : todo \in Seq(T)
  BY Orders
<1>5. CASE verdict' = "rejected" /\ UNCHANGED <<scan, depths, saved, leaves, holes>>
  <2>1. UNCHANGED <<at, saved, leaves>>
    BY <1>5 DEF scan
  <2> QED
    BY <1>2, <1>5, <2>1 DEF LInv
<1>6. ASSUME Callers # {}, Keep(todo[Nearest].keep)
      PROVE  /\ Nearest \in 1..Len(todo) /\ Calls(todo[Nearest])
             /\ leaves' \in Seq(1..Len(source)) /\ Len(leaves') = todo[Nearest].keep
             /\ Len(leaves') \in 0..Len(leaves)
             /\ \A x \in 1..Len(leaves') : leaves'[x] = leaves[x]
             /\ todo[Nearest].op = "unchecked" =>
                  Free(<<>> \o SubSeq(todo, Nearest + 1, Len(todo)), saved, leaves')
             /\ todo[Nearest].op = "closing" =>
                  /\ Free(<<>> \o SubSeq(todo, Nearest + 1, Len(todo)), SubSeq(saved, 1, Len(saved) - 1), leaves')
                  /\ \E e \in 1..Len(saved) : \A x \in 1..Len(leaves') : leaves[x] < saved[e].at
  <2> DEFINE c == Nearest
  <2>1. c \in 1..Len(todo) /\ Calls(todo[c])
    BY <1>4, <1>6, NearestCaller DEF Calls
  <2>2. Keep(todo[c].keep)
    BY <1>6
  <2> HIDE DEF c
  <2> DEFINE p == <<>>
  <2>3. AllReady(p)
    BY ShortLists
  <2> HIDE DEF p
  <2>4. todo[c].keep \in 0..Len(leaves)
    BY <1>2, <1>3, <2>1, CallerKeeps
  <2>5. /\ leaves' \in Seq(1..Len(source)) /\ Len(leaves') = todo[c].keep
        /\ \A x \in 1..todo[c].keep : leaves'[x] = leaves[x]
    BY <1>2, <2>2, <2>4, FirstKept
  <2>6. todo[c].keep <= Len(leaves') /\ \A x \in 1..Len(leaves) : x <= Len(leaves') => leaves'[x] = leaves[x]
    BY <1>2, <2>4, <2>5
  <2>7. /\ todo[c].op = "unchecked" => Free(p \o SubSeq(todo, c + 1, Len(todo)), saved, leaves')
        /\ todo[c].op = "closing" =>
             /\ Free(p \o SubSeq(todo, c + 1, Len(todo)), SubSeq(saved, 1, Len(saved) - 1), leaves')
             /\ \E e \in 1..Len(saved) : \A x \in 1..todo[c].keep : leaves[x] < saved[e].at
    <3>1. Returns(todo, saved, leaves, c, leaves')
      BY <1>3, <2>1, <2>6 DEF Returns
    <3> QED
      BY <1>2, <2>3, <2>5, <3>1, BackToCaller
  <2> QED
    BY <2>1, <2>4, <2>5, <2>7 DEF c, p
<1>7. CASE /\ Callers # {} /\ Keep(todo[Nearest].keep) /\ todo[Nearest].op = "closing" /\ Restore
           /\ todo' = ReturnNode2 \o SubSeq(todo, Nearest + 1, Len(todo))
  <2>1. /\ saved # <<>> /\ saved' = Popped /\ at' = Saved.at
        /\ todo' = <<>> \o SubSeq(todo, Nearest + 1, Len(todo))
    BY <1>7 DEF Restore, RestoreScanner, ReturnNode2
  <2>2. /\ leaves' \in Seq(1..Len(source)) /\ Len(leaves') \in 0..Len(leaves)
        /\ \A x \in 1..Len(leaves') : leaves'[x] = leaves[x]
        /\ Free(todo', saved', leaves')
        /\ \E e \in 1..Len(saved) : \A x \in 1..Len(leaves') : leaves[x] < saved[e].at
    BY <1>6, <1>7, <2>1 DEF Popped
  <2>3. Later(saved', at')
    BY <1>2, <2>1, LaterBack
  <2>4. \A x \in 1..Len(leaves') : leaves'[x] = leaves[x] /\ leaves'[x] < Saved.at
    <3>1. PICK e \in 1..Len(saved) : \A x \in 1..Len(leaves') : leaves[x] < saved[e].at
      BY <2>2
    <3>2. saved[e].at \in Nat /\ saved[e].at <= Saved.at /\ Saved.at \in Nat
      BY <1>2, <2>1, LaterBack
    <3>3. \A x \in 1..Len(leaves') : leaves[x] \in Nat
      <4>1. \A x \in 1..Len(leaves) : leaves[x] \in 1..Len(source)
        BY <1>2
      <4>2. \A x \in 1..Len(leaves') : x \in 1..Len(leaves)
        BY <1>2, <2>2
      <4> QED
        BY <1>2, <4>1, <4>2
    <3> QED
      BY <2>2, <3>1, <3>2, <3>3
  <2>5. Rising(leaves', at')
    BY <1>2, <2>1, <2>2, <2>4, RisingFirst
  <2> QED
    BY <2>2, <2>3, <2>5, OrderStays DEF OnTheWay
<1>8. CASE /\ Callers # {} /\ Keep(todo[Nearest].keep) /\ todo[Nearest].op = "unchecked"
           /\ todo' = SubSeq(todo, Nearest + 1, Len(todo)) /\ UNCHANGED <<scan, depths, saved>>
  <2>1. /\ leaves' \in Seq(1..Len(source)) /\ Len(leaves') \in 0..Len(leaves)
        /\ \A x \in 1..Len(leaves') : leaves'[x] = leaves[x]
        /\ Nearest \in 1..Len(todo)
        /\ Free(<<>> \o SubSeq(todo, Nearest + 1, Len(todo)), saved, leaves')
    BY <1>6, <1>8
  <2>2. UNCHANGED <<at, saved>>
    BY <1>8 DEF scan
  <2>3. <<>> \o SubSeq(todo, Nearest + 1, Len(todo)) = SubSeq(todo, Nearest + 1, Len(todo))
    <3> DEFINE c == Nearest
    <3>1. c \in Nat /\ c + 1 \in Nat /\ Len(todo) \in Nat /\ \A i \in c + 1..Len(todo) : todo[i] \in T
      <4>1. c \in 1..Len(todo)
        BY <2>1
      <4> HIDE DEF c
      <4> QED
        BY <1>4, <4>1
    <3> HIDE DEF c
    <3>2. SubSeq(todo, c + 1, Len(todo)) \in Seq(T)
      BY <3>1, SubSeqProperties
    <3>3. <<>> \o SubSeq(todo, c + 1, Len(todo)) = SubSeq(todo, c + 1, Len(todo))
      <4> DEFINE v == SubSeq(todo, c + 1, Len(todo))
      <4>1. v \in Seq(T)
        BY <3>2
      <4> HIDE DEF v
      <4>2. <<>> \o v = v
        BY <4>1
      <4> QED
        BY <4>2 DEF v
    <3> QED
      BY <3>3 DEF c
  <2>4. OnTheWay(todo', saved', leaves')
    BY <1>8, <2>1, <2>2, <2>3 DEF OnTheWay
  <2>5. \A x \in 1..Len(leaves') : leaves'[x] = leaves[x] /\ leaves'[x] < at
    <3>1. \A x \in 1..Len(leaves') : x \in 1..Len(leaves)
      BY <1>2, <2>1
    <3> QED
      BY <1>2, <2>1, <3>1 DEF Rising
  <2>6. Rising(leaves', at)
    BY <1>2, <2>1, <2>5, RisingFirst
  <2>7. Rising(leaves', at') /\ Later(saved', at')
    BY <1>2, <2>2, <2>6
  <2> QED
    BY <2>4, <2>7, OrderStays
<1> QED
  BY <1>5, <1>7, <1>8 DEF Error

\* In a window a step turns into another window.
LEMMA TryingTurns ==
  ASSUME NEW q, NEW K, NEW kept \in Seq(K), NEW L, NEW tree \in Seq(L), Trying(q, kept, tree),
         NEW p, LET s == Head(q)
                IN \/ s.op = "rule" /\ p = Grammar[s.rule]
                   \/ /\ s.op = "branch"
                      /\ p = s.other \/ \E t \in DOMAIN s.arms : p = s.arms[t]
  PROVE  Trying(p \o Tail(q), kept, tree)
<1>1. PICK w, m, r, own : Inside(q, kept, tree, w, m, r, own)
  BY DEF Trying
<1>2. Moving(w, m) /\ m \in Nat /\ Head(q) = Head(w) /\ Tail(q) = Tail(w) \o r
  BY <1>1, Heading
<1>3. Window(w, m)
  BY <1>1 DEF Inside
<1>4. Windowed(p \o Tail(w), m)
  BY <1>2 DEF Moving
<1>5. \E T : p \in Seq(T)
  BY <1>2, <1>3, WindowTurns
<1>6. (\E T : Tail(w) \in Seq(T)) /\ \E T : r \in Seq(T)
  <2>1. w # <<>> /\ \E T : w \in Seq(T)
    BY <1>2 DEF Moving
  <2>2. \E T : r \in Seq(T)
    BY <1>1 DEF Inside, Backs
  <2> QED
    BY <2>1, <2>2
<1>7. (p \o Tail(w)) \o r = p \o (Tail(w) \o r)
  <2> DEFINE u == Tail(w)
  <2>1. \E T : u \in Seq(T)
    BY <1>6
  <2> HIDE DEF u
  <2>2. (p \o u) \o r = p \o (u \o r)
    BY ONLY <1>5, <1>6, <2>1, ThreeLists
  <2> QED
    BY <2>2 DEF u
<1>8. Len(tree) \in Nat /\ Len(tree) = Len(tree) + (m - m) /\ m <= m /\ \A x \in 1..Len(tree) : tree[x] = tree[x]
  BY <1>2
<1> DEFINE v == p \o Tail(w)
<1>9. Windowed(v, m)
  BY <1>4
<1> HIDE DEF v
<1>10. Trying(v \o r, kept, tree)
  BY <1>1, <1>2, <1>8, <1>9, TryingGoesOn
<1> QED
  BY <1>2, <1>7, <1>10 DEF v

\* Calls, conditions and loops.
LEMMA ControlOrdered == ASSUME IInv, LInv, Control PROVE LInv'
<1>1. todo # <<>> /\ UNCHANGED <<at, saved, leaves>>
  BY DEF Control, Doing, scan
<1>2. /\ Types /\ Rising(leaves, at) /\ Later(saved, at) /\ saved \in Seq(Place) /\ Len(leaves) \in Nat
      /\ OnTheWay(todo, saved, leaves) /\ leaves \in Seq(1..Len(source)) /\ Len(saved) \in Nat
  BY <1>1, Orders
<1>3. SUFFICES OnTheWay(todo', saved, leaves)
  <2>1. Rising(leaves', at') /\ Later(saved', at')
    BY <1>1, <1>2
  <2>2. OnTheWay(todo', saved', leaves')
    BY <1>1, <1>3
  <2> QED
    BY <2>1, <2>2, OrderStays
<1> DEFINE s == Head(todo)
<1>4. Len(leaves) <= Len(leaves) /\ \A x \in 1..Len(leaves) : leaves[x] = leaves[x]
  BY <1>2
<1>5. PICK T : todo \in Seq(T)
  BY <1>1, Orders
<1>6. Tail(todo) \in Seq(T) /\ <<>> \o Tail(todo) = Tail(todo)
  BY <1>1, <1>5
\* outside of windows, what a step turns into owes nothing
<1>7. ASSUME NEW p, AllReady(p), Free(todo, saved, leaves), todo' = p \o Tail(todo)
      PROVE  OnTheWay(todo', saved, leaves)
  <2>1. Free(p \o Tail(todo), saved, leaves)
    BY <1>1, <1>2, <1>4, <1>7, FreeGoesOn
  <2> QED
    BY <1>7, <2>1 DEF OnTheWay
<1>8. ASSUME NEW p, Enters(p), Free(todo, saved, leaves), todo' = p \o Tail(todo)
      PROVE  OnTheWay(todo', saved, leaves)
  BY <1>1, <1>2, <1>8, FreeEnters
<1>9. CASE s.op = "rule" /\ todo' = Grammar[s.rule] \o Tail(todo)
  <2>1. CASE Free(todo, saved, leaves)
    <3>1. Ready(s)
      BY <1>1, <1>2, <1>9, <2>1, WhereTaken
    <3>2. Enters(Grammar[s.rule])
      BY <1>9, <3>1, ReadyTurns
    <3> QED
      BY <1>8, <1>9, <2>1, <3>2
  <2>2. CASE Trying(todo, saved, leaves)
    <3>1. Trying(Grammar[s.rule] \o Tail(todo), saved, leaves)
      BY <1>2, <1>9, <2>2, TryingTurns
    <3> QED
      BY <1>9, <3>1 DEF OnTheWay
  <2>3. Free(todo, saved, leaves) \/ Trying(todo, saved, leaves)
    BY <1>1, <1>2, <1>9, WhereTaken
  <2> QED
    BY <2>1, <2>2, <2>3
<1>10. CASE /\ s.op = "branch"
            /\ todo' = (IF Token \in DOMAIN s.arms THEN s.arms[Token] ELSE s.other) \o Tail(todo)
  <2> DEFINE p == IF Token \in DOMAIN s.arms THEN s.arms[Token] ELSE s.other
  <2>1. p = s.other \/ \E t \in DOMAIN s.arms : p = s.arms[t]
    OBVIOUS
  <2>2. todo' = p \o Tail(todo)
    BY <1>10
  <2> HIDE DEF p
  <2>3. CASE Free(todo, saved, leaves)
    <3>1. Ready(s)
      BY <1>1, <1>2, <1>10, <2>3, WhereTaken
    <3>2. Enters(p)
      BY <1>10, <2>1, <3>1, ReadyTurns
    <3> QED
      BY <1>8, <2>2, <2>3, <3>2
  <2>4. CASE Trying(todo, saved, leaves)
    <3>1. Trying(p \o Tail(todo), saved, leaves)
      BY <1>2, <1>10, <2>1, <2>4, TryingTurns
    <3> QED
      BY <2>2, <3>1 DEF OnTheWay
  <2>5. Free(todo, saved, leaves) \/ Trying(todo, saved, leaves)
    BY <1>1, <1>2, <1>10, WhereTaken
  <2> QED
    BY <2>3, <2>4, <2>5
\* loops, and what depends on the depths
<1>11. ASSUME s.op \in {"chain", "repeat", "until", "within", "careless"}
       PROVE  Free(todo, saved, leaves) /\ Ready(s)
  BY <1>1, <1>2, <1>11, WhereTaken
<1>12. AllReady(<<>>)
  BY ShortLists
<1>13. CASE s.op = "chain" /\ todo' = (IF Token \in s.on THEN <<Skip, Rule(s.rule), s>> ELSE <<>>) \o Tail(todo)
  <2> DEFINE p == <<Skip, Rule(s.rule), s>>
  <2>1. Ready(Skip) /\ Ready(Rule(s.rule)) /\ Ready(s)
    <3>1. Ready(Skip)
      BY RulesReady, SimpleSteps
    <3> QED
      BY <1>11, <1>13, <3>1, ReadyTurns
  <2>2. AllReady(p)
    <3>1. \A a, b, c : \A i \in 1..Len(<<a, b, c>>) : <<a, b, c>>[i] \in {a, b, c}
      BY ShortLists
    <3>2. \A a, b, c : <<a, b, c>> \in Seq({a, b, c})
      BY ShortLists
    <3>3. (\E U : p \in Seq(U)) /\ \A i \in 1..Len(p) : p[i] \in {Skip, Rule(s.rule), s}
      BY <3>1, <3>2
    <3> HIDE DEF p
    <3> QED
      BY <2>1, <3>3 DEF AllReady
  <2> HIDE DEF p
  <2>3. todo' = p \o Tail(todo) \/ todo' = <<>> \o Tail(todo)
    BY <1>13 DEF p
  <2> QED
    BY <1>7, <1>11, <1>12, <1>13, <2>2, <2>3
<1>14. CASE /\ s.op \in {"repeat", "until"}
            /\ todo' = Append(s.steps, s) \o Tail(todo) \/ todo' = <<>> \o Tail(todo)
  <2>1. AllReady(s.steps) /\ Ready(s)
    BY <1>11, <1>14, ReadyTurns
  <2>2. AllReady(Append(s.steps, s))
    <3> DEFINE z == s.steps
               p == Append(z, s)
    <3>1. PICK U : z \in Seq(U)
      BY <2>1 DEF AllReady
    <3>2. \A i \in 1..Len(z) : Ready(z[i])
      BY <2>1 DEF AllReady
    <3> HIDE DEF z, s
    <3>3. z \in Seq(U \union {s}) /\ p \in Seq(U \union {s})
      BY <3>1
    <3>4. Len(z) \in Nat /\ Len(p) = Len(z) + 1 /\ p[Len(z) + 1] = s /\ \A i \in 1..Len(z) : p[i] = z[i]
      BY <3>1
    <3> HIDE DEF p
    <3>5. ASSUME NEW i \in 1..Len(p)
          PROVE  Ready(p[i])
      <4>1. i \in 1..Len(z) \/ i = Len(z) + 1
        BY <3>4
      <4> QED
        BY <2>1, <3>2, <3>4, <4>1
    <3>6. AllReady(p)
      BY <3>3, <3>5 DEF AllReady
    <3> QED
      BY <3>6 DEF p, z
  <2> QED
    BY <1>7, <1>11, <1>12, <1>14, <2>2
<1>15. CASE /\ s.op = "within"
            /\ todo' = s.steps \o Tail(todo) \/ todo' = s.other \o Tail(todo)
  <2>1. AllReady(s.steps) /\ AllReady(s.other)
    BY <1>11, <1>15, ReadyTurns
  <2> QED
    BY <1>7, <1>11, <1>15, <2>1
\* what may go on after an error
<1>16. CASE s.op = "concepts" /\ todo' = <<Rule("fields"), Closing(Len(leaves))>> \o Tail(todo)
  <2>1. Trying(todo, saved, leaves)
    BY <1>1, <1>2, <1>16, WhereTaken
  <2>2. PICK w, m, r, own : Inside(todo, saved, leaves, w, m, r, own)
    BY <2>1 DEF Trying
  <2>3. Moving(w, m) /\ m \in Nat /\ s = Head(w) /\ Tail(todo) = Tail(w) \o r
    BY <2>2, Heading
  <2>4. /\ m = 0 /\ Window(w, m) /\ saved # <<>>
        /\ \A x \in 1..Len(leaves) - m : leaves[x] < saved[Len(saved)].at
        /\ Backs(r, Len(saved) - 1, Len(leaves) - m, own, saved, leaves)
    BY <1>16, <2>2, <2>3, WindowTurns DEF Inside
  <2>5. PICK U : r \in Seq(U)
    BY <2>4 DEF Backs
  <2>6. Tail(todo) = r
    <3>1. Tail(w) = <<>>
      BY <1>16, <2>3 DEF Moving
    <3>2. <<>> \o r = r
      BY <2>5
    <3> QED
      BY <2>3, <3>1, <3>2
  <2> DEFINE low == Len(saved) - 1
             c == Closing(Len(leaves))
  <2>7. Calls(c) /\ c.keep = Len(leaves)
    BY DEF Calls, Closing
  <2>8. low \in 0..Len(saved) /\ Len(saved) = low + 1 /\ Len(leaves) - m = Len(leaves)
    BY <1>2, <2>4
  <2>9. Backs(r, low, Len(leaves), own, saved, leaves) /\ \A x \in 1..Len(leaves) : leaves[x] < saved[Len(saved)].at
    BY <2>4, <2>8
  <2>10. Ready(Rule("fields"))
    BY RulesReady, RuleNames DEF Names
  <2> HIDE DEF low, c
  <2>11. Free(<<Rule("fields"), c>> \o r, saved, leaves)
    BY <1>2, <2>7, <2>8, <2>9, <2>10, Calling
  <2> QED
    BY <1>16, <2>6, <2>11 DEF OnTheWay, c
<1>17. CASE s.op = "careless" /\ todo' = <<Rule(s.rule), Unchecked(Len(leaves))>> \o Tail(todo)
  <2>1. Free(todo, saved, leaves) /\ Ready(Rule(s.rule))
    BY <1>11, <1>17, ReadyTurns
  <2>2. Free(Tail(todo), saved, leaves)
    <3> DEFINE p == <<>>
    <3>1. AllReady(p)
      BY <1>12
    <3> HIDE DEF p
    <3>2. Free(p \o Tail(todo), saved, leaves)
      BY <1>1, <1>2, <1>4, <2>1, <3>1, FreeGoesOn
    <3> QED
      BY <1>6, <3>2 DEF p
  <2>3. PICK own : Backs(Tail(todo), Len(saved), Len(leaves), own, saved, leaves)
    BY <2>2 DEF Free
  <2> DEFINE c == Unchecked(Len(leaves))
             R == Rule(s.rule)
             low == Len(saved)
  <2>4. Calls(c) /\ c.keep = Len(leaves) /\ c.op # "closing"
    BY DEF Calls, Unchecked
  <2>5. low \in 0..Len(saved) /\ Ready(R) /\ Backs(Tail(todo), low, Len(leaves), own, saved, leaves)
    BY <1>2, <2>1, <2>3
  <2> HIDE DEF c, R, low
  <2>6. Free(<<R, c>> \o Tail(todo), saved, leaves)
    BY <1>2, <2>4, <2>5, Calling
  <2> QED
    BY <1>17, <2>6 DEF OnTheWay, R, c
<1>18. CASE s.op = "unchecked" /\ todo' = <<>> \o Tail(todo)
  <2> DEFINE c == 1
             p == <<>>
  <2>1. /\ c \in 1..Len(todo) /\ todo[c] = s /\ Calls(todo[c])
        /\ SubSeq(todo, c + 1, Len(todo)) = Tail(todo)
    <3>1. /\ 1 \in 1..Len(todo) /\ todo[1] = Head(todo) /\ 1 + 1 = 2
          /\ SubSeq(todo, 2, Len(todo)) = Tail(todo)
      BY <1>1, <1>5
    <3> QED
      BY <1>18, <3>1 DEF Calls
  <2>2. AllReady(p)
    BY <1>12
  <2> HIDE DEF c, p
  <2>3. Free(todo, saved, leaves)
    BY <1>1, <1>2, <1>18, WhereTaken
  <2>4. todo[c].keep \in 0..Len(leaves)
    BY <1>2, <2>1, <2>3, CallerKeeps
  <2>5. Returns(todo, saved, leaves, c, leaves)
    BY <1>2, <2>1, <2>3, <2>4 DEF Returns
  <2>6. Free(p \o SubSeq(todo, c + 1, Len(todo)), saved, leaves)
    BY <1>2, <1>18, <2>1, <2>2, <2>5, BackToCaller
  <2> QED
    BY <1>18, <2>1, <2>6 DEF OnTheWay, p
<1> QED
  BY <1>9, <1>10, <1>13, <1>14, <1>15, <1>16, <1>17, <1>18
     DEF Control, Doing, Top, Then, Rest, Closing, Unchecked

\* Every step keeps it,
LEMMA NextOrdered == IInv /\ LInv /\ [Next]_vars => LInv'
<1> SUFFICES ASSUME IInv, LInv, [Next]_vars
             PROVE  LInv'
  OBVIOUS
<1>1. CASE Mismatch \/ Refuse
  <2>1. todo # <<>> /\ Head(todo).op \in {"match", "fail"} /\ Error
    BY <1>1 DEF Mismatch, Refuse, Doing, Top
  <2> QED
    BY <2>1, ErrorOrdered
<1>2. CASE Read
  <2>1. UNCHANGED <<at, todo, saved, leaves, verdict>>
    BY <1>2 DEF Read, scan
  <2> QED
    BY <2>1 DEF LInv
<1>3. CASE Accept
  <2>1. verdict' = "accepted" /\ UNCHANGED <<at, todo, saved, leaves>>
    BY <1>3 DEF Accept, scan
  <2> QED
    BY <2>1 DEF LInv
<1>4. CASE UNCHANGED vars
  BY <1>4 DEF LInv, vars
<1> QED
  BY <1>1, <1>2, <1>3, <1>4, SaveOrdered, ReleaseOrdered, TokenOrdered, ControlOrdered, BodyOrdered,
     CloseOrdered, ForRestoreOrdered DEF Next, Step, Finished

\* and it holds at first.
LEMMA InitOrdered == Init => LInv
<1> SUFFICES ASSUME Init
             PROVE  LInv
  OBVIOUS
<1>1. at = 1 /\ saved = <<>> /\ leaves = <<>> /\ todo = Grammar["module"]
  BY DEF Init
<1>2. Len(<<>>) = 0 /\ 1..Len(<<>>) = {}
  OBVIOUS
<1>3. Rising(leaves, at) /\ Later(saved, at)
  BY <1>1, <1>2 DEF Rising, Later
<1>4. Enters(todo)
  BY <1>1, RulesReady, RuleNames DEF Names
<1>5. Free(<<>>, saved, leaves)
  <2>1. <<>> \in Seq({}) /\ [i \in Nat |-> 0] \in [Nat -> Nat]
    OBVIOUS
  <2> DEFINE own == [i \in Nat |-> 0]
  <2>2. own \in [Nat -> Nat]
    BY <2>1
  <2> HIDE DEF own
  <2>3. Backs(<<>>, Len(saved), Len(leaves), own, saved, leaves)
    BY <1>2, <2>1, <2>2 DEF Backs
  <2> QED
    BY <2>3 DEF Free
<1>6. OnTheWay(todo, saved, leaves)
  <2>1. \E T : todo \in Seq(T)
    <3>1. Straight(module) /\ Grammar["module"] = module
      BY Modules, Entries
    <3> QED
      BY <1>1, <3>1 DEF Straight
  <2>2. todo = todo \o <<>>
    BY <2>1
  <2>3. CASE todo \in {Angle, Header}
    BY <1>5, <2>2, <2>3 DEF OnTheWay, Starting
  <2>4. CASE AllReady(todo)
    <3>1. \A i \in 1..Len(todo) : Ready(todo[i]) /\ ~Calls(todo[i])
      BY <2>4, ReadyIsNoCaller DEF AllReady
    <3> DEFINE own == [i \in Nat |-> 0]
    <3>2. own \in [Nat -> Nat]
      OBVIOUS
    <3> HIDE DEF own
    <3>3. Backs(todo, Len(saved), Len(leaves), own, saved, leaves)
      BY <2>1, <3>1, <3>2 DEF Backs
    <3> QED
      BY <3>3 DEF OnTheWay, Free
  <2> QED
    BY <1>4, <2>3, <2>4 DEF Enters
<1> QED
  BY <1>3, <1>6 DEF LInv
-----------------------------------------------------------------------------
(***************************************************************************)
(* The theorems.                                                           *)
(***************************************************************************)
\* Whatever is parsed, and wherever errors are found in it, the parser keeps
\* the invariant from its first token to its verdict.
THEOREM Invariance == Spec => []IInv
<1>1. Init => IInv
  BY InitSound
<1>2. IInv /\ [Next]_vars => IInv'
  BY NextSound
<1> QED
  BY <1>1, <1>2, PTL DEF Spec

\* The scanner and the saved states stay in the source, no depth is counted
\* below zero, and every leaf has its token (syntax.c:65, :105).
THEOREM TypeSafe == Spec => []TypeOK
<1>1. IInv => TypeOK
  <2> SUFFICES ASSUME IInv
               PROVE  TypeOK
    OBVIOUS
  <2>1. Types
    BY DEF IInv
  <2>2. \A i \in DOMAIN saved : saved[i].at \in 1..Len(source)
    <3>1. \A i \in 1..Len(saved) : saved[i] \in Place
      BY <2>1 DEF Types
    <3>2. DOMAIN saved = 1..Len(saved)
      BY <2>1 DEF Types
    <3> QED
      BY <3>1, <3>2 DEF Place
  <2>3. \A i \in DOMAIN leaves : leaves[i] \in 1..Len(source)
    BY <2>1 DEF Types
  <2> QED
    BY <2>1, <2>2, <2>3 DEF TypeOK, Types
<1> QED
  BY <1>1, Invariance, PTL

\* The depths are the numbers of loop and function bodies being parsed, in
\* every text, however its speculations are nested and abandoned
\* (syntax.c:105).
THEOREM BodiesAreCounted == Spec => []DepthsCountBodies
<1>1. IInv => DepthsCountBodies
  <2> SUFFICES ASSUME IInv, verdict = "parsing", Len(saved) = Closings
               PROVE  /\ loop_depth >= Bodies("loop") /\ fun_depth >= Bodies("fun")
                      /\ ~holes => loop_depth = Bodies("loop") /\ fun_depth = Bodies("fun")
    BY DEF DepthsCountBodies
  <2>1. Types /\ Standing(todo, Seen, saved, Deep, ~holes, ~errors)
    BY DEF IInv
  <2>2. PICK owed, open : Overall(todo, saved, Deep, ~holes, owed, open)
    BY <2>1, HasOverall
  <2>3. /\ \A d \in Depths : Bodies(d) <= Deep[d]
        /\ ~holes => \A d \in Depths : Deep[d] = Bodies(d)
    BY <2>1, <2>2, BodiesCounted
  <2>4. /\ "loop" \in Depths /\ "fun" \in Depths
        /\ Deep["loop"] = loop_depth /\ Deep["fun"] = fun_depth
    BY DEF Depths, Deep
  <2> QED
    BY <2>3, <2>4
<1> QED
  BY <1>1, Invariance, PTL

\* An error that does not reject the module was found behind a "<" that was
\* tried, or swallowed by a package (syntax.c:1267, :4323).
THEOREM ErrorsAreHeard == Spec => []QuietlyAccepted
<1>1. IInv => QuietlyAccepted
  BY DEF IInv, QuietlyAccepted
<1> QED
  BY <1>1, Invariance, PTL

\* A module that is accepted without a reported error leaves no saved state
\* behind and no depth open: on every path through the grammar what is saved
\* is released or restored, and a body that is entered is left
\* (syntax.c:65, :1237, :2756).
Balanced == verdict = "accepted" /\ ~errors => saved = <<>> /\ fun_depth = 0 /\ loop_depth = 0

\* So it is with every text: what it saves and opens, the grammar gives back.
THEOREM AcceptedIsBalanced == Spec => []Balanced
<1>1. IInv => Balanced
  <2> SUFFICES ASSUME IInv, verdict = "accepted", ~errors
               PROVE  saved = <<>> /\ fun_depth = 0 /\ loop_depth = 0
    BY DEF Balanced
  <2>1. Types /\ todo = <<>> /\ ~holes /\ Standing(todo, Seen, saved, Deep, ~holes, ~errors)
    BY DEF IInv
  <2>2. PICK owed, open : Stands(todo, owed, open, Seen, saved, Deep, ~holes, ~errors)
    BY <2>1 DEF Standing
  <2>3. ~Held(todo) /\ Line(todo) = <<>> /\ Due(todo, saved) = Len(saved)
    BY <2>1 DEF Held, Line, Due
  <2>4. /\ Shape(<<>>, owed, open) /\ owed[1] = Len(saved)
        /\ Account(owed, open, Len(<<>>), Len(saved), saved, Deep, ~holes)
    BY <2>1, <2>2, <2>3 DEF Stands
  <2>5. owed[1] = 0 /\ \A d \in Depths : open[d][1] = 0
    <3>1. Len(<<>>) + 1 = 1
      OBVIOUS
    <3> QED
      BY <2>4, <3>1 DEF Shape, Even
  <2>6. \A d \in Depths : Deep[d] = 0
    BY <2>1, <2>4, <2>5 DEF Account
  <2>7. saved = <<>>
    <3>1. saved \in Seq(Place) /\ Len(saved) = 0
      BY <2>1, <2>4, <2>5 DEF Types
    <3> QED
      BY <3>1
  <2>8. loop_depth = 0 /\ fun_depth = 0
    BY <2>6 DEF Depths, Deep
  <2> QED
    BY <2>7, <2>8
<1> QED
  BY <1>1, Invariance, PTL

\* However often the parser goes back to a saved state, and whatever it has to
\* give up behind an error, the leaves of the tree stand in the order of the
\* source and none is in it twice: what was read before the state is given back
\* is destroyed or has made no leaf (syntax.c:105, :1264-1289, :2789).
THEOREM LeavesStandInOrder == Spec => []LeavesAscend
<1>1. Init => IInv /\ LInv
  BY InitSound, InitOrdered
<1>2. IInv /\ LInv /\ [Next]_vars => (IInv /\ LInv)'
  BY NextSound, NextOrdered
<1>3. IInv /\ LInv => LeavesAscend
  <2> SUFFICES ASSUME IInv, LInv
               PROVE  LeavesAscend
    OBVIOUS
  <2>1. leaves \in Seq(1..Len(source))
    BY DEF IInv, Types
  <2>2. DOMAIN leaves = 1..Len(leaves)
    BY <2>1
  <2>3. Rising(leaves, at)
    BY DEF LInv
  <2> QED
    BY <2>2, <2>3 DEF LeavesAscend, Rising
<1> QED
  BY <1>1, <1>2, <1>3, PTL DEF Spec
=============================================================================
