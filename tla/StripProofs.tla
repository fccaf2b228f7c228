---------------------------- MODULE StripProofs ----------------------------
(***************************************************************************)
(* Chains stay apart and counts stay right, for any memory and any         *)
(* program, and linked strips behave as the values of StripSpec.           *)
(*                                                                         *)
(* The invariants of Strip are inductive together.  The argument has two   *)
(* halves.  Chains: the chain of a strip is the least set of strips that   *)
(* holds it and is closed under going back, so to show that a strip is in  *)
(* it one shows that it is in every such set.  Counts: the entries that    *)
(* refer to a record are a finite set of places, and each operation makes  *)
(* that set lose or gain places one can name.                              *)
(*                                                                         *)
(* The refinement reads a chain as the sequence of its strips (Lists): it  *)
(* exists and is unique, so that what an operation does to the pointers    *)
(* can be said of the sequence, and of its levels.                         *)
(***************************************************************************)
EXTENDS Strip, FunctionTheorems, FiniteSetTheorems, SequenceTheorems, WellFoundedInduction,
        TLAPS

IInv == TypeOK /\ ChainsDisjoint /\ LinksCountOwners /\ NamesUnique

-----------------------------------------------------------------------------
(* Chains. *)

(* The chain of a strip lies in every closed set of strips that holds the strip. *)
LEMMA ChainIsLeast ==
  ASSUME NEW s, NEW ss \in SUBSET Live, s \in ss, GoesBack(ss)
  PROVE  InChain(s) \subseteq ss
BY DEF InChain

(* It is itself such a set. *)
LEMMA ChainIsClosed ==
  ASSUME ChainsDisjoint, NEW s \in Live
  PROVE  /\ InChain(s) \subseteq Live
         /\ s \in InChain(s)
         /\ GoesBack(InChain(s))
<1>1. GoesBack(Live)
  BY DEF ChainsDisjoint, GoesBack
<1>2. InChain(s) \subseteq Live /\ s \in InChain(s)
  BY DEF InChain
<1>3. ASSUME NEW t \in InChain(s), strips[t].previous # NULL
      PROVE  strips[t].previous \in InChain(s)
  <2>1. strips[t].previous \in Live
    BY <1>2, <1>3 DEF ChainsDisjoint
  <2>2. ASSUME NEW ss \in SUBSET Live, s \in ss, GoesBack(ss)
        PROVE  strips[t].previous \in ss
    BY <1>3, <2>2, ChainIsLeast DEF GoesBack
  <2> QED
    BY <2>1, <2>2 DEF InChain
<1> QED
  BY <1>2, <1>3 DEF GoesBack

(* Every strip of a chain but the first is behind another of the chain. *)
LEMMA ChainIsLinked ==
  ASSUME ChainsDisjoint, NEW s \in Live, NEW v \in InChain(s), v # s
  PROVE  \E u \in InChain(s) : strips[u].previous = v
<1> SUFFICES ASSUME \A u \in InChain(s) : strips[u].previous # v
             PROVE  FALSE
  OBVIOUS
<1>1. InChain(s) \subseteq Live /\ s \in InChain(s) /\ GoesBack(InChain(s))
  BY ChainIsClosed
<1>2. GoesBack(InChain(s) \ {v})
  BY <1>1 DEF GoesBack
<1> QED
  BY <1>1, <1>2, ChainIsLeast

(* A held chain has a last strip: going back cannot come round to a strip twice, and
   memory is finite. *)
LEMMA ChainEnds ==
  ASSUME TypeOK, ChainsDisjoint, NEW s \in heads
  PROVE  /\ LastInChain(s) \in InChain(s)
         /\ strips[LastInChain(s)].previous = NULL
<1> DEFINE chain == InChain(s)
           back == [t \in chain |-> strips[t].previous]
<1>1. s \in Live /\ chain \subseteq Live /\ s \in chain /\ GoesBack(chain)
  BY ChainIsClosed DEF TypeOK
<1>2. IsFiniteSet(chain)
  BY <1>1, MemoryAssumption, FS_Subset DEF TypeOK
<1>3. ASSUME \A t \in chain : strips[t].previous # NULL
      PROVE  FALSE
  <2>1. back \in [chain -> chain \ {s}]
    BY <1>1, <1>3 DEF GoesBack, ChainsDisjoint
  <2>2. IsFiniteSet(chain \ {s}) /\ Cardinality(chain \ {s}) = Cardinality(chain) - 1
    BY <1>1, <1>2, FS_RemoveElement
  <2>3. Cardinality(chain \ {s}) < Cardinality(chain)
    BY <1>2, <2>2, FS_CardinalityType
  <2>4. PICK t, u \in chain : t # u /\ back[t] = back[u]
    <3> HIDE DEF chain, back
    <3> QED
      BY <1>2, <2>1, <2>2, <2>3, FS_PigeonHole
  <2> QED
    BY <1>1, <1>3, <2>4 DEF ChainsDisjoint
<1> QED
  BY <1>3 DEF LastInChain

(* Operations that move no pointer leave the chains as they are. *)
LEMMA SameChains ==
  ASSUME ChainsDisjoint,
         Live' = Live, heads' = heads,
         \A t \in Live : strips'[t].previous = strips[t].previous
  PROVE  ChainsDisjoint'
<1>1. ASSUME NEW s
      PROVE  InChain(s) = InChain(s)'
  BY DEF InChain, GoesBack, Live
<1> QED
  BY <1>1 DEF ChainsDisjoint

(* New strips do not disturb the old chains. *)
LEMMA OldChainsStay ==
  ASSUME ChainsDisjoint,
         Live \subseteq Live',
         \A t \in Live : strips'[t].previous = strips[t].previous,
         NEW s \in Live
  PROVE  InChain(s) \subseteq InChain(s)'
<1> SUFFICES ASSUME NEW t \in InChain(s), NEW ss \in SUBSET Live', s \in ss, GoesBack(ss)'
             PROVE  t \in ss
  BY ChainIsClosed DEF InChain
<1>1. GoesBack(ss \cap Live)
  BY DEF GoesBack, ChainsDisjoint
<1> QED
  BY <1>1, ChainIsLeast

(* The four operations that make, move or free strips keep the chains apart. *)
LEMMA CreateChains ==
  ASSUME IInv, Create
  PROVE  ChainsDisjoint'
<1>1. PICK s \in Strip \ Live :
        /\ strips' = [t \in Live \cup {s} |-> IF t = s THEN Empty ELSE strips[t]]
        /\ heads' = heads \cup {s}
  BY DEF Create
<1>2. /\ Live' = Live \cup {s} /\ heads \subseteq Live
      /\ strips'[s].previous = NULL
      /\ \A t \in Live : strips'[t].previous = strips[t].previous
  BY <1>1 DEF Live, Empty, IInv, TypeOK
<1>3. \A t \in Live' : strips'[t].previous # NULL => strips'[t].previous \in Live' \ heads'
  BY <1>1, <1>2 DEF IInv, ChainsDisjoint
<1>4. \A t, u \in Live' : strips'[t].previous = strips'[u].previous =>
                             t = u \/ strips'[t].previous = NULL
  BY <1>1, <1>2 DEF IInv, ChainsDisjoint
<1>5. ASSUME NEW t \in Live'
      PROVE  \E h \in heads' : t \in InChain(h)'
  <2>1. CASE t = s
    BY <1>1, <2>1 DEF InChain
  <2>2. CASE t \in Live
    <3>1. PICK h \in heads : t \in InChain(h)
      BY <2>2 DEF IInv, ChainsDisjoint
    <3> QED
      BY <1>1, <1>2, <3>1, OldChainsStay DEF IInv
  <2> QED
    BY <1>2, <2>1, <2>2
<1> QED
  BY <1>3, <1>4, <1>5 DEF ChainsDisjoint

LEMMA AttachChains ==
  ASSUME IInv, Attach
  PROVE  ChainsDisjoint'
<1>1. PICK s, previous \in heads :
        /\ s # previous
        /\ strips' = [strips EXCEPT ![LastInChain(s)].previous = previous]
        /\ heads' = heads \ {previous}
  BY DEF Attach
<1> DEFINE last == LastInChain(s)
<1>2. last \in InChain(s) /\ strips[last].previous = NULL
  BY ChainEnds DEF IInv
<1>3. last \in Live /\ heads \subseteq Live /\ NULL \notin heads
  BY <1>2, ChainIsClosed, MemoryAssumption DEF IInv, TypeOK
<1>4. /\ Live' = Live
      /\ strips'[last].previous = previous
      /\ \A t \in Live : t # last => strips'[t].previous = strips[t].previous
  BY <1>1, <1>3 DEF Live, IInv, TypeOK
<1> HIDE DEF last
<1>5. \A t \in Live' : strips'[t].previous # NULL => strips'[t].previous \in Live' \ heads'
  BY <1>1, <1>3, <1>4 DEF IInv, ChainsDisjoint
<1>6. \A t, u \in Live' : strips'[t].previous = strips'[u].previous =>
                             t = u \/ strips'[t].previous = NULL
  BY <1>1, <1>2, <1>3, <1>4 DEF IInv, ChainsDisjoint
<1>7. ASSUME NEW ss \in SUBSET Live, GoesBack(ss)'
      PROVE  GoesBack(ss)
  BY <1>2, <1>4, <1>7 DEF GoesBack
<1>8. ASSUME NEW t \in Live'
      PROVE  \E h \in heads' : t \in InChain(h)'
  <2>1. PICK h \in heads : t \in InChain(h)
    BY <1>4, <1>8 DEF IInv, ChainsDisjoint
  <2>2. CASE h # previous
    <3>1. t \in InChain(h)'
      BY <1>4, <1>7, <2>1, ChainIsLeast DEF InChain
    <3> QED
      BY <1>1, <2>2, <3>1
  \* A chain that holds s goes on from its last strip to the strip behind it.
  <2>3. CASE h = previous
    <3>1. ASSUME NEW ss \in SUBSET Live, s \in ss, GoesBack(ss)'
          PROVE  t \in ss
      <4>1. last \in ss
        BY <1>2, <1>7, <3>1, ChainIsLeast
      <4>2. previous \in ss
        BY <1>3, <1>4, <3>1, <4>1 DEF GoesBack
      <4> QED
        BY <1>7, <2>1, <2>3, <3>1, <4>2, ChainIsLeast
    <3> QED
      BY <1>1, <1>4, <1>8, <3>1 DEF InChain
  <2> QED
    BY <2>2, <2>3
<1> QED
  BY <1>5, <1>6, <1>8 DEF ChainsDisjoint

LEMMA DestroyChains ==
  ASSUME IInv, Destroy
  PROVE  ChainsDisjoint' /\ heads' \subseteq Live'
<1>1. PICK s \in heads : /\ strips' = [t \in Live \ InChain(s) |-> strips[t]]
                         /\ heads' = heads \ {s}
  BY DEF Destroy
<1>2. s \in Live /\ heads \subseteq Live
  BY DEF IInv, TypeOK
<1>3. /\ Live' = Live \ InChain(s)
      /\ \A t \in Live' : strips'[t].previous = strips[t].previous
  BY <1>1 DEF Live
\* Nothing outside the chain is before one of its strips, and only s of them is held.
<1>4. ASSUME NEW t \in Live', strips[t].previous # NULL
      PROVE  strips[t].previous \in Live'
  <2>1. strips[t].previous \in Live \ heads
    BY <1>3, <1>4 DEF IInv, ChainsDisjoint
  <2>2. ASSUME strips[t].previous \in InChain(s)
        PROVE  FALSE
    <3>1. PICK u \in InChain(s) : strips[u].previous = strips[t].previous
      BY <1>2, <2>1, <2>2, ChainIsLinked DEF IInv
    <3>2. u = t
      BY <1>2, <1>3, <1>4, <3>1, ChainIsClosed DEF IInv, ChainsDisjoint
    <3> QED
      BY <1>3, <3>2
  <2> QED
    BY <1>3, <2>1, <2>2
<1>5. heads' \subseteq Live'
  <2>1. ASSUME NEW h \in heads, h # s, h \in InChain(s)
        PROVE  FALSE
    <3>1. PICK u \in InChain(s) : strips[u].previous = h
      BY <1>2, <2>1, ChainIsLinked DEF IInv
    <3> QED
      BY <1>2, <2>1, <3>1, ChainIsClosed, MemoryAssumption DEF IInv, ChainsDisjoint, TypeOK
  <2> QED
    BY <1>1, <1>2, <1>3, <2>1
<1>6. ASSUME NEW t \in Live'
      PROVE  \E h \in heads' : t \in InChain(h)'
  <2>1. PICK h \in heads : t \in InChain(h)
    BY <1>3, <1>6 DEF IInv, ChainsDisjoint
  <2>2. h # s
    BY <1>3, <2>1
  <2>3. t \in InChain(h)'
    <3>1. ASSUME NEW ss \in SUBSET Live', h \in ss, GoesBack(ss)'
          PROVE  t \in ss
      <4>1. ss \subseteq Live /\ GoesBack(ss)
        BY <1>3, <3>1 DEF GoesBack
      <4> QED
        BY <2>1, <3>1, <4>1, ChainIsLeast
    <3> QED
      BY <1>6, <3>1 DEF InChain
  <2> QED
    BY <1>1, <2>2, <2>3
<1>7. \A t \in Live' : strips'[t].previous # NULL => strips'[t].previous \in Live' \ heads'
  BY <1>1, <1>3, <1>4 DEF IInv, ChainsDisjoint
<1>8. \A t, u \in Live' : strips'[t].previous = strips'[u].previous =>
                             t = u \/ strips'[t].previous = NULL
  BY <1>3 DEF IInv, ChainsDisjoint
<1> QED
  BY <1>5, <1>6, <1>7, <1>8 DEF ChainsDisjoint

(* What a copy makes: for each strip of the chain a new one of its own, linked as the
   strip is, with its variables. *)
CopyStep(s, new) ==
  /\ \A t, u \in InChain(s) : new[t] = new[u] => t = u
  /\ Live' = Live \cup {new[t] : t \in InChain(s)}
  /\ \A c \in Live : strips'[c] = strips[c]
  /\ \A t \in InChain(s) :
        strips'[new[t]] = [previous |-> IF strips[t].previous = NULL THEN NULL
                                        ELSE new[strips[t].previous],
                           variables |-> strips[t].variables,
                           inputs |-> {}]
  /\ \A t \in InChain(s) :
        /\ strips'[new[t]].previous = IF strips[t].previous = NULL THEN NULL
                                      ELSE new[strips[t].previous]
        /\ strips'[new[t]].variables = strips[t].variables
        /\ strips'[new[t]].inputs = {}
  /\ heads' = heads \cup {new[s]}
  /\ link' = CopiedLinks(s)

LEMMA CopyFacts ==
  ASSUME NEW s \in heads, NEW new \in [InChain(s) -> Strip \ Live], CopyAs(s, new)
  PROVE  CopyStep(s, new)
<1> DEFINE copied(c) == CHOOSE t \in InChain(s) : new[t] = c
           copies == {new[t] : t \in InChain(s)}
<1>1. /\ Live' = Live \cup copies
      /\ \A c \in Live : strips'[c] = strips[c]
      /\ \A c \in copies \ Live :
           strips'[c] = [previous |-> IF strips[copied(c)].previous = NULL THEN NULL
                                      ELSE new[strips[copied(c)].previous],
                         variables |-> strips[copied(c)].variables,
                         inputs |-> {}]
  BY DEF CopyAs, Live
<1>2. \A t, u \in InChain(s) : new[t] = new[u] => t = u
  BY DEF CopyAs
<1>3. \A t \in InChain(s) : copied(new[t]) = t /\ new[t] \in copies \ Live
  BY <1>2
<1>4. ASSUME NEW t \in InChain(s)
      PROVE  LET behind == IF strips[t].previous = NULL THEN NULL
                           ELSE new[strips[t].previous]
             IN  /\ strips'[new[t]] = [previous |-> behind, variables |-> strips[t].variables,
                                       inputs |-> {}]
                 /\ strips'[new[t]].previous = behind
                 /\ strips'[new[t]].variables = strips[t].variables
                 /\ strips'[new[t]].inputs = {}
  <2> DEFINE behind == IF strips[t].previous = NULL THEN NULL ELSE new[strips[t].previous]
  <2>1. strips'[new[t]] = [previous |-> behind, variables |-> strips[t].variables,
                           inputs |-> {}]
    BY <1>1, <1>3
  <2> HIDE DEF behind
  <2>2. /\ strips'[new[t]].previous = behind
        /\ strips'[new[t]].variables = strips[t].variables
        /\ strips'[new[t]].inputs = {}
    BY <2>1
  <2> QED
    BY <2>1, <2>2 DEF behind
<1> QED
  BY <1>1, <1>2, <1>4 DEF CopyAs, CopyStep

LEMMA CopyChains ==
  ASSUME IInv, Copy
  PROVE  ChainsDisjoint'
<1>1. PICK s \in heads : \E new \in [InChain(s) -> Strip \ Live] : CopyAs(s, new)
  BY DEF Copy
<1>2. PICK new \in [InChain(s) -> Strip \ Live] : CopyStep(s, new)
  BY <1>1, CopyFacts
<1> DEFINE chain == InChain(s)
<1>3. heads \subseteq Live /\ s \in chain /\ chain \subseteq Live /\ GoesBack(chain)
  BY ChainIsClosed DEF IInv, TypeOK
<1>4. /\ \A t \in Live : strips'[t].previous = strips[t].previous
      /\ \A t \in chain : strips'[new[t]].previous =
                            IF strips[t].previous = NULL THEN NULL
                            ELSE new[strips[t].previous]
  BY <1>2 DEF CopyStep
<1>5. \A t \in chain : /\ new[t] \in Live' \ Live
                       /\ new[t] # NULL
                       /\ strips[t].previous # NULL => strips[t].previous \in chain \ {s}
  BY <1>2, <1>3, MemoryAssumption DEF GoesBack, IInv, ChainsDisjoint, CopyStep
<1>6. \A t \in Live' : t \in Live \/ \E u \in chain : t = new[u]
  BY <1>2 DEF CopyStep
<1> HIDE DEF chain
<1>7. ASSUME NEW t \in Live', strips'[t].previous # NULL
      PROVE  strips'[t].previous \in Live' \ heads'
  <2>1. CASE t \in Live
    BY <1>2, <1>3, <1>4, <1>5, <1>7, <2>1 DEF IInv, ChainsDisjoint, CopyStep
  <2>2. CASE \E u \in chain : t = new[u]
    <3>1. PICK u \in chain : t = new[u]
      BY <2>2
    <3>2. strips[u].previous \in chain \ {s} /\ strips'[t].previous = new[strips[u].previous]
      BY <1>4, <1>5, <1>7, <3>1
    <3> QED
      BY <1>2, <1>3, <1>5, <3>2 DEF chain, CopyStep
  <2> QED
    BY <1>6, <2>1, <2>2
<1>8. ASSUME NEW t \in Live', NEW u \in Live',
             strips'[t].previous = strips'[u].previous, strips'[t].previous # NULL
      PROVE  t = u
  <2>1. CASE t \in Live /\ u \in Live
    BY <1>4, <1>8, <2>1 DEF IInv, ChainsDisjoint
  <2>2. ASSUME NEW v \in Live, NEW w \in chain, strips'[v].previous # NULL
        PROVE  strips'[v].previous # strips'[new[w]].previous
    BY <1>4, <1>5, <2>2, MemoryAssumption DEF IInv, ChainsDisjoint
  <2>3. ASSUME NEW v \in chain, NEW w \in chain, strips'[new[v]].previous # NULL,
               strips'[new[v]].previous = strips'[new[w]].previous
        PROVE  v = w
    <3>1. /\ strips[v].previous # NULL /\ strips[w].previous # NULL
          /\ new[strips[v].previous] = new[strips[w].previous]
      BY <1>4, <2>3
    <3>2. strips[v].previous = strips[w].previous
      BY <1>2, <1>5, <3>1 DEF chain, CopyStep
    <3> QED
      BY <1>3, <3>1, <3>2 DEF IInv, ChainsDisjoint
  <2> QED
    BY <1>6, <1>8, <2>1, <2>2, <2>3
<1>9. ASSUME NEW t \in Live'
      PROVE  \E h \in heads' : t \in InChain(h)'
  <2>1. CASE t \in Live
    <3>1. PICK h \in heads : t \in InChain(h)
      BY <2>1 DEF IInv, ChainsDisjoint
    <3> QED
      BY <1>2, <1>3, <1>4, <3>1, OldChainsStay DEF IInv, CopyStep
  \* The strips whose copies lie in a closed set that holds the first copy are a
  \* closed set that holds the first strip.
  <2>2. CASE \E u \in chain : t = new[u]
    <3>1. PICK u \in chain : t = new[u]
      BY <2>2
    <3>2. ASSUME NEW ss \in SUBSET Live', new[s] \in ss, GoesBack(ss)'
          PROVE  new[u] \in ss
      <4> DEFINE originals == {v \in chain : new[v] \in ss}
      <4>1. GoesBack(originals)
        BY <1>4, <1>5, <3>2 DEF GoesBack
      <4>2. originals \subseteq Live /\ s \in originals
        BY <1>3, <3>2
      <4>3. chain \subseteq originals
        BY <4>1, <4>2, ChainIsLeast DEF chain
      <4> QED
        BY <3>1, <4>3
    <3> QED
      BY <1>2, <1>5, <3>1, <3>2 DEF InChain, CopyStep
  <2> QED
    BY <1>6, <2>1, <2>2
<1> QED
  BY <1>7, <1>8, <1>9 DEF ChainsDisjoint

-----------------------------------------------------------------------------
(* Counts. *)

(* There are finitely many places for entries, and none is both counted and not. *)
LEMMA EntriesFinite == IsFiniteSet(Entries)
<1> DEFINE places == (Scope \X Key) \X Record
           make == [p \in places |-> Entry(p[1][1], p[1][2], p[2])]
<1>1. IsFiniteSet(Scope \X Key)
  BY MemoryAssumption, FS_Product
<1>2. IsFiniteSet(places)
  BY <1>1, MemoryAssumption, FS_Product
<1>3. make \in [places -> Entries]
  BY DEF Entry, Entries
<1>4. ASSUME NEW e \in Entries
      PROVE  \E p \in places : make[p] = e
  <2>1. <<<<e.scope, e.key>>, e.value>> \in places
    BY DEF Entries
  <2>2. make[<<<<e.scope, e.key>>, e.value>>] = e
    BY <2>1 DEF Entry, Entries
  <2> QED
    BY <2>1, <2>2
<1>5. make \in Surjection(places, Entries)
  <2> HIDE DEF make, places
  <2> QED
    BY <1>3, <1>4 DEF Surjection
<1> QED
  <2> HIDE DEF make, places
  <2> QED
    BY <1>2, <1>5, FS_Surjection

LEMMA PlacesFinite ==
  ASSUME NEW ss \in SUBSET Strip, NEW r \in Record
  PROVE  /\ IsFiniteSet(VariablesWith(ss, r)) /\ VariableUses(ss, r) \in Nat
         /\ IsFiniteSet(InputsWith(ss, r)) /\ InputUses(ss, r) \in Nat
         /\ IsFiniteSet(VariablesWith(ss, r)') /\ VariableUses(ss, r)' \in Nat
         /\ IsFiniteSet(InputsWith(ss, r)') /\ InputUses(ss, r)' \in Nat
<1>1. IsFiniteSet(ss)
  BY MemoryAssumption, FS_Subset
<1>2. IsFiniteSet(ss \X Entries)
  BY <1>1, EntriesFinite, FS_Product
<1>3. /\ VariablesWith(ss, r) \in SUBSET (ss \X Entries)
      /\ InputsWith(ss, r) \in SUBSET (ss \X Entries)
      /\ VariablesWith(ss, r)' \in SUBSET (ss \X Entries)
      /\ InputsWith(ss, r)' \in SUBSET (ss \X Entries)
  BY DEF VariablesWith, InputsWith
<1>4. /\ IsFiniteSet(VariablesWith(ss, r)) /\ IsFiniteSet(InputsWith(ss, r))
      /\ IsFiniteSet(VariablesWith(ss, r)') /\ IsFiniteSet(InputsWith(ss, r)')
  BY <1>2, <1>3, FS_Subset
<1> QED
  BY <1>4, FS_CardinalityType DEF VariableUses, InputUses

LEMMA DisjointCount ==
  ASSUME NEW A, NEW B, IsFiniteSet(A), IsFiniteSet(B), A \cap B = {}
  PROVE  /\ Cardinality(A \cup B) = Cardinality(A) + Cardinality(B)
         /\ Cardinality(A) \in Nat /\ Cardinality(B) \in Nat
<1>1. Cardinality(A) \in Nat /\ Cardinality(B) \in Nat
  BY FS_CardinalityType
<1>2. Cardinality(A \cup B) = Cardinality(A) + Cardinality(B) - Cardinality(A \cap B)
  BY FS_Union
<1>3. Cardinality(A \cap B) = 0
  BY FS_EmptySet
<1> QED
  BY <1>1, <1>2, <1>3

(* Operations that leave the places alone count what the locals gain and lose. *)
LEMMA LocalsCounted ==
  ASSUME IInv,
         \A x \in Record : /\ VariablesWith(Live, x)' = VariablesWith(Live, x)
                           /\ InputsWith(Live, x)' = InputsWith(Live, x)
                           /\ temps'[x] \in Int
                           /\ link'[x] - link[x] = temps'[x] - temps[x]
                           /\ link'[x] \in Int
  PROVE  LinksCountOwners'
<1> SUFFICES ASSUME NEW x \in Record
             PROVE  link'[x] = temps'[x] + VariableUses(Live, x)' + InputUses(Live, x)'
  BY DEF LinksCountOwners
<1>1. /\ VariableUses(Live, x)' = VariableUses(Live, x)
      /\ InputUses(Live, x)' = InputUses(Live, x)
      /\ link[x] = temps[x] + VariableUses(Live, x) + InputUses(Live, x)
  BY DEF VariableUses, InputUses, IInv, LinksCountOwners
<1>2. /\ VariableUses(Live, x) \in Nat /\ InputUses(Live, x) \in Nat
      /\ link[x] \in Nat /\ temps[x] \in Nat
  BY PlacesFinite, MemoryAssumption DEF IInv, TypeOK
<1> QED
  BY <1>1, <1>2

(* Making and finding count a reference that a local gains, releasing gives one up. *)
LEMMA ReferenceMoves ==
  ASSUME IInv, Make \/ Release \/ FindVariable \/ FindInput
  PROVE  \E r \in Record : \/ LinkIncrease(r) /\ Gains(r)
                           \/ Loses(r) /\ link' = [link EXCEPT ![r] = @ - 1]
<1>1. ASSUME NEW t \in Live, NEW scope, NEW key, NEW e \in Find(strips[t].variables, scope, key)
      PROVE  e.value \in Record
  BY DEF IInv, TypeOK, Find, Entries
<1>2. ASSUME NEW t \in Live, NEW scope, NEW key, NEW e \in Find(strips[t].inputs, scope, key)
      PROVE  e.value \in Record
  BY DEF IInv, TypeOK, Find, Entries
<1>3. heads \subseteq Live /\ \A s \in heads : InChain(s) \subseteq Live
  BY ChainIsClosed DEF IInv, TypeOK
<1>4. CASE Make \/ Release
  BY <1>4 DEF Make, Release
<1>5. CASE FindVariable
  BY <1>1, <1>3, <1>5 DEF FindVariable
<1>6. CASE FindInput
  BY <1>2, <1>3, <1>6 DEF FindInput
<1> QED
  BY <1>4, <1>5, <1>6

LEMMA ReferenceCounts ==
  ASSUME IInv, Make \/ Release \/ FindVariable \/ FindInput
  PROVE  LinksCountOwners'
<1>1. \E r \in Record : \/ LinkIncrease(r) /\ Gains(r)
                        \/ Loses(r) /\ link' = [link EXCEPT ![r] = @ - 1]
  BY ReferenceMoves
<1>2. strips' = strips
  BY DEF Make, Release, FindVariable, FindInput
<1>3. \A x : /\ VariablesWith(Live, x)' = VariablesWith(Live, x)
             /\ InputsWith(Live, x)' = InputsWith(Live, x)
  BY <1>2 DEF VariablesWith, InputsWith, Live
<1>4. ASSUME NEW x \in Record
      PROVE  /\ temps'[x] \in Int /\ link'[x] \in Int
             /\ link'[x] - link[x] = temps'[x] - temps[x]
  BY <1>1, MemoryAssumption DEF LinkIncrease, Gains, Loses, IInv, TypeOK
<1> QED
  BY <1>3, <1>4, LocalsCounted

(* A new strip has no entries, and attaching one to another moves none. *)
LEMMA CreateCounts ==
  ASSUME IInv, Create
  PROVE  LinksCountOwners'
<1>1. PICK s \in Strip \ Live :
        strips' = [t \in Live \cup {s} |-> IF t = s THEN Empty ELSE strips[t]]
  BY DEF Create
<1>2. /\ Live' = Live \cup {s}
      /\ strips'[s].variables = {} /\ strips'[s].inputs = {}
      /\ \A t \in Live : strips'[t] = strips[t]
  BY <1>1 DEF Live, Empty
<1>3. \A x : /\ VariablesWith(Live, x)' = VariablesWith(Live, x)
             /\ InputsWith(Live, x)' = InputsWith(Live, x)
  BY <1>2 DEF VariablesWith, InputsWith
<1>4. \A x \in Record : /\ link' = link /\ temps' = temps
                        /\ link[x] \in Nat /\ temps[x] \in Nat
  BY MemoryAssumption DEF Create, IInv, TypeOK
<1> QED
  BY <1>3, <1>4, LocalsCounted

LEMMA AttachCounts ==
  ASSUME IInv, Attach
  PROVE  LinksCountOwners'
<1>1. PICK s, previous \in heads :
        strips' = [strips EXCEPT ![LastInChain(s)].previous = previous]
  BY DEF Attach
<1>2. /\ Live' = Live
      /\ \A t \in Live : /\ strips'[t].variables = strips[t].variables
                         /\ strips'[t].inputs = strips[t].inputs
  <2> DEFINE last == LastInChain(s)
  <2> HIDE DEF last
  <2>1. strips' = [strips EXCEPT ![last].previous = previous]
    BY <1>1 DEF last
  <2> QED
    BY <2>1 DEF Live, IInv, TypeOK
<1>3. \A x : /\ VariablesWith(Live, x)' = VariablesWith(Live, x)
             /\ InputsWith(Live, x)' = InputsWith(Live, x)
  BY <1>2 DEF VariablesWith, InputsWith
<1>4. \A x \in Record : /\ link' = link /\ temps' = temps
                        /\ link[x] \in Nat /\ temps[x] \in Nat
  BY MemoryAssumption DEF Attach, IInv, TypeOK
<1> QED
  BY <1>3, <1>4, LocalsCounted

(* A push takes one place more; the local that gives its reference up makes up for it. *)
LEMMA PushVariableCounts ==
  ASSUME IInv, PushVariable
  PROVE  LinksCountOwners'
<1>1. PICK s \in heads, scope \in Scope, key \in Key, r \in Record :
        /\ VariableIsNew(s, scope, key)
        /\ strips' = [strips EXCEPT ![s].variables = @ \cup {Entry(scope, key, r)}]
        /\ Loses(r)
        /\ link' = link
  BY DEF PushVariable
<1> DEFINE e == Entry(scope, key, r)
<1>2. /\ s \in Live /\ Live \subseteq Strip /\ Live' = Live /\ e \in Entries
      /\ e \notin strips[s].variables
      /\ e.value = r
      /\ strips'[s].variables = strips[s].variables \cup {e}
      /\ \A t \in Live : t # s => strips'[t].variables = strips[t].variables
      /\ \A t \in Live : strips'[t].inputs = strips[t].inputs
  BY <1>1 DEF IInv, TypeOK, Live, Entry, Entries, VariableIsNew, Find
<1> HIDE DEF e
<1>3. \A x : InputsWith(Live, x)' = InputsWith(Live, x)
  BY <1>2 DEF InputsWith
<1>4. ASSUME NEW x \in Record, x # r
      PROVE  VariablesWith(Live, x)' = VariablesWith(Live, x)
  BY <1>2, <1>4 DEF VariablesWith
<1>5. /\ VariablesWith(Live, r)' = VariablesWith(Live, r) \cup {<<s, e>>}
      /\ <<s, e>> \notin VariablesWith(Live, r)
  BY <1>2 DEF VariablesWith
<1>6. VariableUses(Live, r)' = VariableUses(Live, r) + 1
  BY <1>2, <1>5, PlacesFinite, FS_AddElement DEF VariableUses
<1>7. ASSUME NEW x \in Record
      PROVE  link'[x] = temps'[x] + VariableUses(Live, x)' + InputUses(Live, x)'
  <2>1. /\ link[x] = temps[x] + VariableUses(Live, x) + InputUses(Live, x)
        /\ temps[x] \in Nat /\ temps[r] \in Nat
        /\ InputUses(Live, x)' = InputUses(Live, x)
        /\ VariableUses(Live, x) \in Nat /\ InputUses(Live, x) \in Nat
    BY <1>2, <1>3, PlacesFinite, MemoryAssumption
       DEF IInv, TypeOK, LinksCountOwners, InputUses
  <2>2. CASE x = r
    BY <1>1, <1>6, <2>1, <2>2 DEF Loses, IInv, TypeOK
  <2>3. CASE x # r
    BY <1>1, <1>4, <2>1, <2>3 DEF Loses, IInv, TypeOK, VariableUses
  <2> QED
    BY <2>2, <2>3
<1> QED
  BY <1>7 DEF LinksCountOwners

LEMMA PushInputCounts ==
  ASSUME IInv, PushInput
  PROVE  LinksCountOwners'
<1>1. PICK s \in heads, scope \in Scope, key \in Key, r \in Record :
        /\ InputIsNew(s, scope, key)
        /\ strips' = [strips EXCEPT ![s].inputs = @ \cup {Entry(scope, key, r)}]
        /\ Loses(r)
        /\ link' = link
  BY DEF PushInput
<1> DEFINE e == Entry(scope, key, r)
<1>2. /\ s \in Live /\ Live \subseteq Strip /\ Live' = Live /\ e \in Entries
      /\ e \notin strips[s].inputs
      /\ e.value = r
      /\ strips'[s].inputs = strips[s].inputs \cup {e}
      /\ \A t \in Live : t # s => strips'[t].inputs = strips[t].inputs
      /\ \A t \in Live : strips'[t].variables = strips[t].variables
  BY <1>1 DEF IInv, TypeOK, Live, Entry, Entries, InputIsNew, Find
<1> HIDE DEF e
<1>3. \A x : VariablesWith(Live, x)' = VariablesWith(Live, x)
  BY <1>2 DEF VariablesWith
<1>4. ASSUME NEW x \in Record, x # r
      PROVE  InputsWith(Live, x)' = InputsWith(Live, x)
  BY <1>2, <1>4 DEF InputsWith
<1>5. /\ InputsWith(Live, r)' = InputsWith(Live, r) \cup {<<s, e>>}
      /\ <<s, e>> \notin InputsWith(Live, r)
  BY <1>2 DEF InputsWith
<1>6. InputUses(Live, r)' = InputUses(Live, r) + 1
  BY <1>2, <1>5, PlacesFinite, FS_AddElement DEF InputUses
<1>7. ASSUME NEW x \in Record
      PROVE  link'[x] = temps'[x] + VariableUses(Live, x)' + InputUses(Live, x)'
  <2>1. /\ link[x] = temps[x] + VariableUses(Live, x) + InputUses(Live, x)
        /\ temps[x] \in Nat /\ temps[r] \in Nat
        /\ VariableUses(Live, x)' = VariableUses(Live, x)
        /\ InputUses(Live, x) \in Nat /\ VariableUses(Live, x) \in Nat
    BY <1>2, <1>3, PlacesFinite, MemoryAssumption
       DEF IInv, TypeOK, LinksCountOwners, VariableUses
  <2>2. CASE x = r
    BY <1>1, <1>6, <2>1, <2>2 DEF Loses, IInv, TypeOK
  <2>3. CASE x # r
    BY <1>1, <1>4, <2>1, <2>3 DEF Loses, IInv, TypeOK, InputUses
  <2> QED
    BY <2>2, <2>3
<1> QED
  BY <1>7 DEF LinksCountOwners

(* The places that go are those whose references are given up. *)
LEMMA RemoveCounts ==
  ASSUME IInv, RemoveByScope
  PROVE  LinksCountOwners'
<1>1. PICK s \in heads, scope \in Scope :
        /\ strips' = [t \in Live |->
                       IF t \in WholeChain(s)
                       THEN [strips[t] EXCEPT !.variables = {e \in @ : e.scope # scope}]
                       ELSE strips[t]]
        /\ link' = [r \in Record |->
                      link[r] - Cardinality({p \in VariablesWith(WholeChain(s), r) :
                                               p[2].scope = scope})]
        /\ temps' = temps
  BY DEF RemoveByScope
<1> DEFINE gone(r) == {p \in VariablesWith(WholeChain(s), r) : p[2].scope = scope}
<1>2. /\ Live \subseteq Strip /\ WholeChain(s) \subseteq Live /\ Live' = Live
      /\ \A t \in Live :
           /\ strips'[t].inputs = strips[t].inputs
           /\ strips'[t].variables = {e \in strips[t].variables :
                                         t \in WholeChain(s) => e.scope # scope}
  <2>1. Live \subseteq Strip /\ WholeChain(s) \subseteq Live /\ Live' = Live
    BY <1>1, ChainIsClosed DEF IInv, TypeOK, WholeChain, Live
  <2>2. ASSUME NEW t \in Live
        PROVE  /\ strips'[t].inputs = strips[t].inputs
               /\ strips'[t].variables = {e \in strips[t].variables :
                                             t \in WholeChain(s) => e.scope # scope}
    BY <1>1 DEF IInv, TypeOK
  <2> QED
    BY <2>1, <2>2
<1> SUFFICES ASSUME NEW x \in Record
             PROVE  link'[x] = temps'[x] + VariableUses(Live, x)' + InputUses(Live, x)'
  BY DEF LinksCountOwners
<1>3. InputsWith(Live, x)' = InputsWith(Live, x)
  BY <1>2 DEF InputsWith
<1>4. /\ VariablesWith(Live, x) = VariablesWith(Live, x)' \cup gone(x)
      /\ VariablesWith(Live, x)' \cap gone(x) = {}
      /\ gone(x) \in SUBSET VariablesWith(Live, x)
  BY <1>2 DEF VariablesWith
<1>5. VariableUses(Live, x) = VariableUses(Live, x)' + Cardinality(gone(x))
  <2>1. /\ IsFiniteSet(VariablesWith(Live, x)) /\ IsFiniteSet(VariablesWith(Live, x)')
        /\ IsFiniteSet(gone(x))
    BY <1>2, <1>4, PlacesFinite, FS_Subset
  <2> QED
    BY <1>4, <2>1, DisjointCount DEF VariableUses
<1>6. /\ Cardinality(gone(x)) \in Nat /\ VariableUses(Live, x)' \in Nat
      /\ InputUses(Live, x) \in Nat /\ temps[x] \in Nat
  BY <1>2, <1>4, PlacesFinite, FS_Subset, FS_CardinalityType, MemoryAssumption DEF IInv, TypeOK
<1>7. /\ link[x] = temps[x] + VariableUses(Live, x) + InputUses(Live, x)
      /\ InputUses(Live, x)' = InputUses(Live, x)
  BY <1>3 DEF IInv, LinksCountOwners, InputUses
<1>8. link'[x] = link[x] - Cardinality(gone(x)) /\ temps'[x] = temps[x]
  BY <1>1
<1> HIDE DEF gone
<1> QED
  BY <1>5, <1>6, <1>7, <1>8

LEMMA DestroyCounts ==
  ASSUME IInv, Destroy
  PROVE  LinksCountOwners'
<1>1. PICK s \in heads :
        /\ strips' = [t \in Live \ InChain(s) |-> strips[t]]
        /\ link' = [r \in Record |->
                      link[r] - (VariableUses(InChain(s), r) + InputUses(InChain(s), r))]
        /\ temps' = temps
  BY DEF Destroy
<1> DEFINE chain == InChain(s)
<1>2. /\ Live \subseteq Strip /\ chain \subseteq Live /\ Live' = Live \ chain
      /\ \A t \in Live' : strips'[t] = strips[t]
  BY <1>1, ChainIsClosed DEF IInv, TypeOK, Live
<1> HIDE DEF chain
<1> SUFFICES ASSUME NEW x \in Record
             PROVE  link'[x] = temps'[x] + VariableUses(Live, x)' + InputUses(Live, x)'
  BY DEF LinksCountOwners
<1>3. /\ VariablesWith(Live, x) = VariablesWith(Live, x)' \cup VariablesWith(chain, x)
      /\ VariablesWith(Live, x)' \cap VariablesWith(chain, x) = {}
      /\ InputsWith(Live, x) = InputsWith(Live, x)' \cup InputsWith(chain, x)
      /\ InputsWith(Live, x)' \cap InputsWith(chain, x) = {}
  BY <1>2 DEF VariablesWith, InputsWith
<1>4. /\ IsFiniteSet(VariablesWith(Live, x)') /\ IsFiniteSet(VariablesWith(chain, x))
      /\ IsFiniteSet(InputsWith(Live, x)') /\ IsFiniteSet(InputsWith(chain, x))
      /\ VariableUses(Live, x)' \in Nat /\ InputUses(Live, x)' \in Nat
      /\ VariableUses(chain, x) \in Nat /\ InputUses(chain, x) \in Nat
  <2>1. /\ IsFiniteSet(VariablesWith(Live, x)) /\ IsFiniteSet(VariablesWith(chain, x))
        /\ IsFiniteSet(InputsWith(Live, x)) /\ IsFiniteSet(InputsWith(chain, x))
        /\ VariableUses(chain, x) \in Nat /\ InputUses(chain, x) \in Nat
    BY <1>2, PlacesFinite
  <2>2. /\ VariablesWith(Live, x)' \in SUBSET VariablesWith(Live, x)
        /\ InputsWith(Live, x)' \in SUBSET InputsWith(Live, x)
    BY <1>3
  <2>3. IsFiniteSet(VariablesWith(Live, x)') /\ IsFiniteSet(InputsWith(Live, x)')
    BY <2>1, <2>2, FS_Subset
  <2> QED
    BY <2>1, <2>3, FS_CardinalityType DEF VariableUses, InputUses
<1>5. /\ VariableUses(Live, x) = VariableUses(Live, x)' + VariableUses(chain, x)
      /\ InputUses(Live, x) = InputUses(Live, x)' + InputUses(chain, x)
  BY <1>3, <1>4, DisjointCount DEF VariableUses, InputUses
<1>6. /\ link[x] = temps[x] + VariableUses(Live, x) + InputUses(Live, x)
      /\ link'[x] = link[x] - (VariableUses(chain, x) + InputUses(chain, x))
      /\ temps'[x] = temps[x] /\ temps[x] \in Nat
  BY <1>1, MemoryAssumption DEF IInv, LinksCountOwners, TypeOK, chain
<1> QED
  BY <1>4, <1>5, <1>6

(* The places of the copies are as many as those of the chain. *)
LEMMA CopyCounts ==
  ASSUME IInv, Copy
  PROVE  LinksCountOwners'
<1>1. PICK s \in heads : \E new \in [InChain(s) -> Strip \ Live] : CopyAs(s, new)
  BY DEF Copy
<1>2. PICK new \in [InChain(s) -> Strip \ Live] : CopyStep(s, new)
  BY <1>1, CopyFacts
<1> PICK chain : chain = InChain(s)
  OBVIOUS
<1>3. /\ Live \subseteq Strip /\ chain \subseteq Live
      /\ \A t, u \in chain : new[t] = new[u] => t = u
      /\ \A t \in chain : new[t] \in Strip \ Live
      /\ Live' = Live \cup {new[t] : t \in chain}
      /\ \A t \in Live : strips'[t] = strips[t]
      /\ \A t \in chain : /\ strips'[new[t]].variables = strips[t].variables
                          /\ strips'[new[t]].inputs = {}
  BY <1>2, ChainIsClosed DEF IInv, TypeOK, CopyStep
<1>4. link' = CopiedLinks(s) /\ temps' = temps
  BY <1>2 DEF CopyStep, Copy
<1> SUFFICES ASSUME NEW x \in Record
             PROVE  link'[x] = temps'[x] + VariableUses(Live, x)' + InputUses(Live, x)'
  BY DEF LinksCountOwners
<1> PICK copies : copies = {new[t] : t \in chain}
  OBVIOUS
<1> DEFINE copy == [p \in VariablesWith(chain, x) |-> <<new[p[1]], p[2]>>]
<1>5. InputsWith(Live, x)' = InputsWith(Live, x)
  BY <1>3 DEF InputsWith
<1>6. /\ VariablesWith(Live, x)' = VariablesWith(Live, x) \cup VariablesWith(copies, x)'
      /\ VariablesWith(Live, x) \cap VariablesWith(copies, x)' = {}
  BY <1>3 DEF VariablesWith
<1>7. copy \in Bijection(VariablesWith(chain, x), VariablesWith(copies, x)')
  <2>1. copy \in [VariablesWith(chain, x) -> VariablesWith(copies, x)']
    BY <1>3 DEF VariablesWith
  <2>2. ASSUME NEW p \in VariablesWith(chain, x), NEW q \in VariablesWith(chain, x),
               copy[p] = copy[q]
        PROVE  p = q
    BY <1>3, <2>2 DEF VariablesWith
  <2>3. ASSUME NEW q \in VariablesWith(copies, x)'
        PROVE  \E p \in VariablesWith(chain, x) : copy[p] = q
    <3>1. PICK t \in chain : q[1] = new[t]
      BY DEF VariablesWith
    <3>2. <<t, q[2]>> \in VariablesWith(chain, x) /\ copy[<<t, q[2]>>] = q
      BY <1>3, <3>1 DEF VariablesWith
    <3> QED
      BY <3>2
  <2> HIDE DEF copy
  <2> QED
    BY <2>1, <2>2, <2>3 DEF Bijection, Injection, Surjection, IsInjective
<1> HIDE DEF copy
<1>8. /\ IsFiniteSet(VariablesWith(Live, x)) /\ IsFiniteSet(VariablesWith(chain, x))
      /\ VariableUses(Live, x) \in Nat /\ VariableUses(chain, x) \in Nat
      /\ InputUses(Live, x) \in Nat
  BY <1>3, PlacesFinite
<1>9. /\ IsFiniteSet(VariablesWith(copies, x)')
      /\ Cardinality(VariablesWith(copies, x)') = VariableUses(chain, x)
  BY <1>7, <1>8, FS_Bijection DEF ExistsBijection, VariableUses
<1>10. VariableUses(Live, x)' = VariableUses(Live, x) + VariableUses(chain, x)
  BY <1>6, <1>8, <1>9, DisjointCount DEF VariableUses
<1>11. /\ link[x] = temps[x] + VariableUses(Live, x) + InputUses(Live, x)
       /\ link'[x] = link[x] + VariableUses(chain, x)
       /\ temps'[x] = temps[x] /\ temps[x] \in Nat
       /\ InputUses(Live, x)' = InputUses(Live, x)
  BY <1>4, <1>5, MemoryAssumption
     DEF IInv, LinksCountOwners, TypeOK, CopiedLinks, InputUses
<1> QED
  BY <1>8, <1>10, <1>11

-----------------------------------------------------------------------------
(* Types and names. *)

(* A count that is the number of the owners is a natural number. *)
LEMMA LinkTypes ==
  ASSUME LinksCountOwners', temps' \in [Record -> 0..MaxTemps], Live' \subseteq Strip,
         link' = [r \in Record |-> link'[r]]
  PROVE  link' \in [Record -> Nat]
<1> SUFFICES ASSUME NEW r \in Record
             PROVE  link'[r] \in Nat
  OBVIOUS
<1> PICK live : live = Live'
  OBVIOUS
<1>1. VariableUses(live, r)' \in Nat /\ InputUses(live, r)' \in Nat
  BY PlacesFinite
<1>2. VariableUses(Live, r)' \in Nat /\ InputUses(Live, r)' \in Nat
  BY <1>1 DEF VariableUses, InputUses, VariablesWith, InputsWith
<1> QED
  BY <1>2, MemoryAssumption DEF LinksCountOwners

Table == SUBSET Entries
Strips == [previous : Strip \cup {NULL}, variables : Table, inputs : Table]

LEMMA TempsTyped ==
  ASSUME IInv, Next
  PROVE  /\ temps' \in [Record -> 0..MaxTemps]
         /\ link' = [r \in Record |-> link'[r]]
<1>1. temps \in [Record -> 0..MaxTemps] /\ link \in [Record -> Nat] /\ MaxTemps \in Nat
  BY MemoryAssumption DEF IInv, TypeOK
<1>2. ASSUME NEW r \in Record, Gains(r) PROVE temps' \in [Record -> 0..MaxTemps]
  BY <1>1, <1>2 DEF Gains
<1>3. ASSUME NEW r \in Record, Loses(r) PROVE temps' \in [Record -> 0..MaxTemps]
  BY <1>1, <1>3 DEF Loses
<1>4. ASSUME NEW r \in Record, LinkIncrease(r) PROVE link' = [x \in Record |-> link'[x]]
  BY <1>1, <1>4 DEF LinkIncrease
<1>5. CASE Make \/ Release \/ FindVariable \/ FindInput
  <2>1. PICK r \in Record : \/ LinkIncrease(r) /\ Gains(r)
                            \/ Loses(r) /\ link' = [link EXCEPT ![r] = @ - 1]
    BY <1>5, ReferenceMoves
  <2>2. CASE LinkIncrease(r) /\ Gains(r)
    BY <1>2, <1>4, <2>2
  <2>3. CASE Loses(r) /\ link' = [link EXCEPT ![r] = @ - 1]
    BY <1>1, <1>3, <2>3
  <2> QED
    BY <2>1, <2>2, <2>3
<1>6. CASE PushVariable \/ PushInput
  BY <1>1, <1>3, <1>6 DEF PushVariable, PushInput
<1>7. CASE Create \/ Attach
  BY <1>1, <1>7 DEF Create, Attach
<1>8. CASE RemoveByScope \/ Destroy
  BY <1>1, <1>8 DEF RemoveByScope, Destroy
<1>9. CASE Copy
  BY <1>1, <1>9 DEF Copy, CopyAs, CopiedLinks
<1> QED
  BY <1>5, <1>6, <1>6, <1>7, <1>8, <1>9 DEF Next

(* The strips keep their types, the held ones are allocated and a name stays declared
   once: one step for each operation that changes strips. *)
LEMMA StripsTyped ==
  ASSUME IInv, Next
  PROVE  /\ Live' \subseteq Strip
         /\ \A s \in Live' : strips'[s] \in Strips
         /\ heads' \subseteq Live'
         /\ NamesUnique'
<1>1. /\ Live \subseteq Strip /\ \A s \in Live : strips[s] \in Strips
      /\ heads \subseteq Live
      /\ NamesUnique
  BY DEF IInv, TypeOK, Strips, Table
<1>2. CASE Make \/ Release \/ FindVariable \/ FindInput
  <2>1. strips' = strips /\ heads' = heads
    BY <1>2 DEF Make, Release, FindVariable, FindInput
  <2> QED
    BY <1>1, <2>1 DEF Live, NamesUnique
<1>3. CASE Create
  <2>1. PICK s \in Strip \ Live :
          /\ strips' = [t \in Live \cup {s} |-> IF t = s THEN Empty ELSE strips[t]]
          /\ heads' = heads \cup {s}
    BY <1>3 DEF Create
  <2>2. /\ Live' = Live \cup {s}
        /\ strips'[s] = Empty /\ \A t \in Live : strips'[t] = strips[t]
    BY <2>1 DEF Live
  <2>3. Empty \in Strips /\ Empty.variables = {} /\ Empty.inputs = {}
    BY DEF Empty, Strips, Table
  <2> QED
    BY <1>1, <2>1, <2>2, <2>3 DEF NamesUnique
<1>4. CASE PushVariable
  <2>1. PICK s \in heads, scope \in Scope, key \in Key, r \in Record :
          /\ VariableIsNew(s, scope, key)
          /\ strips' = [strips EXCEPT ![s].variables = @ \cup {Entry(scope, key, r)}]
          /\ heads' = heads
    BY <1>4 DEF PushVariable
  <2>2. /\ Entry(scope, key, r) \in Entries
        /\ Entry(scope, key, r).scope = scope /\ Entry(scope, key, r).key = key
        /\ \A e \in strips[s].variables : ~(e.scope = scope /\ e.key = key)
    BY <2>1 DEF Entry, Entries, VariableIsNew, Find
  <2> DEFINE e == Entry(scope, key, r)
  <2> HIDE DEF e
  <2>3. /\ Live' = Live
        /\ \A t \in Live : t # s => strips'[t] = strips[t]
        /\ strips'[s] \in Strips
        /\ strips'[s].variables = strips[s].variables \cup {e}
        /\ strips'[s].inputs = strips[s].inputs
    BY <1>1, <2>1, <2>2 DEF Live, Strips, Table, e
  <2>4. \A f \in strips[s].variables : ~(f.scope = e.scope /\ f.key = e.key)
    BY <2>2 DEF e
  <2>5. \A t \in Live : strips'[t] \in Strips
    BY <1>1, <2>3
  <2>6. NamesUnique'
    <3>1. ASSUME NEW t \in Live, t # s
          PROVE  /\ \A f, g \in strips'[t].variables : f.scope = g.scope /\ f.key = g.key => f = g
                 /\ \A f, g \in strips'[t].inputs : f.key = g.key => f = g
      BY <1>1, <2>3, <3>1 DEF NamesUnique
    <3>2. /\ \A f, g \in strips'[s].variables : f.scope = g.scope /\ f.key = g.key => f = g
          /\ \A f, g \in strips'[s].inputs : f.key = g.key => f = g
      BY <1>1, <2>3, <2>4 DEF NamesUnique
    <3> QED
      BY <2>3, <3>1, <3>2 DEF NamesUnique
  <2> QED
    BY <1>1, <2>1, <2>3, <2>5, <2>6
<1>5. CASE PushInput
  <2>1. PICK s \in heads, scope \in Scope, key \in Key, r \in Record :
          /\ InputIsNew(s, scope, key)
          /\ strips' = [strips EXCEPT ![s].inputs = @ \cup {Entry(scope, key, r)}]
          /\ heads' = heads
    BY <1>5 DEF PushInput
  <2>2. /\ Entry(scope, key, r) \in Entries
        /\ Entry(scope, key, r).key = key
        /\ \A e \in strips[s].inputs : e.key # key
    BY <2>1 DEF Entry, Entries, InputIsNew
  <2> DEFINE e == Entry(scope, key, r)
  <2> HIDE DEF e
  <2>3. /\ Live' = Live
        /\ \A t \in Live : t # s => strips'[t] = strips[t]
        /\ strips'[s] \in Strips
        /\ strips'[s].inputs = strips[s].inputs \cup {e}
        /\ strips'[s].variables = strips[s].variables
    BY <1>1, <2>1, <2>2 DEF Live, Strips, Table, e
  <2>4. \A f \in strips[s].inputs : f.key # e.key
    BY <2>2 DEF e
  <2>5. \A t \in Live : strips'[t] \in Strips
    BY <1>1, <2>3
  <2>6. NamesUnique'
    <3>1. ASSUME NEW t \in Live, t # s
          PROVE  /\ \A f, g \in strips'[t].variables : f.scope = g.scope /\ f.key = g.key => f = g
                 /\ \A f, g \in strips'[t].inputs : f.key = g.key => f = g
      BY <1>1, <2>3, <3>1 DEF NamesUnique
    <3>2. /\ \A f, g \in strips'[s].variables : f.scope = g.scope /\ f.key = g.key => f = g
          /\ \A f, g \in strips'[s].inputs : f.key = g.key => f = g
      BY <1>1, <2>3, <2>4 DEF NamesUnique
    <3> QED
      BY <2>3, <3>1, <3>2 DEF NamesUnique
  <2> QED
    BY <1>1, <2>1, <2>3, <2>5, <2>6
<1>6. CASE RemoveByScope
  <2>1. PICK s \in heads, scope \in Scope :
          /\ strips' = [t \in Live |->
                         IF t \in WholeChain(s)
                         THEN [strips[t] EXCEPT !.variables = {e \in @ : e.scope # scope}]
                         ELSE strips[t]]
          /\ heads' = heads
    BY <1>6 DEF RemoveByScope
  <2>2. /\ Live' = Live
        /\ \A t \in Live : /\ strips'[t] \in Strips
                           /\ strips'[t].variables \subseteq strips[t].variables
                           /\ strips'[t].inputs = strips[t].inputs
    <3>1. Live' = Live
      BY <2>1 DEF Live
    <3>2. ASSUME NEW t \in Live
          PROVE  /\ strips'[t] \in Strips
                 /\ strips'[t].variables \subseteq strips[t].variables
                 /\ strips'[t].inputs = strips[t].inputs
      BY <1>1, <2>1 DEF Strips, Table
    <3> QED
      BY <3>1, <3>2
  <2> QED
    BY <1>1, <2>1, <2>2 DEF NamesUnique
<1>7. CASE Attach
  <2>1. PICK s, previous \in heads :
          /\ strips' = [strips EXCEPT ![LastInChain(s)].previous = previous]
          /\ heads' = heads \ {previous}
    BY <1>7 DEF Attach
  <2> DEFINE last == LastInChain(s)
  <2> HIDE DEF last
  <2>2. strips' = [strips EXCEPT ![last].previous = previous]
    BY <2>1 DEF last
  <2>3. /\ Live' = Live
        /\ \A t \in Live : /\ strips'[t] \in Strips
                           /\ strips'[t].variables = strips[t].variables
                           /\ strips'[t].inputs = strips[t].inputs
    BY <1>1, <2>1, <2>2 DEF Live, Strips
  <2> QED
    BY <1>1, <2>1, <2>3 DEF NamesUnique
<1>8. CASE Copy
  <2>1. PICK s \in heads : \E new \in [InChain(s) -> Strip \ Live] : CopyAs(s, new)
    BY <1>8 DEF Copy
  <2>2. PICK new \in [InChain(s) -> Strip \ Live] : CopyStep(s, new)
    BY <2>1, CopyFacts
  <2> DEFINE chain == InChain(s)
  <2>3. /\ chain \subseteq Live /\ s \in chain /\ GoesBack(chain)
        /\ \A t \in chain : new[t] \in Strip
    BY <1>1, ChainIsClosed DEF IInv
  <2>4. \A t \in chain : strips'[new[t]] \in Strips
    <3> SUFFICES ASSUME NEW t \in chain
                 PROVE  strips'[new[t]] \in Strips
      OBVIOUS
    <3> DEFINE behind == IF strips[t].previous = NULL THEN NULL ELSE new[strips[t].previous]
    <3>1. behind \in Strip \cup {NULL} /\ strips[t].variables \in Table /\ {} \in Table
      BY <1>1, <2>3 DEF GoesBack, Strips, Table
    <3>2. strips'[new[t]] = [previous |-> behind, variables |-> strips[t].variables,
                             inputs |-> {}]
      BY <2>2 DEF CopyStep
    <3> HIDE DEF behind
    <3> QED
      BY <3>1, <3>2 DEF Strips
  <2>5. /\ Live' = Live \cup {new[t] : t \in chain} /\ heads' = heads \cup {new[s]}
        /\ \A t \in Live : strips'[t] = strips[t]
        /\ \A t \in chain : /\ strips'[new[t]].variables = strips[t].variables
                            /\ strips'[new[t]].inputs = {}
    BY <2>2 DEF CopyStep
  <2> HIDE DEF chain
  <2> QED
    BY <1>1, <2>3, <2>4, <2>5 DEF NamesUnique
<1>9. CASE Destroy
  <2>1. PICK s \in heads : strips' = [t \in Live \ InChain(s) |-> strips[t]]
    BY <1>9 DEF Destroy
  <2>2. Live' \subseteq Live /\ \A t \in Live' : strips'[t] = strips[t]
    BY <2>1 DEF Live
  <2> QED
    BY <1>1, <1>9, <2>2, DestroyChains DEF NamesUnique
<1> QED
  BY <1>2, <1>3, <1>4, <1>5, <1>6, <1>7, <1>8, <1>9 DEF Next

-----------------------------------------------------------------------------
(* The theorems. *)

LEMMA StepChains ==
  ASSUME IInv, Next
  PROVE  ChainsDisjoint'
<1>1. CASE Make \/ Release \/ FindVariable \/ FindInput
  <2>1. strips' = strips /\ heads' = heads
    BY <1>1 DEF Make, Release, FindVariable, FindInput
  <2> QED
    BY <2>1, SameChains DEF IInv, Live
<1>2. CASE PushVariable \/ PushInput \/ RemoveByScope
  <2>1. /\ Live' = Live /\ heads' = heads
        /\ \A t \in Live : strips'[t].previous = strips[t].previous
    BY <1>2 DEF PushVariable, PushInput, RemoveByScope, Live, IInv, TypeOK
  <2> QED
    BY <2>1, SameChains DEF IInv
<1> QED
  BY <1>1, <1>2, CreateChains, AttachChains, CopyChains, DestroyChains DEF Next

LEMMA StepCounts ==
  ASSUME IInv, Next
  PROVE  LinksCountOwners'
BY ReferenceCounts, CreateCounts, PushVariableCounts, PushInputCounts, RemoveCounts,
   AttachCounts, CopyCounts, DestroyCounts DEF Next

LEMMA InvInit ==
  ASSUME Init
  PROVE  IInv
<1>1. Live = {}
  BY DEF Init, Live
<1>2. \A r : VariableUses(Live, r) = 0 /\ InputUses(Live, r) = 0
  <2>1. \A r : VariablesWith(Live, r) = {} /\ InputsWith(Live, r) = {}
    BY <1>1 DEF VariablesWith, InputsWith
  <2> QED
    BY <2>1, FS_EmptySet DEF VariableUses, InputUses
<1> QED
  BY <1>1, <1>2, MemoryAssumption
     DEF Init, IInv, TypeOK, ChainsDisjoint, LinksCountOwners, NamesUnique

LEMMA InvNext ==
  ASSUME IInv, [Next]_vars
  PROVE  IInv'
<1>1. CASE Next
  <2>1. /\ ChainsDisjoint' /\ LinksCountOwners' /\ NamesUnique'
        /\ link' \in [Record -> Nat] /\ temps' \in [Record -> 0..MaxTemps]
    BY <1>1, StepChains, StepCounts, StripsTyped, TempsTyped, LinkTypes
  <2>2. TypeOK'
    BY <1>1, <2>1, StripsTyped DEF TypeOK, Strips, Table
  <2> QED
    BY <2>1, <2>2 DEF IInv
<1>2. CASE UNCHANGED vars
  BY <1>2 DEF vars, IInv, TypeOK, ChainsDisjoint, LinksCountOwners, NamesUnique, Live,
              InChain, GoesBack, VariableUses, InputUses, VariablesWith, InputsWith
<1> QED
  BY <1>1, <1>2

LEMMA Invariant == Spec => []IInv
BY InvInit, InvNext, PTL DEF Spec

(* The variables have their types; a count in particular never goes below 0: nothing is
   released that is not owned. *)
THEOREM TypesHold == Spec => []TypeOK
<1>1. IInv => TypeOK
  BY DEF IInv
<1> QED
  BY Invariant, <1>1, PTL

(* Whatever is created, attached, copied and destroyed in whatever order, chains share
   no strip and every strip belongs to a held chain (not_strip_attach, not_strip_copy,
   not_strip_destroy). *)
THEOREM ChainsStayDisjoint == Spec => []ChainsDisjoint
<1>1. IInv => ChainsDisjoint
  BY DEF IInv
<1> QED
  BY Invariant, <1>1, PTL

(* A record's count is the number of the entries and locals that refer to it
   (not_record_link_increase, not_record_link_decrease and every operation on strips). *)
THEOREM LinksAreCounted == Spec => []LinksCountOwners
<1>1. IInv => LinksCountOwners
  BY DEF IInv
<1> QED
  BY Invariant, <1>1, PTL

(* A name is declared once in a scope of a strip, and is the name of one input. *)
THEOREM NamesStayUnique == Spec => []NamesUnique
<1>1. IInv => NamesUnique
  BY DEF IInv
<1> QED
  BY Invariant, <1>1, PTL

-----------------------------------------------------------------------------
(* Chains as sequences. *)

(* A set of natural numbers that is not empty has a least element. *)
LEMMA Least == ASSUME NEW T, T \subseteq Nat, T # {}
               PROVE  \E x \in T : \A y \in T : x <= y
<1>1. PICK x \in T : \A y \in T : ~(<<y, x>> \in OpToRel(<, Nat))
  BY NatLessThanWellFounded, WFMin
<1>2. \A y \in T : ~(y < x)
  BY <1>1, x \in Nat DEF OpToRel
<1> QED
  BY <1>2

(* What holds of a strip as soon as it holds of the one behind it holds of every
   strip: the strips it does not hold of would go back to each other without end. *)
LEMMA ChainInduction ==
  ASSUME IInv, NEW B \in SUBSET Live, \A t \in B : strips[t].previous \in B
  PROVE  B = {}
<1> SUFFICES ASSUME NEW t \in B PROVE FALSE
  OBVIOUS
<1> DEFINE K == InChain(t)
           back == [u \in K |-> strips[u].previous]
<1>1. t \in Live /\ ChainsDisjoint /\ Live \subseteq Strip /\ heads \subseteq Live
  BY DEF IInv, TypeOK
<1>2. K \subseteq Live /\ t \in K /\ GoesBack(K)
  BY <1>1, ChainIsClosed
<1>3. K \subseteq B
  BY ChainIsLeast DEF GoesBack
<1>4. \A u \in K : strips[u].previous \in K /\ strips[u].previous # NULL
  BY <1>1, <1>2, <1>3, MemoryAssumption DEF GoesBack
<1>5. IsFiniteSet(K)
  BY <1>1, <1>2, MemoryAssumption, FS_Subset
<1>6. back \in Injection(K, K)
  <2>1. back \in [K -> K]
    BY <1>4
  <2>2. \A u, v \in K : back[u] = back[v] => u = v
    BY <1>1, <1>2, <1>4 DEF ChainsDisjoint
  <2> HIDE DEF K, back
  <2> QED
    BY <2>1, <2>2 DEF Injection, IsInjective
<1>7. back \in Surjection(K, K)
  <2> HIDE DEF K, back
  <2> QED
    BY <1>5, <1>6, FS_Injection
<1>8. \A v \in K : \E u \in K : strips[u].previous = v
  <2>1. \A v \in K : \E u \in K : back[u] = v
    <3> HIDE DEF K, back
    <3> QED
      BY <1>7 DEF Surjection
  <2> QED
    BY <2>1
<1>9. PICK h \in heads : t \in InChain(h)
  BY <1>1 DEF ChainsDisjoint
<1>10. /\ InChain(h) \subseteq Live /\ h \in InChain(h) /\ GoesBack(InChain(h))
  BY <1>1, ChainIsClosed
<1>11. h \notin K
  BY <1>1, <1>2, <1>4, <1>8 DEF ChainsDisjoint
<1>12. GoesBack(InChain(h) \ K)
  <2> SUFFICES ASSUME NEW v \in InChain(h) \ K, strips[v].previous \in K PROVE FALSE
    BY <1>10 DEF GoesBack
  <2>1. PICK u \in K : strips[u].previous = strips[v].previous
    BY <1>8
  <2>2. u \in Live /\ v \in Live /\ strips[u].previous # NULL
    BY <1>2, <1>4, <1>10
  <2> QED
    BY <1>1, <2>1, <2>2 DEF ChainsDisjoint
<1>13. InChain(h) \subseteq InChain(h) \ K
  <2> HIDE DEF K
  <2> QED
    BY <1>1, <1>10, <1>11, <1>12, ChainIsLeast
<1> QED
  BY <1>2, <1>9, <1>13

(* The chains of two holders have no strip in common. *)
LEMMA OtherChains ==
  ASSUME IInv, NEW s \in heads, NEW t \in heads, s # t
  PROVE  InChain(s) \cap InChain(t) = {}
<1>1. ChainsDisjoint /\ s \in Live /\ t \in Live /\ NULL \notin Live
  BY MemoryAssumption DEF IInv, TypeOK
<1>2. /\ InChain(s) \subseteq Live /\ s \in InChain(s) /\ GoesBack(InChain(s))
      /\ InChain(t) \subseteq Live /\ t \in InChain(t) /\ GoesBack(InChain(t))
  BY <1>1, ChainIsClosed
<1>3. s \notin InChain(t)
  <2> SUFFICES ASSUME s \in InChain(t) PROVE FALSE
    OBVIOUS
  <2>1. PICK u \in InChain(t) : strips[u].previous = s
    BY <1>1, ChainIsLinked
  <2> QED
    BY <1>1, <1>2, <2>1 DEF ChainsDisjoint
<1>4. GoesBack(InChain(s) \ InChain(t))
  <2> SUFFICES ASSUME NEW v \in InChain(s) \ InChain(t), strips[v].previous \in InChain(t)
               PROVE  FALSE
    BY <1>2 DEF GoesBack
  <2>1. strips[v].previous # NULL /\ v \in Live
    BY <1>1, <1>2
  <2>2. strips[v].previous # t
    BY <1>1, <2>1 DEF ChainsDisjoint
  <2>3. PICK u \in InChain(t) : strips[u].previous = strips[v].previous
    BY <1>1, <2>2, ChainIsLinked
  <2> QED
    BY <1>1, <1>2, <2>1, <2>3 DEF ChainsDisjoint
<1> QED
  BY <1>1, <1>2, <1>3, <1>4, ChainIsLeast

(* c is the strips of the chain of s in their order. *)
Lists(s, c) ==
  /\ c \in Seq(Live)
  /\ c # <<>>
  /\ c[1] = s
  /\ \A i \in 1..Len(c) : strips[c[i]].previous = IF i = Len(c) THEN NULL ELSE c[i + 1]

(* What is at each place of the sequence. *)
LEMMA ListsFacts ==
  ASSUME NEW s, NEW c, Lists(s, c)
  PROVE  /\ Len(c) \in Nat \ {0}
         /\ \A i \in 1..Len(c) : c[i] \in Live
         /\ c[1] = s /\ s \in Live
         /\ \A i \in 1..Len(c) : i # Len(c) => strips[c[i]].previous = c[i + 1]
         /\ strips[c[Len(c)]].previous = NULL
<1>1. Len(c) \in Nat \ {0}
  BY EmptySeq DEF Lists
<1>2. \A i \in 1..Len(c) : c[i] \in Live
  BY ElementOfSeq DEF Lists
<1> QED
  BY <1>1, <1>2 DEF Lists

(* Every strip has such a sequence: that of the strip behind it, with itself in front. *)
EachListed == \A s \in Live : \E c : Lists(s, c)

LEMMA ListsOne ==
  ASSUME NEW s \in Live, strips[s].previous = NULL
  PROVE  Lists(s, <<s>>)
BY DEF Lists

LEMMA ListsMore ==
  ASSUME NEW s \in Live, NEW c, Lists(strips[s].previous, c)
  PROVE  Lists(s, <<s>> \o c)
<1> DEFINE d == <<s>> \o c
<1>1. /\ c \in Seq(Live) /\ Len(c) \in Nat \ {0}
      /\ c[1] = strips[s].previous
  BY ListsFacts DEF Lists
<1>2. \A i \in 1..Len(c) : strips[c[i]].previous = IF i = Len(c) THEN NULL ELSE c[i + 1]
  BY DEF Lists
<1>3. /\ <<s>> \in Seq(Live) /\ Len(<<s>>) = 1 /\ <<s>>[1] = s
  OBVIOUS
<1>4. /\ d \in Seq(Live) /\ Len(d) = Len(<<s>>) + Len(c)
      /\ \A i \in 1..(Len(<<s>>) + Len(c)) :
            d[i] = IF i <= Len(<<s>>) THEN <<s>>[i] ELSE c[i - Len(<<s>>)]
  BY ONLY <1>1, <1>3, ConcatProperties
<1> HIDE DEF d
<1>5. /\ Len(d) = Len(c) + 1
      /\ \A i \in 1..Len(c)+1 : d[i] = IF i = 1 THEN s ELSE c[i - 1]
  BY ONLY <1>1, <1>3, <1>4
<1>6. ASSUME NEW i \in 1..Len(d)
      PROVE  strips[d[i]].previous = IF i = Len(d) THEN NULL ELSE d[i + 1]
  <2>1. CASE i = 1
    <3>1. d[i] = s /\ i # Len(d) /\ i + 1 \in 1..Len(c)+1 /\ i + 1 # 1 /\ i + 1 - 1 = 1
      BY <1>1, <1>5, <2>1
    <3>2. d[i + 1] = c[1]
      BY ONLY <1>5, <3>1
    <3> QED
      BY <1>1, <3>1, <3>2
  <2>2. CASE i # 1
    <3>1. /\ i - 1 \in 1..Len(c) /\ i \in 1..Len(c)+1 /\ (i = Len(d) <=> i - 1 = Len(c))
          /\ i - 1 + 1 = i /\ i \in Int /\ i + 1 - 1 = i /\ i + 1 # 1
      BY <1>1, <1>5, <2>2
    <3>2. d[i] = c[i - 1]
      BY ONLY <1>5, <2>2, <3>1
    <3>3. CASE i = Len(d)
      BY <1>2, <3>1, <3>2, <3>3
    <3>4. CASE i # Len(d)
      <4>1. i + 1 \in 1..Len(c)+1
        BY <1>1, <1>5, <3>4
      <4>2. d[i + 1] = c[i]
        BY ONLY <1>5, <3>1, <4>1
      <4> QED
        BY <1>2, <3>1, <3>2, <3>4, <4>2
    <3> QED
      BY <3>3, <3>4
  <2> QED
    BY <2>1, <2>2
<1>7. d # <<>> /\ d[1] = s
  BY <1>1, <1>5
<1>8. Lists(s, d)
  BY <1>4, <1>6, <1>7 DEF Lists
<1> QED
  BY <1>8 DEF d

LEMMA EachIsListed == IInv => EachListed
<1> SUFFICES ASSUME IInv PROVE EachListed
  OBVIOUS
<1> DEFINE B == {t \in Live : ~ \E c : Lists(t, c)}
<1>1. ASSUME NEW t \in B PROVE strips[t].previous \in B
  <2>1. strips[t].previous # NULL
    BY ListsOne
  <2>2. strips[t].previous \in Live
    BY <2>1 DEF IInv, ChainsDisjoint
  <2> QED
    BY <2>2, ListsMore
<1>2. B = {}
  <2> HIDE DEF B
  <2> QED
    BY <1>1, ChainInduction DEF B
<1> QED
  BY <1>2 DEF EachListed

(* It has only one: two sequences agree at the first place, and from each place on to
   the next, and end at the same strip. *)
ListedOnce == \A s, c, d : Lists(s, c) /\ Lists(s, d) => c = d

LEMMA ListsAgree ==
  ASSUME NEW s, NEW c, NEW d, Lists(s, c), Lists(s, d), NEW i \in 1..Len(c), i \in 1..Len(d)
  PROVE  c[i] = d[i]
<1> DEFINE T == {k \in Nat : k \in 1..Len(c) /\ k \in 1..Len(d) /\ c[k] # d[k]}
<1> SUFFICES ASSUME T # {} PROVE FALSE
  <2>1. i \in Nat
    BY ListsFacts
  <2> QED
    BY <2>1
<1>1. PICK k \in T : \A j \in T : k <= j
  BY Least
<1>2. Len(c) \in Nat /\ Len(d) \in Nat /\ c[1] = s /\ d[1] = s
  BY ListsFacts
<1>3. k # 1
  BY <1>2
<1>4. /\ k - 1 \in 1..Len(c) /\ k - 1 \in 1..Len(d) /\ k - 1 # Len(c) /\ k - 1 # Len(d)
      /\ k - 1 + 1 = k /\ k - 1 \in Nat /\ ~(k <= k - 1)
  BY <1>2, <1>3
<1>5. c[k - 1] = d[k - 1]
  BY <1>1, <1>4
<1>6. c[k] = strips[c[k - 1]].previous /\ d[k] = strips[d[k - 1]].previous
  <2>1. c[k - 1 + 1] = strips[c[k - 1]].previous
    BY <1>4, ListsFacts
  <2>2. d[k - 1 + 1] = strips[d[k - 1]].previous
    BY <1>4, ListsFacts
  <2> QED
    BY <1>4, <2>1, <2>2
<1> QED
  BY <1>5, <1>6

LEMMA ListsNoShorter ==
  ASSUME IInv, NEW s, NEW c, NEW d, Lists(s, c), Lists(s, d)
  PROVE  Len(d) <= Len(c)
<1>1. Len(c) \in Nat \ {0} /\ Len(d) \in Nat \ {0}
  BY ListsFacts
<1> SUFFICES ASSUME Len(c) < Len(d) PROVE FALSE
  BY <1>1
<1>2. Len(c) \in 1..Len(c) /\ Len(c) \in 1..Len(d) /\ Len(c) # Len(d) /\ Len(c) + 1 \in 1..Len(d)
  BY <1>1
<1>3. c[Len(c)] = d[Len(c)]
  BY <1>2, ListsAgree
<1>4. strips[c[Len(c)]].previous = NULL
  BY ListsFacts
<1>5. strips[d[Len(c)]].previous = d[Len(c) + 1] /\ d[Len(c) + 1] \in Live
  BY <1>2, ListsFacts
<1> QED
  BY <1>3, <1>4, <1>5, MemoryAssumption DEF IInv, TypeOK

LEMMA IsListedOnce == IInv => ListedOnce
<1> SUFFICES ASSUME IInv, NEW s, NEW c, NEW d, Lists(s, c), Lists(s, d) PROVE c = d
  BY DEF ListedOnce
<1>1. Len(d) <= Len(c) /\ Len(c) <= Len(d) /\ Len(c) \in Nat /\ Len(d) \in Nat
  BY ListsNoShorter, ListsFacts
<1>2. Len(c) = Len(d)
  BY <1>1
<1>3. \A i \in 1..Len(c) : c[i] = d[i]
  BY <1>2, ListsAgree
<1>4. c \in Seq(Live) /\ d \in Seq(Live)
  BY DEF Lists
<1> QED
  BY <1>2, <1>3, <1>4, SeqEqual

(* The sequence of a chain has the strips of the chain, each once. *)
LEMMA ListsRange ==
  ASSUME IInv, NEW s, NEW c, Lists(s, c)
  PROVE  InChain(s) = {c[i] : i \in 1..Len(c)}
<1>1. ChainsDisjoint /\ s \in Live /\ NULL \notin Live
  BY ListsFacts, MemoryAssumption DEF IInv, TypeOK
<1>2. InChain(s) \subseteq Live /\ s \in InChain(s) /\ GoesBack(InChain(s))
  BY <1>1, ChainIsClosed
<1>3. /\ Len(c) \in Nat \ {0}
      /\ \A i \in 1..Len(c) : c[i] \in Live
      /\ c[1] = s
      /\ \A i \in 1..Len(c) : i # Len(c) => strips[c[i]].previous = c[i + 1]
      /\ strips[c[Len(c)]].previous = NULL
  BY ListsFacts
<1>4. \A i \in 1..Len(c) : c[i] \in InChain(s)
  <2> DEFINE T == {i \in Nat : i \in 1..Len(c) /\ c[i] \notin InChain(s)}
  <2> SUFFICES ASSUME T # {} PROVE FALSE
    BY <1>3
  <2>1. PICK k \in T : \A j \in T : k <= j
    BY Least
  <2>2. k # 1 /\ k \in 1..Len(c) /\ c[k] \notin InChain(s)
    BY <1>2, <1>3, <2>1
  <2>3. /\ k - 1 \in 1..Len(c) /\ k - 1 # Len(c) /\ k - 1 + 1 = k
        /\ k - 1 \in Nat /\ ~(k <= k - 1)
    BY <1>3, <2>2
  <2>4. c[k - 1] \in InChain(s)
    BY <2>1, <2>3
  <2>5. strips[c[k - 1]].previous = c[k] /\ c[k] # NULL
    BY <1>1, <1>3, <2>2, <2>3
  <2> QED
    BY <1>2, <2>2, <2>4, <2>5 DEF GoesBack
<1>5. GoesBack({c[i] : i \in 1..Len(c)})
  <2> SUFFICES ASSUME NEW i \in 1..Len(c)
               PROVE  \/ strips[c[i]].previous = NULL
                      \/ \E j \in 1..Len(c) : strips[c[i]].previous = c[j]
    BY DEF GoesBack
  <2>1. i # Len(c) => i + 1 \in 1..Len(c)
    BY <1>3
  <2> QED
    BY <1>3, <2>1
<1>6. InChain(s) \subseteq {c[i] : i \in 1..Len(c)}
  <2>1. s \in {c[i] : i \in 1..Len(c)} /\ {c[i] : i \in 1..Len(c)} \subseteq Live
    BY <1>3
  <2> QED
    BY <1>5, <2>1, ChainIsLeast
<1> QED
  BY <1>4, <1>6

(* From any place on, it is the sequence of the chain of the strip there. *)
LEMMA ListsTail ==
  ASSUME NEW s, NEW c, Lists(s, c), NEW i \in 1..Len(c)
  PROVE  /\ Lists(c[i], SubSeq(c, i, Len(c)))
         /\ Len(SubSeq(c, i, Len(c))) = Len(c) + 1 - i
         /\ \A j \in 1..(Len(c) + 1 - i) : SubSeq(c, i, Len(c))[j] = c[i + j - 1]
<1>1. /\ Len(c) \in Nat \ {0} /\ i \in Nat
      /\ \A j \in 1..Len(c) : c[j] \in Live
      /\ \A j \in 1..Len(c) : j # Len(c) => strips[c[j]].previous = c[j + 1]
      /\ strips[c[Len(c)]].previous = NULL
  BY ListsFacts
<1> DEFINE d == SubSeq(c, i, Len(c))
<1>2. /\ d \in Seq(Live) /\ Len(d) = Len(c) + 1 - i
      /\ \A j \in 1..(Len(c) + 1 - i) : d[j] = c[i + j - 1]
  <2>1. c \in Seq(Live) /\ \A j \in i..Len(c) : c[j] \in Live
    BY <1>1 DEF Lists
  <2>2. i <= Len(c) + 1
    BY <1>1
  <2> QED
    BY <1>1, <2>1, <2>2, SubSeqProperties
<1> HIDE DEF d
<1>3. Len(d) \in Nat \ {0} /\ d # <<>>
  BY <1>1, <1>2
<1>4. d[1] = c[i]
  <2>1. 1 \in 1..(Len(c) + 1 - i) /\ i + 1 - 1 = i
    BY <1>1
  <2> QED
    BY <1>2, <2>1
<1>5. ASSUME NEW j \in 1..Len(d)
      PROVE  strips[d[j]].previous = IF j = Len(d) THEN NULL ELSE d[j + 1]
  <2> DEFINE k == i + j - 1
  <2>1. /\ j \in 1..(Len(c) + 1 - i) /\ k \in 1..Len(c) /\ (j = Len(d) <=> k = Len(c))
        /\ (j # Len(d) => j + 1 \in 1..(Len(c) + 1 - i))
        /\ i + (j + 1) - 1 = k + 1
    <3>1. Len(c) \in Nat /\ i \in Nat /\ 1 <= i /\ i <= Len(c) /\ Len(d) = Len(c) + 1 - i
          /\ j \in Nat /\ 1 <= j /\ j <= Len(d)
      BY <1>1, <1>2
    <3> QED
      BY ONLY <3>1
  <2>2. d[j] = c[k]
    BY <1>2, <2>1
  <2>3. j # Len(d) => d[j + 1] = c[k + 1]
    BY <1>2, <2>1
  <2> HIDE DEF k
  <2> QED
    BY <1>1, <2>1, <2>2, <2>3
<1>6. Lists(c[i], d)
  BY <1>2, <1>3, <1>4, <1>5 DEF Lists
<1> QED
  BY <1>2, <1>6 DEF d

(* No strip is in the sequence twice: it would go on from there in two ways. *)
LEMMA ListsOnce ==
  ASSUME IInv, NEW s, NEW c, Lists(s, c), NEW i \in 1..Len(c), NEW j \in 1..Len(c), c[i] = c[j]
  PROVE  i = j
<1>1. Len(c) \in Nat
  BY ListsFacts
<1> DEFINE ti == SubSeq(c, i, Len(c))
           tj == SubSeq(c, j, Len(c))
<1>2. Lists(c[i], ti) /\ Lists(c[j], tj) /\ Len(ti) = Len(c) + 1 - i /\ Len(tj) = Len(c) + 1 - j
  BY ListsTail
<1> HIDE DEF ti, tj
<1>3. Len(ti) <= Len(tj) /\ Len(tj) <= Len(ti)
  BY <1>2, ListsNoShorter
<1> QED
  BY <1>1, <1>2, <1>3

(* The strips before a place are not in the chain of the strip there. *)
LEMMA ListsBehind ==
  ASSUME IInv, NEW s, NEW c, Lists(s, c), NEW i \in 1..Len(c), NEW j \in 1..Len(c), j < i
  PROVE  c[j] \in InChain(s) \ InChain(c[i])
<1>1. c[j] \in InChain(s)
  BY ListsRange
<1>2. Len(c) \in Nat /\ i \in Nat /\ j \in Nat
  BY ListsFacts
<1> DEFINE t == SubSeq(c, i, Len(c))
<1>3. Lists(c[i], t) /\ Len(t) = Len(c) + 1 - i
      /\ \A k \in 1..(Len(c) + 1 - i) : t[k] = c[i + k - 1]
  BY ListsTail
<1> HIDE DEF t
<1>4. InChain(c[i]) = {t[k] : k \in 1..Len(t)}
  BY <1>3, ListsRange
<1>5. ASSUME NEW k \in 1..Len(t), t[k] = c[j] PROVE FALSE
  <2>1. k \in 1..(Len(c) + 1 - i) /\ i + k - 1 \in 1..Len(c) /\ i + k - 1 # j
    BY <1>2, <1>3
  <2>2. c[i + k - 1] = c[j]
    BY <1>3, <1>5, <2>1
  <2> QED
    BY <2>1, <2>2, ListsOnce
<1> QED
  BY <1>1, <1>4, <1>5

-----------------------------------------------------------------------------
(* Chains as values. *)
LevelsOf(c) == [i \in 1..Len(c) |-> Level(c[i])]

LEMMA LevelsOfFacts ==
  ASSUME NEW s, NEW c, Lists(s, c)
  PROVE  /\ LevelsOf(c) \in Seq({Level(t) : t \in Live})
         /\ Len(LevelsOf(c)) = Len(c)
         /\ DOMAIN LevelsOf(c) = 1..Len(c)
         /\ \A i \in 1..Len(c) : LevelsOf(c)[i] = Level(c[i])
<1>1. Len(c) \in Nat /\ \A i \in 1..Len(c) : c[i] \in Live
  BY ListsFacts
<1>2. LevelsOf(c) \in [1..Len(c) -> {Level(t) : t \in Live}]
  BY <1>1 DEF LevelsOf
<1>3. LevelsOf(c) \in Seq({Level(t) : t \in Live})
  BY <1>1, <1>2, SeqDef
<1>4. \A i \in 1..Len(c) : LevelsOf(c)[i] = Level(c[i])
  BY DEF LevelsOf
<1>5. DOMAIN LevelsOf(c) = 1..Len(c)
  BY <1>2
<1>6. Len(LevelsOf(c)) = Len(c)
  BY <1>1, <1>3, <1>5, LenProperties
<1> QED
  BY <1>3, <1>4, <1>5, <1>6

LEMMA LevelsOfOne ==
  ASSUME NEW s
  PROVE  LevelsOf(<<s>>) = <<Level(s)>>
<1>1. LevelsOf(<<s>>) = [i \in 1..1 |-> Level(s)]
  BY DEF LevelsOf
<1> QED
  BY <1>1

LEMMA LevelsOfMore ==
  ASSUME NEW s \in Live, NEW c, Lists(strips[s].previous, c)
  PROVE  LevelsOf(<<s>> \o c) = <<Level(s)>> \o LevelsOf(c)
<1> DEFINE S == {Level(t) : t \in Live}
           d == <<s>> \o c
           l == <<Level(s)>>
           m == LevelsOf(c)
           n == LevelsOf(d)
<1>1. Lists(s, d) /\ c \in Seq(Live) /\ <<s>> \in Seq(Live) /\ Len(<<s>>) = 1
  BY ListsMore DEF Lists
<1>2. /\ Len(d) = Len(<<s>>) + Len(c)
      /\ \A i \in 1..(Len(<<s>>) + Len(c)) :
            d[i] = IF i <= Len(<<s>>) THEN <<s>>[i] ELSE c[i - Len(<<s>>)]
  BY ONLY <1>1, ConcatProperties
<1>3. m \in Seq(S) /\ Len(m) = Len(c) /\ \A i \in 1..Len(c) : m[i] = Level(c[i])
  BY LevelsOfFacts
<1>4. n \in Seq(S) /\ Len(n) = Len(d) /\ \A i \in 1..Len(d) : n[i] = Level(d[i])
  BY <1>1, LevelsOfFacts
<1>5. l \in Seq(S) /\ Len(l) = 1 /\ l[1] = Level(s) /\ Len(c) \in Nat
  BY ListsFacts
<1> HIDE DEF S, l, m, n, d
<1>6. /\ l \o m \in Seq(S) /\ Len(l \o m) = 1 + Len(c)
      /\ \A i \in 1..(Len(l) + Len(m)) : (l \o m)[i] = IF i <= Len(l) THEN l[i] ELSE m[i - Len(l)]
  BY ONLY <1>3, <1>5, ConcatProperties
<1>7. ASSUME NEW i \in 1..Len(n) PROVE n[i] = (l \o m)[i]
  <2>1. CASE i = 1
    <3>1. d[i] = s
      BY <1>2, <1>4, <1>5, <1>1, <2>1
    <3>2. i \in 1..Len(d) /\ i \in 1..(Len(l) + Len(m)) /\ i <= Len(l)
      BY <1>1, <1>2, <1>3, <1>4, <1>5, <2>1
    <3>3. (l \o m)[i] = l[1]
      BY <1>6, <2>1, <3>2
    <3> QED
      BY <1>4, <1>5, <3>1, <3>2, <3>3
  <2>2. CASE i # 1
    <3>1. /\ i \in 1..Len(d) /\ i \in 1..(Len(<<s>>) + Len(c)) /\ ~(i <= Len(<<s>>))
          /\ i - Len(<<s>>) = i - 1 /\ i - 1 \in 1..Len(c)
          /\ i \in 1..(Len(l) + Len(m)) /\ ~(i <= Len(l)) /\ i - Len(l) = i - 1
      BY <1>1, <1>2, <1>3, <1>4, <1>5, <2>2
    <3>2. d[i] = c[i - 1]
      BY ONLY <1>2, <3>1
    <3>3. (l \o m)[i] = m[i - 1]
      BY ONLY <1>6, <3>1
    <3> QED
      BY <1>3, <1>4, <3>1, <3>2, <3>3
  <2> QED
    BY <2>1, <2>2
<1>8. Len(n) = Len(l \o m)
  BY <1>1, <1>2, <1>4, <1>5, <1>6
<1>9. n = l \o m
  BY ONLY <1>4, <1>6, <1>7, <1>8, SeqEqual
<1> QED
  BY <1>9 DEF n, l, m, d

\* The levels of a held chain are those of the strips in its sequence.
LevelsListed ==
  /\ Levels = [s \in heads |-> Levels[s]]
  /\ \A s \in heads : \A c : Lists(s, c) => Levels[s] = LevelsOf(c)

LEMMA LevelsAreListed == IInv => LevelsListed
<1> SUFFICES ASSUME IInv PROVE LevelsListed
  OBVIOUS
<1> DEFINE step(f) == [s \in Live |-> IF strips[s].previous = NULL THEN <<Level(s)>>
                                      ELSE <<Level(s)>> \o f[strips[s].previous]]
           seq(s) == CHOOSE c : Lists(s, c)
           w == [s \in Live |-> LevelsOf(seq(s))]
           g == CHOOSE f : f = step(f)
<1>1. EachListed /\ ListedOnce
  BY EachIsListed, IsListedOnce
<1>2. \A s \in Live : Lists(s, seq(s))
  BY <1>1 DEF EachListed
<1>3. \A s, c : Lists(s, c) => seq(s) = c
  BY <1>1 DEF ListedOnce
<1> HIDE DEF seq
<1>4. w = step(w)
  <2> SUFFICES ASSUME NEW s \in Live
               PROVE  w[s] = IF strips[s].previous = NULL THEN <<Level(s)>>
                             ELSE <<Level(s)>> \o w[strips[s].previous]
    OBVIOUS
  <2>1. CASE strips[s].previous = NULL
    <3>1. seq(s) = <<s>>
      BY <1>3, <2>1, ListsOne
    <3>2. w[s] = LevelsOf(<<s>>)
      BY <3>1
    <3> HIDE DEF w
    <3> QED
      BY <2>1, <3>2, LevelsOfOne
  <2>2. CASE strips[s].previous # NULL
    <3> DEFINE p == strips[s].previous
    <3>1. p \in Live
      BY <2>2 DEF IInv, ChainsDisjoint
    <3>2. Lists(p, seq(p))
      BY <1>2, <3>1
    <3>3. seq(s) = <<s>> \o seq(p)
      BY <1>3, <3>2, ListsMore
    <3>4. w[s] = LevelsOf(<<s>> \o seq(p)) /\ w[p] = LevelsOf(seq(p))
      BY <3>1, <3>3
    <3>5. w[s] = <<Level(s)>> \o w[p]
      <4> HIDE DEF w
      <4> QED
        BY <3>2, <3>4, LevelsOfMore
    <3> QED
      BY <2>2, <3>5
  <2> QED
    BY <2>1, <2>2
<1>5. g = step(g)
  <2>1. \E f : f = step(f)
    <3> HIDE DEF w
    <3> QED
      BY <1>4
  <2> QED
    BY <2>1
<1>6. Levels = [s \in heads |-> g[s]]
  BY DEF Levels
<1> HIDE DEF g
<1>7. \A s \in Live : g[s] = IF strips[s].previous = NULL THEN <<Level(s)>>
                             ELSE <<Level(s)>> \o g[strips[s].previous]
  BY <1>5
<1>8. \A s \in Live : w[s] = IF strips[s].previous = NULL THEN <<Level(s)>>
                             ELSE <<Level(s)>> \o w[strips[s].previous]
  <2> HIDE DEF w
  <2> QED
    BY <1>4
<1>9. \A s \in Live : w[s] = LevelsOf(seq(s))
  OBVIOUS
<1> HIDE DEF w, step
<1> DEFINE B == {t \in Live : g[t] # w[t]}
<1>10. ASSUME NEW t \in B PROVE strips[t].previous \in B
  <2>1. strips[t].previous # NULL
    BY <1>7, <1>8
  <2>2. strips[t].previous \in Live
    BY <2>1 DEF IInv, ChainsDisjoint
  <2>3. g[strips[t].previous] # w[strips[t].previous]
    BY <1>7, <1>8, <2>1
  <2> QED
    BY <2>2, <2>3
<1>11. B = {}
  <2>1. B \in SUBSET Live
    OBVIOUS
  <2> HIDE DEF B
  <2> QED
    BY <1>10, <2>1, ChainInduction
<1>12. \A s \in heads : \A c : Lists(s, c) => Levels[s] = LevelsOf(c)
  <2>1. heads \subseteq Live
    BY DEF IInv, TypeOK
  <2> QED
    BY <1>3, <1>6, <1>9, <1>11, <2>1
<1>13. Levels = [s \in heads |-> Levels[s]]
  BY <1>6
<1> QED
  BY <1>12, <1>13 DEF LevelsListed

(* The records with a count are those that an entry or a local refers to. *)
Alive == {r \in Record : link[r] > 0}
AliveReferred == Alive = Abstract!Referenced

LEMMA UsesMeet ==
  ASSUME IInv, NEW r \in Record
  PROVE  /\ VariableUses(Live, r) \in Nat /\ InputUses(Live, r) \in Nat
         /\ VariableUses(Live, r) > 0 <=> \E t \in Live : \E e \in strips[t].variables : e.value = r
         /\ InputUses(Live, r) > 0 <=> \E t \in Live : \E e \in strips[t].inputs : e.value = r
<1>1. /\ IsFiniteSet(VariablesWith(Live, r)) /\ IsFiniteSet(InputsWith(Live, r))
      /\ VariableUses(Live, r) \in Nat /\ InputUses(Live, r) \in Nat
  BY PlacesFinite DEF IInv, TypeOK
<1>2. /\ VariableUses(Live, r) = 0 <=> VariablesWith(Live, r) = {}
      /\ InputUses(Live, r) = 0 <=> InputsWith(Live, r) = {}
  BY <1>1, FS_EmptySet DEF VariableUses, InputUses
<1>3. \A t \in Live : strips[t].variables \subseteq Entries /\ strips[t].inputs \subseteq Entries
  BY DEF IInv, TypeOK
<1>4. VariablesWith(Live, r) # {} <=> \E t \in Live : \E e \in strips[t].variables : e.value = r
  <2>1. ASSUME NEW p \in VariablesWith(Live, r)
        PROVE  p[1] \in Live /\ p[2] \in strips[p[1]].variables /\ p[2].value = r
    BY DEF VariablesWith
  <2>2. ASSUME NEW t \in Live, NEW e \in strips[t].variables, e.value = r
        PROVE  <<t, e>> \in VariablesWith(Live, r)
    BY <1>3, <2>2 DEF VariablesWith
  <2> QED
    BY <2>1, <2>2
<1>5. InputsWith(Live, r) # {} <=> \E t \in Live : \E e \in strips[t].inputs : e.value = r
  <2>1. ASSUME NEW p \in InputsWith(Live, r)
        PROVE  p[1] \in Live /\ p[2] \in strips[p[1]].inputs /\ p[2].value = r
    BY DEF InputsWith
  <2>2. ASSUME NEW t \in Live, NEW e \in strips[t].inputs, e.value = r
        PROVE  <<t, e>> \in InputsWith(Live, r)
    BY <1>3, <2>2 DEF InputsWith
  <2> QED
    BY <2>1, <2>2
<1> QED
  BY <1>1, <1>2, <1>4, <1>5

LEMMA AliveIsReferred == IInv => AliveReferred
<1> SUFFICES ASSUME IInv PROVE AliveReferred
  OBVIOUS
<1> DEFINE levels == UNION {Abstract!Range(Levels[s]) : s \in DOMAIN Levels}
<1>1. EachListed /\ ListedOnce /\ LevelsListed
  BY EachIsListed, IsListedOnce, LevelsAreListed
<1>2. heads \subseteq Live /\ DOMAIN Levels = heads
  BY <1>1 DEF IInv, TypeOK, LevelsListed
<1>3. ASSUME NEW s \in heads
      PROVE  Abstract!Range(Levels[s]) = {Level(t) : t \in InChain(s)}
  <2>1. PICK c : Lists(s, c)
    BY <1>1, <1>2 DEF EachListed
  <2>2. Levels[s] = LevelsOf(c)
    BY <1>1, <2>1 DEF LevelsListed
  <2>3. InChain(s) = {c[i] : i \in 1..Len(c)}
    BY <2>1, ListsRange
  <2>4. DOMAIN LevelsOf(c) = 1..Len(c) /\ \A i \in 1..Len(c) : LevelsOf(c)[i] = Level(c[i])
    BY <2>1, LevelsOfFacts
  <2> HIDE DEF Levels
  <2> QED
    BY <2>2, <2>3, <2>4 DEF Abstract!Range
<1>4. levels = {Level(t) : t \in Live}
  <2>1. \A s \in heads : InChain(s) \subseteq Live
    BY <1>2, ChainIsClosed DEF IInv
  <2>2. \A t \in Live : \E s \in heads : t \in InChain(s)
    BY DEF IInv, ChainsDisjoint
  <2> QED
    BY <1>2, <1>3, <2>1, <2>2
<1>5. Abstract!Referenced =
        {r \in Record : temps[r] > 0 \/ \E level \in levels : Abstract!Refers(level, r)}
  BY DEF Abstract!Referenced
<1> HIDE DEF levels
<1>6. ASSUME NEW r \in Record
      PROVE  (\E level \in levels : Abstract!Refers(level, r)) <=>
                (VariableUses(Live, r) > 0 \/ InputUses(Live, r) > 0)
  <2>1. (\E level \in levels : Abstract!Refers(level, r)) <=>
           \E t \in Live : \E e \in strips[t].variables \cup strips[t].inputs : e.value = r
    <3>1. ASSUME NEW t
          PROVE  Abstract!Refers(Level(t), r) <=>
                   \E e \in strips[t].variables \cup strips[t].inputs : e.value = r
      BY DEF Level, Abstract!Refers
    <3>2. (\E level \in levels : Abstract!Refers(level, r)) <=>
             \E t \in Live : Abstract!Refers(Level(t), r)
      BY <1>4
    <3> QED
      BY <3>1, <3>2
  <2> QED
    BY <2>1, UsesMeet
<1>7. ASSUME NEW r \in Record
      PROVE  link[r] > 0 <=> (temps[r] > 0 \/ VariableUses(Live, r) > 0 \/ InputUses(Live, r) > 0)
  <2>1. /\ link[r] = temps[r] + VariableUses(Live, r) + InputUses(Live, r)
        /\ temps[r] \in Nat
    BY MemoryAssumption DEF IInv, TypeOK, LinksCountOwners
  <2>2. VariableUses(Live, r) \in Nat /\ InputUses(Live, r) \in Nat
    BY UsesMeet
  <2> QED
    BY ONLY <2>1, <2>2
<1> QED
  BY <1>5, <1>6, <1>7 DEF AliveReferred, Alive

-----------------------------------------------------------------------------
(* What the state says about chains, before and after a step. *)
Charted == EachListed /\ ListedOnce /\ LevelsListed /\ AliveReferred

LEMMA IsCharted == IInv => Charted
BY EachIsListed, IsListedOnce, LevelsAreListed, AliveIsReferred DEF Charted

(* A chain is listed as before when its strips are still linked as before. *)
LEMMA LinkedChain ==
  ASSUME IInv, Charted', NEW s \in heads, s \in heads', NEW c, Lists(s, c),
         \A t \in InChain(s) : t \in Live' /\ strips'[t].previous = strips[t].previous
  PROVE  /\ Lists(s, c)'
         /\ Levels'[s] = [i \in 1..Len(c) |-> Level(c[i])']
<1>1. /\ Len(c) \in Nat
      /\ \A i \in 1..Len(c) : c[i] \in InChain(s)
  BY ListsRange, ListsFacts
<1>2. \A i \in 1..Len(c) : c[i] \in Live' /\ strips'[c[i]].previous = strips[c[i]].previous
  BY <1>1
<1>3. c \in Seq(Live')
  <2>1. c \in Seq(Live)
    BY DEF Lists
  <2>2. c \in [1..Len(c) -> Live]
    BY <2>1, LenProperties
  <2>3. c \in [1..Len(c) -> Live']
    BY <1>2, <2>2
  <2> QED
    BY <1>1, <2>3, SeqDef
<1>4. Lists(s, c)'
  BY <1>2, <1>3 DEF Lists
<1>5. Levels'[s] = LevelsOf(c)'
  BY <1>4 DEF Charted, LevelsListed
<1>6. LevelsOf(c)' = [i \in 1..Len(c) |-> Level(c[i])']
  BY DEF LevelsOf
<1> QED
  BY <1>4, <1>5, <1>6

(* A chain whose strips are as before is the same value as before. *)
LEMMA SameChain ==
  ASSUME IInv, Charted', NEW s \in heads, s \in heads',
         \A t \in InChain(s) : t \in Live' /\ strips'[t] = strips[t]
  PROVE  Levels'[s] = Levels[s]
<1>1. s \in Live /\ EachListed /\ LevelsListed
  BY IsCharted DEF Charted, IInv, TypeOK
<1>2. PICK c : Lists(s, c)
  BY <1>1 DEF EachListed
<1>3. \A i \in 1..Len(c) : c[i] \in InChain(s)
  BY <1>2, ListsRange
<1>4. Levels'[s] = [i \in 1..Len(c) |-> Level(c[i])']
  BY <1>2, LinkedChain
<1>5. [i \in 1..Len(c) |-> Level(c[i])'] = LevelsOf(c)
  BY <1>3 DEF LevelsOf, Level
<1>6. Levels[s] = LevelsOf(c)
  BY <1>1, <1>2 DEF LevelsListed
<1> QED
  BY <1>4, <1>5, <1>6

(* A step that moves no strip leaves the chains as they are. *)
LEMMA SameLevels ==
  ASSUME IInv, Charted', strips' = strips, heads' = heads
  PROVE  Levels' = Levels
<1>1. \A s \in heads : InChain(s) \subseteq Live
  BY ChainIsClosed DEF IInv, TypeOK
<1>2. \A s \in heads : Levels'[s] = Levels[s]
  BY <1>1, SameChain DEF Live
<1>3. Levels = [s \in heads |-> Levels[s]]
  BY IsCharted DEF Charted, LevelsListed
<1>4. Levels' = [s \in heads' |-> Levels'[s]]
  BY DEF Charted, LevelsListed
<1> HIDE DEF Levels
<1> QED
  BY <1>2, <1>3, <1>4

-----------------------------------------------------------------------------
(* Each operation does to the chains what StripSpec says. *)
LEMMA HoldsChain ==
  ASSUME IInv, Charted', NEW s, NEW chain, heads' = heads \cup {s},
         Levels'[s] = chain, \A t \in heads \ {s} : Levels'[t] = Levels[t]
  PROVE  Abstract!Holds(s, chain)
<1>1. Levels = [t \in heads |-> Levels[t]]
  BY IsCharted DEF Charted, LevelsListed
<1>2. Levels' = [t \in heads' |-> Levels'[t]]
  BY DEF Charted, LevelsListed
<1>3. DOMAIN Levels = heads /\ DOMAIN Levels' = heads'
  <2> HIDE DEF Levels
  <2> QED
    BY <1>1, <1>2
<1>4. Levels' = [t \in heads \cup {s} |-> IF t = s THEN chain ELSE Levels[t]]
  <2> HIDE DEF Levels
  <2> QED
    BY <1>2
<1> QED
  BY <1>3, <1>4 DEF Abstract!Holds

(* The first level of a held chain is that of its holder's strip. *)
LEMMA HeldLevel ==
  ASSUME IInv, NEW s \in heads, NEW c, Lists(s, c)
  PROVE  /\ s \in DOMAIN Levels
         /\ Levels[s] = LevelsOf(c)
         /\ DOMAIN Levels[s] = 1..Len(c)
         /\ Levels[s][1] = Level(s)
         /\ \A i \in 1..Len(c) : Levels[s][i] = Level(c[i])
<1>1. Levels = [t \in heads |-> Levels[t]] /\ Levels[s] = LevelsOf(c)
  BY IsCharted DEF Charted, LevelsListed
<1>2. s \in DOMAIN Levels
  <2> HIDE DEF Levels
  <2> QED
    BY <1>1
<1>3. DOMAIN LevelsOf(c) = 1..Len(c) /\ \A i \in 1..Len(c) : LevelsOf(c)[i] = Level(c[i])
  BY LevelsOfFacts
<1>4. Len(c) \in Nat \ {0} /\ c[1] = s
  BY ListsFacts
<1> QED
  BY <1>1, <1>2, <1>3, <1>4

LEMMA HeldIsListed ==
  ASSUME IInv, NEW s \in heads
  PROVE  /\ s \in Live /\ s \in DOMAIN Levels
         /\ \E c : Lists(s, c)
<1>1. s \in Live /\ \E c : Lists(s, c)
  BY EachIsListed DEF IInv, TypeOK, EachListed
<1> QED
  BY <1>1, HeldLevel

(* A record is counted for a local, or a local gives it up. *)
LEMMA MakeSteps ==
  ASSUME IInv, Charted', Make
  PROVE  Abstract!Make
<1>1. PICK r \in Record : link[r] = 0 /\ Gains(r)
  BY DEF Make
<1>2. Levels' = Levels
  BY SameLevels DEF Make
<1>3. r \in Record \ {x \in Record : link[x] > 0}
  BY <1>1
<1> HIDE DEF Levels
<1> QED
  BY <1>1, <1>2, <1>3 DEF Abstract!Make, Abstract!Gains, Gains

LEMMA ReleaseSteps ==
  ASSUME IInv, Charted', Release
  PROVE  Abstract!Release
<1>1. PICK r \in Record : Loses(r)
  BY DEF Release
<1>2. Levels' = Levels
  BY SameLevels DEF Release
<1> HIDE DEF Levels
<1> QED
  BY <1>1, <1>2 DEF Abstract!Release, Abstract!Loses, Loses

LEMMA FindInputSteps ==
  ASSUME IInv, Charted', FindInput
  PROVE  Abstract!FindInput
<1>1. PICK s \in heads, scope \in Scope, key \in Key :
        \E e \in Find(strips[s].inputs, scope, key) : LinkIncrease(e.value) /\ Gains(e.value)
  BY DEF FindInput
<1>2. PICK e \in Find(strips[s].inputs, scope, key) : Gains(e.value)
  BY <1>1
<1>3. Levels' = Levels
  BY SameLevels DEF FindInput
<1>4. s \in Live /\ \E c : Lists(s, c)
  BY HeldIsListed
<1>5. s \in DOMAIN Levels /\ Levels[s][1] = Level(s)
  BY <1>4, HeldLevel
<1>6. e.value \in Record
  BY <1>4 DEF Find, IInv, TypeOK, Entries
<1>7. e \in Abstract!Matches(Levels[s][1].inputs, scope, key)
  BY <1>5 DEF Level, Abstract!Matches, Find
<1> HIDE DEF Levels
<1> QED
  BY <1>2, <1>3, <1>5, <1>6, <1>7 DEF Abstract!FindInput, Abstract!Gains, Gains

LEMMA FindVariableSteps ==
  ASSUME IInv, Charted', FindVariable
  PROVE  Abstract!FindVariable
<1>1. PICK s \in heads, scope \in Scope, key \in Key : \E t \in InChain(s) :
        /\ \E e \in Find(strips[t].variables, scope, key) :
              LinkIncrease(e.value) /\ Gains(e.value)
        /\ \A u \in InChain(s) \ InChain(t) : Find(strips[u].variables, scope, key) = {}
  BY DEF FindVariable
<1>2. PICK t \in InChain(s) :
        /\ \E e \in Find(strips[t].variables, scope, key) : Gains(e.value)
        /\ \A u \in InChain(s) \ InChain(t) : Find(strips[u].variables, scope, key) = {}
  BY <1>1
<1>3. PICK e \in Find(strips[t].variables, scope, key) : Gains(e.value)
  BY <1>2
<1>4. Levels' = Levels
  BY SameLevels DEF FindVariable
<1>5. s \in Live /\ s \in DOMAIN Levels
  BY HeldIsListed
<1>6. PICK c : Lists(s, c)
  BY HeldIsListed
<1>7. PICK i \in 1..Len(c) : t = c[i]
  BY <1>6, ListsRange
<1>8. DOMAIN Levels[s] = 1..Len(c) /\ \A j \in 1..Len(c) : Levels[s][j] = Level(c[j])
  BY <1>6, HeldLevel
<1>9. t \in Live /\ e.value \in Record
  <2>1. t \in Live
    BY <1>6, <1>7, ListsFacts
  <2> QED
    BY <2>1 DEF Find, IInv, TypeOK, Entries
<1> HIDE DEF Levels
<1>10. ASSUME NEW j \in 1..Len(c)
       PROVE  Abstract!Matches(Levels[s][j].variables, scope, key) =
                Find(strips[c[j]].variables, scope, key)
  <2>1. Levels[s][j].variables = strips[c[j]].variables
    <3>1. Levels[s][j] = Level(c[j])
      BY <1>8
    <3>2. Level(c[j]).variables = strips[c[j]].variables
      BY DEF Level
    <3> QED
      BY <3>1, <3>2
  <2> QED
    BY <2>1 DEF Abstract!Matches, Find
<1>11. e \in Abstract!Matches(Levels[s][i].variables, scope, key)
  BY <1>3, <1>7, <1>10
<1>12. ASSUME NEW j \in 1..i - 1
       PROVE  Abstract!Matches(Levels[s][j].variables, scope, key) = {}
  <2>1. j \in 1..Len(c) /\ j < i
    BY <1>6, ListsFacts
  <2>2. c[j] \in InChain(s) \ InChain(t)
    BY <1>6, <1>7, <2>1, ListsBehind
  <2> QED
    BY <1>2, <1>10, <2>1, <2>2
<1>13. Abstract!Gains(e.value)
  BY <1>3 DEF Gains, Abstract!Gains
<1> QED
  BY <1>4, <1>5, <1>8, <1>9, <1>11, <1>12, <1>13 DEF Abstract!FindVariable

LEMMA CreateSteps ==
  ASSUME IInv, Charted', Create
  PROVE  Abstract!Create
<1>1. PICK s \in Strip \ Live :
        /\ strips' = [t \in Live \cup {s} |-> IF t = s THEN Empty ELSE strips[t]]
        /\ heads' = heads \cup {s}
        /\ temps' = temps
  BY DEF Create
<1>2. /\ Live' = Live \cup {s} /\ heads \subseteq Live
      /\ strips'[s] = Empty /\ \A t \in Live : strips'[t] = strips[t]
  BY <1>1 DEF Live, IInv, TypeOK
<1>3. \A t \in heads \ {s} : Levels'[t] = Levels[t]
  <2>1. \A t \in heads : InChain(t) \subseteq Live
    BY <1>2, ChainIsClosed DEF IInv
  <2> QED
    BY <1>1, <1>2, <2>1, SameChain
<1>4. Lists(s, <<s>>)'
  BY <1>2 DEF Lists, Empty
<1>5. Levels'[s] = LevelsOf(<<s>>)'
  BY <1>1, <1>4 DEF Charted, LevelsListed
<1>6. LevelsOf(<<s>>)' = <<Level(s)'>>
  BY DEF LevelsOf
<1>7. Level(s)' = Abstract!Level
  BY <1>2 DEF Level, Abstract!Level, Empty
<1>8. Abstract!Holds(s, <<Abstract!Level>>)
  BY <1>1, <1>3, <1>5, <1>6, <1>7, HoldsChain
<1>9. s \in Strip \ DOMAIN Levels
  <2>1. Levels = [t \in heads |-> Levels[t]]
    BY IsCharted DEF Charted, LevelsListed
  <2> HIDE DEF Levels
  <2> QED
    BY <1>2, <2>1
<1> HIDE DEF Levels
<1> QED
  BY <1>1, <1>8, <1>9 DEF Abstract!Create

LEMMA DestroySteps ==
  ASSUME IInv, Charted', Destroy
  PROVE  Abstract!Destroy
<1>1. PICK s \in heads : /\ strips' = [t \in Live \ InChain(s) |-> strips[t]]
                         /\ heads' = heads \ {s}
  BY DEF Destroy
<1>2. temps' = temps
  BY DEF Destroy
<1>3. /\ Live' = Live \ InChain(s)
      /\ \A t \in Live' : strips'[t] = strips[t]
  BY <1>1 DEF Live
<1>4. ASSUME NEW t \in heads \ {s} PROVE Levels'[t] = Levels[t]
  <2>1. InChain(t) \subseteq Live
    BY ChainIsClosed DEF IInv, TypeOK
  <2>2. InChain(t) \cap InChain(s) = {}
    BY OtherChains
  <2> QED
    BY <1>1, <1>3, <2>1, <2>2, SameChain
<1>5. Levels = [t \in heads |-> Levels[t]]
  BY IsCharted DEF Charted, LevelsListed
<1>6. Levels' = [t \in heads' |-> Levels'[t]]
  BY DEF Charted, LevelsListed
<1> HIDE DEF Levels
<1>7. s \in DOMAIN Levels /\ Levels' = [t \in DOMAIN Levels \ {s} |-> Levels[t]]
  BY <1>1, <1>4, <1>5, <1>6
<1> QED
  BY <1>2, <1>7 DEF Abstract!Destroy, Abstract!Drops

(* When only a holder's strip changes, the first level of its chain does. *)
LEMMA FirstLevel ==
  ASSUME IInv, Charted', NEW s \in heads, heads' = heads, Live' = Live,
         \A t \in Live : t # s => strips'[t] = strips[t],
         strips'[s].previous = strips[s].previous
  PROVE  /\ s \in DOMAIN Levels
         /\ Levels[s][1] = Level(s)
         /\ Abstract!Holds(s, [Levels[s] EXCEPT ![1] = Level(s)'])
<1>1. s \in Live
  BY HeldIsListed
<1>2. PICK c : Lists(s, c)
  BY HeldIsListed
<1>3. ASSUME NEW t \in heads \ {s} PROVE Levels'[t] = Levels[t]
  <2>1. InChain(t) \subseteq Live /\ s \in InChain(s)
    BY <1>1, ChainIsClosed DEF IInv, TypeOK
  <2>2. InChain(t) \cap InChain(s) = {}
    BY OtherChains
  <2> QED
    BY <2>1, <2>2, SameChain
<1>4. Levels'[s] = [i \in 1..Len(c) |-> Level(c[i])']
  <2>1. InChain(s) \subseteq Live
    BY <1>1, ChainIsClosed DEF IInv
  <2> QED
    BY <1>2, <2>1, LinkedChain
<1>5. /\ Levels[s] = LevelsOf(c) /\ s \in DOMAIN Levels
      /\ Levels[s][1] = Level(s)
  BY <1>2, HeldLevel
<1>6. Len(c) \in Nat \ {0} /\ c[1] = s /\ \A i \in 1..Len(c) : c[i] \in Live
  BY <1>2, ListsFacts
<1>7. \A i \in 1..Len(c) : Level(c[i])' = IF i = 1 THEN Level(s)' ELSE Level(c[i])
  <2>1. ASSUME NEW i \in 1..Len(c), i # 1 PROVE Level(c[i])' = Level(c[i])
    <3>1. c[i] # s /\ c[i] \in Live
      BY <1>2, <1>6, <2>1, ListsOnce
    <3> QED
      BY <3>1 DEF Level
  <2>2. Level(c[1])' = Level(s)'
    BY <1>6
  <2> QED
    BY <1>6, <2>1, <2>2
<1>8. Levels'[s] = [Levels[s] EXCEPT ![1] = Level(s)']
  <2> DEFINE m == Level(s)'
             chain == LevelsOf(c)
  <2>1. chain = [i \in 1..Len(c) |-> Level(c[i])]
    BY DEF LevelsOf
  <2>2. \A i \in 1..Len(c) : Level(c[i])' = IF i = 1 THEN m ELSE Level(c[i])
    BY <1>7
  <2> HIDE DEF m, chain, Levels
  <2>3. [chain EXCEPT ![1] = m] = [i \in 1..Len(c) |-> IF i = 1 THEN m ELSE Level(c[i])]
    BY <1>6, <2>1
  <2>4. Levels'[s] = [chain EXCEPT ![1] = m]
    BY <1>4, <2>2, <2>3
  <2> QED
    BY <1>5, <2>4 DEF m, chain
<1>9. heads' = heads \cup {s}
  OBVIOUS
<1>10. Abstract!Holds(s, [Levels[s] EXCEPT ![1] = Level(s)'])
  <2> HIDE DEF Levels
  <2> QED
    BY <1>3, <1>8, <1>9, HoldsChain
<1> QED
  BY <1>5, <1>10

LEMMA PushVariableSteps ==
  ASSUME IInv, Charted', PushVariable
  PROVE  Abstract!PushVariable
<1>1. PICK s \in heads, scope \in Scope, key \in Key, r \in Record :
        /\ VariableIsNew(s, scope, key)
        /\ strips' = [strips EXCEPT ![s].variables = @ \cup {Entry(scope, key, r)}]
        /\ Loses(r)
        /\ heads' = heads
  BY DEF PushVariable
<1> DEFINE e == Entry(scope, key, r)
<1>2. s \in Live /\ strips[s] \in Strips
  BY HeldIsListed DEF IInv, TypeOK, Strips, Table
<1>3. e = Abstract!Entry(scope, key, r)
  BY DEF Entry, Abstract!Entry
<1> HIDE DEF e
<1>4. /\ Live' = Live
      /\ \A t \in Live : t # s => strips'[t] = strips[t]
      /\ strips'[s].previous = strips[s].previous
      /\ strips'[s].variables = strips[s].variables \cup {e}
      /\ strips'[s].inputs = strips[s].inputs
  BY <1>1, <1>2 DEF Live, e, Strips
<1>5. /\ s \in DOMAIN Levels
      /\ Levels[s][1] = Level(s)
      /\ Abstract!Holds(s, [Levels[s] EXCEPT ![1] = Level(s)'])
  BY <1>1, <1>4, FirstLevel
<1>6. Level(s)' = [Level(s) EXCEPT !.variables = @ \cup {e}]
  BY <1>4 DEF Level
<1>7. Level(s).variables = strips[s].variables
  BY DEF Level
<1> HIDE DEF Levels
<1>8. Abstract!Holds(s, [Levels[s] EXCEPT ![1].variables = @ \cup {e}])
  BY <1>5, <1>6
<1>9. Abstract!Matches(Levels[s][1].variables, scope, key) = {}
  BY <1>1, <1>5, <1>7 DEF Abstract!Matches, VariableIsNew, Find
<1>10. Abstract!Loses(r)
  BY <1>1 DEF Loses, Abstract!Loses
<1> QED
  BY <1>3, <1>5, <1>8, <1>9, <1>10 DEF Abstract!PushVariable

LEMMA PushInputSteps ==
  ASSUME IInv, Charted', PushInput
  PROVE  Abstract!PushInput
<1>1. PICK s \in heads, scope \in Scope, key \in Key, r \in Record :
        /\ InputIsNew(s, scope, key)
        /\ strips' = [strips EXCEPT ![s].inputs = @ \cup {Entry(scope, key, r)}]
        /\ Loses(r)
        /\ heads' = heads
  BY DEF PushInput
<1> DEFINE e == Entry(scope, key, r)
<1>2. s \in Live /\ strips[s] \in Strips
  BY HeldIsListed DEF IInv, TypeOK, Strips, Table
<1>3. e = Abstract!Entry(scope, key, r)
  BY DEF Entry, Abstract!Entry
<1> HIDE DEF e
<1>4. /\ Live' = Live
      /\ \A t \in Live : t # s => strips'[t] = strips[t]
      /\ strips'[s].previous = strips[s].previous
      /\ strips'[s].variables = strips[s].variables
      /\ strips'[s].inputs = strips[s].inputs \cup {e}
  BY <1>1, <1>2 DEF Live, e, Strips
<1>5. /\ s \in DOMAIN Levels
      /\ Levels[s][1] = Level(s)
      /\ Abstract!Holds(s, [Levels[s] EXCEPT ![1] = Level(s)'])
  BY <1>1, <1>4, FirstLevel
<1>6. Level(s)' = [Level(s) EXCEPT !.inputs = @ \cup {e}]
  BY <1>4 DEF Level
<1>7. Level(s).inputs = strips[s].inputs
  BY DEF Level
<1> HIDE DEF Levels
<1>8. Abstract!Holds(s, [Levels[s] EXCEPT ![1].inputs = @ \cup {e}])
  BY <1>5, <1>6
<1>9. \A f \in Levels[s][1].inputs : f.key # key
  BY <1>1, <1>5, <1>7 DEF InputIsNew
<1>10. Abstract!Loses(r)
  BY <1>1 DEF Loses, Abstract!Loses
<1> QED
  BY <1>3, <1>5, <1>8, <1>9, <1>10 DEF Abstract!PushInput

LEMMA RemoveByScopeSteps ==
  ASSUME IInv, Charted', RemoveByScope
  PROVE  Abstract!RemoveByScope
<1>1. PICK s \in heads, scope \in Scope :
        /\ strips' = [t \in Live |->
                        IF t \in WholeChain(s)
                        THEN [strips[t] EXCEPT !.variables = {e \in @ : e.scope # scope}]
                        ELSE strips[t]]
        /\ heads' = heads
  BY DEF RemoveByScope
<1> DEFINE kept(v) == {e \in v : e.scope # scope}
<1>2. s \in Live /\ \A t \in Live : strips[t] \in Strips
  BY HeldIsListed DEF IInv, TypeOK, Strips, Table
<1>3. /\ Live' = Live
      /\ \A t \in Live \ InChain(s) : strips'[t] = strips[t]
      /\ \A t \in Live : strips'[t].previous = strips[t].previous
      /\ \A t \in Live \cap InChain(s) : /\ strips'[t].variables = kept(strips[t].variables)
                                         /\ strips'[t].inputs = strips[t].inputs
  <2>1. Live' = Live
    BY <1>1 DEF Live
  <2>2. \A t \in Live \ InChain(s) : strips'[t] = strips[t]
    BY <1>1 DEF WholeChain
  <2>3. ASSUME NEW t \in Live \cap InChain(s)
        PROVE  /\ strips'[t].previous = strips[t].previous
               /\ strips'[t].variables = kept(strips[t].variables)
               /\ strips'[t].inputs = strips[t].inputs
    BY <1>1, <1>2 DEF WholeChain, Strips
  <2> QED
    BY <2>1, <2>2, <2>3
<1>4. PICK c : Lists(s, c)
  BY HeldIsListed
<1>5. ASSUME NEW t \in heads \ {s} PROVE Levels'[t] = Levels[t]
  <2>1. InChain(t) \subseteq Live
    BY ChainIsClosed DEF IInv, TypeOK
  <2>2. InChain(t) \cap InChain(s) = {}
    BY OtherChains
  <2> QED
    BY <1>1, <1>3, <2>1, <2>2, SameChain
<1>6. Levels'[s] = [i \in 1..Len(c) |-> Level(c[i])']
  <2>1. InChain(s) \subseteq Live
    BY <1>2, ChainIsClosed DEF IInv
  <2> QED
    BY <1>1, <1>3, <1>4, <2>1, LinkedChain
<1>7. /\ Levels[s] = LevelsOf(c) /\ s \in DOMAIN Levels
      /\ DOMAIN Levels[s] = 1..Len(c) /\ \A i \in 1..Len(c) : Levels[s][i] = Level(c[i])
  BY <1>4, HeldLevel
<1>8. ASSUME NEW i \in 1..Len(c)
      PROVE  Level(c[i])' = [Level(c[i]) EXCEPT !.variables = kept(@)]
  <2> DEFINE t == c[i]
             v == kept(strips[t].variables)
  <2>1. t \in Live \cap InChain(s)
    BY <1>4, ListsRange, ListsFacts
  <2>2. strips'[t].variables = v /\ strips'[t].inputs = strips[t].inputs
    BY <1>3, <2>1
  <2>3. [Level(t) EXCEPT !.variables = kept(@)] = [Level(t) EXCEPT !.variables = v]
    BY DEF Level
  <2> HIDE DEF v, kept
  <2>4. Level(t)' = [Level(t) EXCEPT !.variables = v]
    BY <2>2 DEF Level
  <2> QED
    BY <2>3, <2>4
<1> DEFINE chain == [i \in DOMAIN Levels[s] |-> [Levels[s][i] EXCEPT !.variables = kept(@)]]
<1>9. Levels'[s] = chain
  <2> HIDE DEF Levels, kept
  <2> QED
    BY <1>6, <1>7, <1>8
<1>10. Abstract!Holds(s, chain)
  <2>1. heads' = heads \cup {s}
    BY <1>1
  <2> HIDE DEF Levels, chain
  <2> QED
    BY <1>5, <1>9, <2>1, HoldsChain
<1>11. temps' = temps
  BY DEF RemoveByScope
<1> HIDE DEF Levels
<1> QED
  BY <1>7, <1>10, <1>11 DEF Abstract!RemoveByScope

(* The attached chain's sequence goes on where the other ends. *)
LEMMA AttachSteps ==
  ASSUME IInv, Charted', Attach
  PROVE  Abstract!Attach
<1>1. PICK s, p \in heads :
        /\ s # p
        /\ strips' = [strips EXCEPT ![LastInChain(s)].previous = p]
        /\ heads' = heads \ {p}
  BY DEF Attach
<1>2. s \in Live /\ p \in Live /\ \A t \in Live : strips[t] \in Strips
  BY HeldIsListed DEF IInv, TypeOK, Strips, Table
<1>3. PICK c : Lists(s, c)
  BY HeldIsListed
<1>4. PICK d : Lists(p, d)
  BY HeldIsListed
<1>5. /\ Len(c) \in Nat \ {0} /\ \A i \in 1..Len(c) : c[i] \in Live
      /\ \A i \in 1..Len(c) : i # Len(c) => strips[c[i]].previous = c[i + 1]
      /\ c[1] = s
  BY <1>3, ListsFacts
<1>6. /\ Len(d) \in Nat \ {0} /\ \A i \in 1..Len(d) : d[i] \in Live
      /\ \A i \in 1..Len(d) : i # Len(d) => strips[d[i]].previous = d[i + 1]
      /\ strips[d[Len(d)]].previous = NULL
      /\ d[1] = p
  BY <1>4, ListsFacts
<1>7. LastInChain(s) = c[Len(c)]
  <2>1. LastInChain(s) \in InChain(s) /\ strips[LastInChain(s)].previous = NULL
    BY ChainEnds DEF IInv
  <2>2. PICK i \in 1..Len(c) : LastInChain(s) = c[i]
    BY <1>3, <2>1, ListsRange
  <2>3. i # Len(c) => strips[c[i]].previous \in Live /\ NULL \notin Live
    BY <1>5, MemoryAssumption DEF IInv, TypeOK
  <2> QED
    BY <2>1, <2>2, <2>3
<1> DEFINE last == c[Len(c)]
<1>8. strips' = [strips EXCEPT ![last].previous = p]
  BY <1>1, <1>7
<1>9. last \in Live
  BY <1>5
<1> HIDE DEF last
<1>10. /\ Live' = Live
       /\ strips'[last].previous = p
       /\ \A t \in Live : t # last => strips'[t] = strips[t]
       /\ \A t \in Live : Level(t)' = Level(t)
  <2>1. Live' = Live /\ \A t \in Live : t # last => strips'[t] = strips[t]
    BY <1>8 DEF Live
  <2>2. /\ strips'[last].previous = p
        /\ strips'[last].variables = strips[last].variables
        /\ strips'[last].inputs = strips[last].inputs
    BY <1>2, <1>8, <1>9 DEF Live, Strips
  <2>3. Level(last)' = Level(last)
    BY <2>2 DEF Level
  <2>4. ASSUME NEW t \in Live, t # last PROVE Level(t)' = Level(t)
    BY <2>1, <2>4 DEF Level
  <2> QED
    BY <2>1, <2>2, <2>3, <2>4
<1>11. ASSUME NEW i \in 1..Len(c), i # Len(c) PROVE strips'[c[i]].previous = c[i + 1]
  <2>1. c[i] # last
    <3>1. Len(c) \in 1..Len(c)
      BY <1>5
    <3> QED
      BY <1>3, <1>11, <3>1, ListsOnce DEF last
  <2> QED
    BY <1>5, <1>10, <1>11, <2>1
<1>12. ASSUME NEW i \in 1..Len(d)
       PROVE  strips'[d[i]].previous = IF i = Len(d) THEN NULL ELSE d[i + 1]
  <2>1. d[i] \in InChain(p)
    BY <1>4, ListsRange
  <2>2. last \in InChain(s)
    <3>1. Len(c) \in 1..Len(c)
      BY <1>5
    <3> QED
      BY <1>3, <3>1, ListsRange DEF last
  <2>3. d[i] # last
    BY <1>1, <2>1, <2>2, OtherChains
  <2> QED
    BY <1>6, <1>10, <2>3
<1> DEFINE e == c \o d
<1>13. c \in Seq(Live) /\ d \in Seq(Live)
  BY <1>3, <1>4 DEF Lists
<1>14. /\ e \in Seq(Live) /\ Len(e) = Len(c) + Len(d)
       /\ \A i \in 1..(Len(c) + Len(d)) : e[i] = IF i <= Len(c) THEN c[i] ELSE d[i - Len(c)]
  BY ONLY <1>13, ConcatProperties
<1> HIDE DEF e
<1>15. ASSUME NEW i \in 1..Len(e)
       PROVE  strips'[e[i]].previous = IF i = Len(e) THEN NULL ELSE e[i + 1]
  <2>1. CASE i < Len(c)
    <3>1. /\ i \in 1..Len(c) /\ i # Len(c) /\ i \in 1..(Len(c) + Len(d)) /\ i <= Len(c)
          /\ i + 1 \in 1..(Len(c) + Len(d)) /\ i + 1 <= Len(c) /\ i # Len(e)
      BY ONLY <1>5, <1>6, <1>14, <2>1, i \in 1..Len(e)
    <3>2. e[i] = c[i] /\ e[i + 1] = c[i + 1]
      BY ONLY <1>14, <3>1
    <3> QED
      BY <1>11, <3>1, <3>2
  <2>2. CASE i = Len(c)
    <3>1. /\ i \in 1..(Len(c) + Len(d)) /\ i <= Len(c)
          /\ i + 1 \in 1..(Len(c) + Len(d)) /\ ~(i + 1 <= Len(c)) /\ i + 1 - Len(c) = 1
          /\ i # Len(e)
      BY ONLY <1>5, <1>6, <1>14, <2>2, i \in 1..Len(e)
    <3>2. e[i] = c[i] /\ e[i + 1] = d[1]
      BY ONLY <1>14, <3>1
    <3>3. strips'[c[i]].previous = p
      BY <1>10, <2>2 DEF last
    <3> QED
      BY <1>6, <3>1, <3>2, <3>3
  <2>3. CASE i > Len(c)
    <3> DEFINE j == i - Len(c)
    <3>1. /\ i \in 1..(Len(c) + Len(d)) /\ ~(i <= Len(c)) /\ j \in 1..Len(d)
          /\ (i = Len(e) <=> j = Len(d))
          /\ i # Len(e) => /\ i + 1 \in 1..(Len(c) + Len(d)) /\ ~(i + 1 <= Len(c))
                           /\ i + 1 - Len(c) = j + 1
      <4>1. /\ Len(c) \in Nat /\ Len(d) \in Nat /\ Len(e) = Len(c) + Len(d)
            /\ i \in Int /\ i > Len(c) /\ i <= Len(e)
        BY ONLY <1>5, <1>6, <1>14, <2>3, i \in 1..Len(e)
      <4> QED
        BY ONLY <4>1
    <3>2. e[i] = d[j] /\ (i # Len(e) => e[i + 1] = d[j + 1])
      BY ONLY <1>14, <3>1
    <3> HIDE DEF j
    <3> QED
      BY <1>12, <3>1, <3>2
  <2>4. i < Len(c) \/ i = Len(c) \/ i > Len(c)
    BY ONLY <1>5, <1>6, <1>14, i \in 1..Len(e)
  <2> QED
    BY <2>1, <2>2, <2>3, <2>4
<1>16. Lists(s, e)'
  <2>1. /\ 1 \in 1..(Len(c) + Len(d)) /\ 1 <= Len(c) /\ Len(e) # 0
    BY <1>5, <1>6, <1>14
  <2>2. e[1] = s /\ e # <<>>
    BY <1>5, <1>14, <2>1
  <2> QED
    BY <1>10, <1>14, <1>15, <2>2 DEF Lists
<1>17. Levels'[s] = LevelsOf(e)'
  BY <1>1, <1>16 DEF Charted, LevelsListed
<1> DEFINE S == {Level(t) : t \in Live}
           lc == LevelsOf(c)
           ld == LevelsOf(d)
           le == [i \in 1..Len(e) |-> Level(e[i])]
<1>18. LevelsOf(e)' = le
  <2>1. LevelsOf(e)' = [i \in 1..Len(e) |-> Level(e[i])']
    BY DEF LevelsOf
  <2>2. \A i \in 1..Len(e) : e[i] \in Live
    BY <1>14, ElementOfSeq
  <2> QED
    BY <1>10, <2>1, <2>2
<1>19. /\ lc \in Seq(S) /\ Len(lc) = Len(c) /\ \A i \in 1..Len(c) : lc[i] = Level(c[i])
       /\ ld \in Seq(S) /\ Len(ld) = Len(d) /\ \A i \in 1..Len(d) : ld[i] = Level(d[i])
  BY <1>3, <1>4, LevelsOfFacts
<1>20. /\ le \in Seq(S) /\ Len(le) = Len(e) /\ \A i \in 1..Len(e) : le[i] = Level(e[i])
  <2>1. Len(e) \in Nat /\ \A i \in 1..Len(e) : e[i] \in Live
    BY <1>14, ElementOfSeq, LenProperties
  <2>2. le \in [1..Len(e) -> S]
    BY <2>1
  <2>3. DOMAIN le = 1..Len(e) /\ \A i \in 1..Len(e) : le[i] = Level(e[i])
    OBVIOUS
  <2> HIDE DEF le, S
  <2>4. le \in Seq(S)
    BY <2>1, <2>2, SeqDef
  <2> QED
    BY <2>1, <2>3, <2>4, LenProperties
<1> HIDE DEF S, lc, ld, le
<1>21. /\ lc \o ld \in Seq(S) /\ Len(lc \o ld) = Len(lc) + Len(ld)
       /\ \A i \in 1..(Len(lc) + Len(ld)) :
             (lc \o ld)[i] = IF i <= Len(lc) THEN lc[i] ELSE ld[i - Len(lc)]
  <2>1. lc \in Seq(S) /\ ld \in Seq(S)
    BY <1>19
  <2> QED
    BY ONLY <2>1, ConcatProperties
<1>22. le = lc \o ld
  <2>1. ASSUME NEW i \in 1..Len(le) PROVE le[i] = (lc \o ld)[i]
    <3>1. CASE i <= Len(c)
      <4>1. /\ i \in 1..Len(c) /\ i \in 1..(Len(c) + Len(d)) /\ i \in 1..Len(e)
            /\ i \in 1..(Len(lc) + Len(ld)) /\ i <= Len(lc)
        BY ONLY <1>5, <1>6, <1>14, <1>19, <1>20, <3>1, i \in 1..Len(le)
      <4>2. e[i] = c[i] /\ (lc \o ld)[i] = lc[i]
        BY ONLY <1>14, <1>21, <3>1, <4>1
      <4> QED
        BY <1>19, <1>20, <4>1, <4>2
    <3>2. CASE ~(i <= Len(c))
      <4>1. /\ i - Len(c) \in 1..Len(d) /\ i \in 1..(Len(c) + Len(d)) /\ i \in 1..Len(e)
            /\ i \in 1..(Len(lc) + Len(ld)) /\ ~(i <= Len(lc)) /\ i - Len(lc) = i - Len(c)
        BY ONLY <1>5, <1>6, <1>14, <1>19, <1>20, <3>2, i \in 1..Len(le)
      <4>2. e[i] = d[i - Len(c)] /\ (lc \o ld)[i] = ld[i - Len(c)]
        BY ONLY <1>14, <1>21, <3>2, <4>1
      <4> QED
        BY <1>19, <1>20, <4>1, <4>2
    <3> QED
      BY <3>1, <3>2
  <2>2. Len(le) = Len(lc \o ld)
    BY <1>14, <1>19, <1>20, <1>21
  <2> QED
    BY ONLY <1>20, <1>21, <2>1, <2>2, SeqEqual
<1>23. s \in DOMAIN Levels /\ p \in DOMAIN Levels /\ Levels[s] = lc /\ Levels[p] = ld
  BY <1>3, <1>4, HeldLevel DEF lc, ld
<1>24. ASSUME NEW t \in heads \ {s, p} PROVE Levels'[t] = Levels[t]
  <2>1. InChain(t) \subseteq Live /\ InChain(t) \cap InChain(s) = {} /\ last \in InChain(s)
    <3>1. Len(c) \in 1..Len(c)
      BY <1>5
    <3>2. last \in InChain(s)
      BY <1>3, <3>1, ListsRange DEF last
    <3>3. InChain(t) \subseteq Live
      BY ChainIsClosed DEF IInv, TypeOK
    <3> QED
      BY <3>2, <3>3, OtherChains
  <2> QED
    BY <1>1, <1>10, <2>1, SameChain
<1>25. Levels = [t \in heads |-> Levels[t]]
  BY IsCharted DEF Charted, LevelsListed
<1>26. Levels' = [t \in heads' |-> Levels'[t]]
  BY DEF Charted, LevelsListed
<1>27. temps' = temps
  BY DEF Attach
<1> HIDE DEF Levels
<1>28. Levels'[s] = Levels[s] \o Levels[p]
  BY <1>17, <1>18, <1>22, <1>23
<1>29. Levels' = [t \in DOMAIN Levels \ {p} |-> IF t = s THEN Levels[s] \o Levels[p] ELSE Levels[t]]
  BY <1>1, <1>24, <1>25, <1>26, <1>28
<1> QED
  BY <1>1, <1>23, <1>27, <1>29 DEF Abstract!Attach

(* The new strips are listed as the copied ones are. *)
LEMMA CopySteps ==
  ASSUME IInv, Charted', Copy
  PROVE  Abstract!Copy
<1>1. PICK s \in heads : \E new \in [InChain(s) -> Strip \ Live] : CopyAs(s, new)
  BY DEF Copy
<1>2. PICK new \in [InChain(s) -> Strip \ Live] : CopyStep(s, new)
  BY <1>1, CopyFacts
<1>3. /\ s \in InChain(s) /\ heads \subseteq Live
      /\ Live \subseteq Live' /\ \A t \in InChain(s) : new[t] \in Live'
      /\ \A t \in Live : strips'[t] = strips[t]
      /\ heads' = heads \cup {new[s]}
      /\ new[s] \in Strip \ Live
  <2>1. s \in InChain(s) /\ heads \subseteq Live
    BY ChainIsClosed DEF IInv, TypeOK
  <2> QED
    BY <1>2, <2>1 DEF CopyStep
<1>4. \A t \in InChain(s) :
        /\ strips'[new[t]].previous = IF strips[t].previous = NULL THEN NULL
                                      ELSE new[strips[t].previous]
        /\ strips'[new[t]].variables = strips[t].variables
        /\ strips'[new[t]].inputs = {}
  BY <1>2 DEF CopyStep
<1>5. PICK c : Lists(s, c)
  BY HeldIsListed
<1>6. /\ Len(c) \in Nat \ {0} /\ \A i \in 1..Len(c) : c[i] \in Live /\ c[i] \in InChain(s)
      /\ \A i \in 1..Len(c) : i # Len(c) => strips[c[i]].previous = c[i + 1]
      /\ strips[c[Len(c)]].previous = NULL
      /\ c[1] = s /\ NULL \notin Live
  <2>1. NULL \notin Live
    BY MemoryAssumption DEF IInv, TypeOK
  <2> QED
    BY <1>5, <2>1, ListsFacts, ListsRange
<1> DEFINE e == [i \in 1..Len(c) |-> new[c[i]]]
<1>7. e \in [1..Len(c) -> Live'] /\ DOMAIN e = 1..Len(c) /\ \A i \in 1..Len(c) : e[i] = new[c[i]]
  BY <1>3, <1>6
<1> HIDE DEF e
<1>8. e \in Seq(Live') /\ Len(e) = Len(c)
  <2>1. e \in Seq(Live')
    BY <1>6, <1>7, SeqDef
  <2> QED
    BY <1>6, <1>7, <2>1, LenProperties
<1>9. ASSUME NEW i \in 1..Len(c)
      PROVE  strips'[e[i]].previous = IF i = Len(c) THEN NULL ELSE e[i + 1]
  <2>1. i # Len(c) => i + 1 \in 1..Len(c)
    BY <1>6
  <2>2. strips'[e[i]].previous = IF strips[c[i]].previous = NULL THEN NULL
                                 ELSE new[strips[c[i]].previous]
    BY <1>4, <1>6, <1>7
  <2>3. CASE i = Len(c)
    BY <1>6, <2>2, <2>3
  <2>4. CASE i # Len(c)
    <3>1. strips[c[i]].previous = c[i + 1] /\ c[i + 1] # NULL
      BY <1>6, <2>1, <2>4
    <3> QED
      BY <1>7, <2>1, <2>2, <2>4, <3>1
  <2> QED
    BY <2>3, <2>4
<1>10. Lists(new[s], e)'
  <2>1. e # <<>> /\ e[1] = new[s]
    <3>1. 1 \in 1..Len(c) /\ Len(e) # 0
      BY <1>6, <1>8
    <3> QED
      BY <1>6, <1>7, <3>1
  <2> QED
    BY <1>8, <1>9, <2>1 DEF Lists
<1>11. Levels'[new[s]] = LevelsOf(e)'
  BY <1>3, <1>10 DEF Charted, LevelsListed
<1>12. LevelsOf(e)' = [i \in 1..Len(c) |-> Level(new[c[i]])']
  <2>1. LevelsOf(e)' = [i \in 1..Len(e) |-> Level(e[i])']
    BY DEF LevelsOf
  <2> QED
    BY <1>7, <1>8, <2>1
<1>13. /\ Levels[s] = LevelsOf(c) /\ s \in DOMAIN Levels
       /\ DOMAIN Levels[s] = 1..Len(c) /\ \A i \in 1..Len(c) : Levels[s][i] = Level(c[i])
  BY <1>5, HeldLevel
<1>14. \A i \in 1..Len(c) : Level(new[c[i]])' = [Level(c[i]) EXCEPT !.inputs = {}]
  <2> SUFFICES ASSUME NEW i \in 1..Len(c)
               PROVE  Level(new[c[i]])' = [Level(c[i]) EXCEPT !.inputs = {}]
    OBVIOUS
  <2> DEFINE t == c[i]
             n == new[t]
             none == {}
  <2>1. strips'[n].variables = strips[t].variables /\ strips'[n].inputs = none
    BY <1>4, <1>6
  <2> HIDE DEF t, n, none
  <2>2. Level(n)' = [Level(t) EXCEPT !.inputs = none]
    BY <2>1 DEF Level
  <2> QED
    BY <2>2 DEF n, t, none
<1>15. \A t \in heads \ {new[s]} : Levels'[t] = Levels[t]
  <2>1. \A t \in heads : InChain(t) \subseteq Live
    BY <1>3, ChainIsClosed DEF IInv
  <2> QED
    BY <1>3, <2>1, SameChain
<1>16. new[s] \in Strip \ DOMAIN Levels
  <2>1. Levels = [t \in heads |-> Levels[t]]
    BY IsCharted DEF Charted, LevelsListed
  <2> HIDE DEF Levels
  <2> QED
    BY <1>3, <2>1
<1>17. temps' = temps
  BY DEF Copy
<1> HIDE DEF Levels
<1> DEFINE chain == [i \in DOMAIN Levels[s] |-> [Levels[s][i] EXCEPT !.inputs = {}]]
<1>18. Levels'[new[s]] = chain
  BY <1>11, <1>12, <1>13, <1>14
<1>19. Abstract!Holds(new[s], chain)
  <2> HIDE DEF chain
  <2> QED
    BY <1>3, <1>15, <1>18, HoldsChain
<1> QED
  BY <1>13, <1>16, <1>17, <1>19 DEF Abstract!Copy

-----------------------------------------------------------------------------
(* A step of the linked strips is a step of the chains, or changes nothing of them. *)
LEMMA Simulation ==
  ASSUME IInv, Charted', [Next]_vars
  PROVE  [Abstract!Next]_(Abstract!vars)
<1>1. CASE Next
  <2>1. \/ Abstract!Make \/ Abstract!Release \/ Abstract!Create \/ Abstract!PushVariable
        \/ Abstract!PushInput \/ Abstract!FindVariable \/ Abstract!FindInput
        \/ Abstract!RemoveByScope \/ Abstract!Attach \/ Abstract!Copy \/ Abstract!Destroy
    BY <1>1, MakeSteps, ReleaseSteps, CreateSteps, PushVariableSteps, PushInputSteps,
       FindVariableSteps, FindInputSteps, RemoveByScopeSteps, AttachSteps, CopySteps,
       DestroySteps DEF Next
  <2>2. {r \in Record : link'[r] > 0} = Abstract!Referenced'
    BY DEF Charted, AliveReferred, Alive
  <2> QED
    BY <2>1, <2>2 DEF Abstract!Next
<1>2. CASE UNCHANGED vars
  <2>1. Levels' = Levels
    BY <1>2, SameLevels DEF vars
  <2> HIDE DEF Levels
  <2> QED
    BY <1>2, <2>1 DEF vars, Abstract!vars
<1> QED
  BY <1>1, <1>2

LEMMA StartsEmpty == Init => Abstract!Init
<1> SUFFICES ASSUME Init PROVE Abstract!Init
  OBVIOUS
<1>1. Levels = <<>>
  <2>1. Levels = [s \in heads |-> Levels[s]]
    BY InvInit, IsCharted DEF Charted, LevelsListed
  <2> HIDE DEF Levels
  <2> QED
    BY <2>1 DEF Init
<1>2. {r \in Record : link[r] > 0} = {}
  BY DEF Init
<1> HIDE DEF Levels
<1> QED
  BY <1>1, <1>2 DEF Init, Abstract!Init

(* Linked strips with counted records implement chains that are values of their own:
   every operation does to the chain of its holder, and to no other, what StripSpec
   says (all of strip.c). *)
THEOREM Implements == Spec => ImplementsEnvironments
BY InvInit, InvNext, IsCharted, Simulation, StartsEmpty, PTL
   DEF Spec, ImplementsEnvironments, Abstract!Spec
=============================================================================
