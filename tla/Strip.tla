------------------------------- MODULE Strip -------------------------------
(***************************************************************************)
(* Activation records (interpreter/strip.c) and the reference counts of    *)
(* the records they hold (not_record_link_increase and _decrease).         *)
(*                                                                         *)
(* A strip points to the strip behind it (previous), which is the copy of  *)
(* another activation's; a C function or a type record holds the first of  *)
(* a chain.  A reference to a record is owned by an entry of a strip or by *)
(* a local of a C function; pushing an entry hands a local's reference     *)
(* over.  The actions are the operations of strip.c, in any order in which *)
(* callers own what they pass: only the holder of a chain passes it, and   *)
(* only an owned reference is pushed or released.                          *)
(***************************************************************************)
EXTENDS Integers, Sequences, FiniteSets

CONSTANTS Record,    \* the memory for records
          Strip,     \* the memory for strips
          Scope,     \* the nodes that open a scope
          Key,       \* the names
          NULL,
          MaxTemps   \* bound: references to one record among C locals

\* Memory is finite, and so is a program.
ASSUME MemoryAssumption ==
  /\ IsFiniteSet(Record) /\ IsFiniteSet(Strip) /\ IsFiniteSet(Scope) /\ IsFiniteSet(Key)
  /\ NULL \notin Strip
  /\ MaxTemps \in Nat

VARIABLES link,      \* record->link; 0 when the record is not allocated
          temps,     \* for each record, how many C locals own a reference to it
          strips,    \* the allocated strips
          heads      \* the strips a C local or a type record holds

vars == <<link, temps, strips, heads>>

Live == DOMAIN strips
Entry(scope, key, r) == [scope |-> scope, key |-> key, value |-> r]
Find(table, scope, key) == {e \in table : e.scope = scope /\ e.key = key}

\* The strips of a chain: those one comes to from s by going to what is behind.
GoesBack(ss) == \A t \in ss : strips[t].previous \in ss \cup {NULL}
InChain(s) == LET backward == {ss \in SUBSET Live : s \in ss /\ GoesBack(ss)}
              IN  {t \in Live : \A ss \in backward : t \in ss}

\* The entries of some strips, each with its strip, that hold record r.
Entries == [scope : Scope, key : Key, value : Record]
VariablesWith(ss, r) ==
  {p \in ss \X Entries : p[2] \in strips[p[1]].variables /\ p[2].value = r}
InputsWith(ss, r) ==
  {p \in ss \X Entries : p[2] \in strips[p[1]].inputs /\ p[2].value = r}
VariableUses(ss, r) == Cardinality(VariablesWith(ss, r))
InputUses(ss, r) == Cardinality(InputsWith(ss, r))

Init == /\ link = [r \in Record |-> 0]
        /\ temps = [r \in Record |-> 0]
        /\ strips = <<>>
        /\ heads = {}

-----------------------------------------------------------------------------
\* The parts of the operations that the properties turn on.  Before some comes a
\* wrong form of it that a property excludes; only the second form is used.

\* A C local gains a reference that some operation counted, or gives one up.
Gains(r) == temps[r] < MaxTemps /\ temps' = [temps EXCEPT ![r] = @ + 1]
LosesUnowned(r) == temps' = [temps EXCEPT ![r] = @ - 1]
Loses(r) == temps[r] > 0 /\ temps' = [temps EXCEPT ![r] = @ - 1]

\* not_record_link_increase
LinkIncrease(r) == link' = [link EXCEPT ![r] = @ + 1]

\* A push is refused when the strip itself has the name: a variable in the same
\* scope, an input in any.
VariableIsNew(s, scope, key) == Find(strips[s].variables, scope, key) = {}
InputIsNewInScope(s, scope, key) == Find(strips[s].inputs, scope, key) = {}
InputIsNew(s, scope, key) == \A e \in strips[s].inputs : e.key # key

\* The strips that lose the variables of a scope.
OwnStrip(s) == {s}
WholeChain(s) == InChain(s)

\* The strip another chain is attached behind.
First(s) == s
LastInChain(s) == CHOOSE t \in InChain(s) : strips[t].previous = NULL

\* The counts after a copy: its entries own what they refer to.
BorrowedLinks(s) == link
CopiedLinks(s) == [r \in Record |-> link[r] + VariableUses(InChain(s), r)]

\* not_record_create
Make == \E r \in Record : /\ link[r] = 0
                          /\ LinkIncrease(r)
                          /\ Gains(r)
                          /\ UNCHANGED <<strips, heads>>

\* not_record_link_decrease of a local's reference.  At 0 the record is destroyed.
Release == \E r \in Record : /\ Loses(r)
                             /\ link' = [link EXCEPT ![r] = @ - 1]
                             /\ UNCHANGED <<strips, heads>>

\* not_strip_create
Empty == [previous |-> NULL, variables |-> {}, inputs |-> {}]
Create == \E s \in Strip \ Live :
            /\ strips' = [t \in Live \cup {s} |-> IF t = s THEN Empty ELSE strips[t]]
            /\ heads' = heads \cup {s}
            /\ UNCHANGED <<link, temps>>

\* not_strip_variable_push when it does not refuse: the strip alone is searched.
\* A refused push changes nothing: the caller keeps its reference.
PushVariable ==
  \E s \in heads, scope \in Scope, key \in Key, r \in Record :
    /\ VariableIsNew(s, scope, key)
    /\ strips' = [strips EXCEPT ![s].variables = @ \cup {Entry(scope, key, r)}]
    /\ Loses(r)
    /\ UNCHANGED <<link, heads>>

\* not_strip_input_push when it does not refuse.
PushInput ==
  \E s \in heads, scope \in Scope, key \in Key, r \in Record :
    /\ InputIsNew(s, scope, key)
    /\ strips' = [strips EXCEPT ![s].inputs = @ \cup {Entry(scope, key, r)}]
    /\ Loses(r)
    /\ UNCHANGED <<link, heads>>

\* not_strip_variable_find: the strip, then the ones behind it.
FindVariable ==
  \E s \in heads, scope \in Scope, key \in Key : \E t \in InChain(s) :
    /\ \E e \in Find(strips[t].variables, scope, key) :
          LinkIncrease(e.value) /\ Gains(e.value)
    /\ \A u \in InChain(s) \ InChain(t) : Find(strips[u].variables, scope, key) = {}
    /\ UNCHANGED <<strips, heads>>

\* not_strip_input_find: the strip alone.
FindInput ==
  \E s \in heads, scope \in Scope, key \in Key :
    /\ \E e \in Find(strips[s].inputs, scope, key) : LinkIncrease(e.value) /\ Gains(e.value)
    /\ UNCHANGED <<strips, heads>>

\* not_strip_variable_remove_by_scope: the whole chain.
RemoveByScope ==
  \E s \in heads, scope \in Scope :
    /\ strips' = [t \in Live |->
                    IF t \in WholeChain(s)
                    THEN [strips[t] EXCEPT !.variables = {e \in @ : e.scope # scope}]
                    ELSE strips[t]]
    /\ link' = [r \in Record |->
                  link[r] - Cardinality({p \in VariablesWith(WholeChain(s), r) : p[2].scope = scope})]
    /\ UNCHANGED <<temps, heads>>

\* not_strip_attach: behind the last strip of the chain.
Attach ==
  \E s, previous \in heads :
    /\ s # previous
    /\ strips' = [strips EXCEPT ![LastInChain(s)].previous = previous]
    /\ heads' = heads \ {previous}
    /\ UNCHANGED <<link, temps>>

\* not_strip_copy: new strips for the whole chain, with the same variables, whose
\* records gain an owner, and no inputs.
CopyAs(s, new) ==
  LET chain == InChain(s)
      copies == {new[t] : t \in chain}
      copied(c) == CHOOSE t \in chain : new[t] = c
      behind(t) == IF strips[t].previous = NULL THEN NULL ELSE new[strips[t].previous]
  IN  /\ \A t, u \in chain : new[t] = new[u] => t = u
      /\ strips' = [c \in Live \cup copies |->
                      IF c \in Live THEN strips[c]
                      ELSE [previous |-> behind(copied(c)),
                            variables |-> strips[copied(c)].variables,
                            inputs |-> {}]]
      /\ heads' = heads \cup {new[s]}
      /\ link' = CopiedLinks(s)
Copy == /\ \E s \in heads : \E new \in [InChain(s) -> Strip \ Live] : CopyAs(s, new)
        /\ UNCHANGED temps

\* not_strip_destroy: the whole chain, its variables and its inputs.
Destroy ==
  \E s \in heads :
    /\ strips' = [t \in Live \ InChain(s) |-> strips[t]]
    /\ heads' = heads \ {s}
    /\ link' = [r \in Record |->
                  link[r] - (VariableUses(InChain(s), r) + InputUses(InChain(s), r))]
    /\ UNCHANGED temps

Next == \/ Make \/ Release \/ Create \/ PushVariable \/ PushInput \/ FindVariable
        \/ FindInput \/ RemoveByScope \/ Attach \/ Copy \/ Destroy

Spec == Init /\ [][Next]_vars

-----------------------------------------------------------------------------
(* The types of the variables. *)
TypeOK ==
  /\ link \in [Record -> Nat]
  /\ temps \in [Record -> 0..MaxTemps]
  /\ Live \subseteq Strip
  /\ \A s \in Live : strips[s] \in
        [previous : Strip \cup {NULL}, variables : SUBSET Entries, inputs : SUBSET Entries]
  /\ heads \subseteq Live

(* Chains never share a strip, a strip behind another is allocated, and every strip
   belongs to a held chain: destroying a chain frees each of its strips once and
   leaves none behind and no pointer to it. *)
ChainsDisjoint ==
  /\ \A s \in Live : strips[s].previous # NULL => strips[s].previous \in Live \ heads
  /\ \A s, t \in Live : strips[s].previous = strips[t].previous =>
                           s = t \/ strips[s].previous = NULL
  /\ \A s \in Live : \E h \in heads : s \in InChain(h)

(* A record is counted once for every entry and every local that refers to it, so it
   is destroyed when the last of them goes, not before (an entry would dangle) and not
   later (it would leak), whatever copies of chains were made and destroyed. *)
LinksCountOwners ==
  \A r \in Record : link[r] = temps[r] + VariableUses(Live, r) + InputUses(Live, r)

(* Within a strip a scope declares a name once, and an input has its name for itself. *)
NamesUnique ==
  \A s \in Live :
    /\ \A e, f \in strips[s].variables : e.scope = f.scope /\ e.key = f.key => e = f
    /\ \A e, f \in strips[s].inputs : e.key = f.key => e = f

-----------------------------------------------------------------------------
\* The levels of the chains as sequences, a strip's own level first.
Level(s) == [variables |-> strips[s].variables, inputs |-> strips[s].inputs]
Levels == LET levels[s \in Live] ==
                IF strips[s].previous = NULL THEN <<Level(s)>>
                ELSE <<Level(s)>> \o levels[strips[s].previous]
          IN  [s \in heads |-> levels[s]]

Abstract == INSTANCE StripSpec WITH
  env <- Levels,
  alive <- {r \in Record : link[r] > 0}

(* Linked strips with counted records implement chains that are values: each
   operation changes the chain of its holder only, a lookup finds the innermost
   declaration, and the records with a positive count are those referred to. *)
ImplementsEnvironments == Abstract!Spec
=============================================================================
