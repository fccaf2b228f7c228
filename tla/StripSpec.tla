----------------------------- MODULE StripSpec -----------------------------
(***************************************************************************)
(* What the activation records of interpreter/strip.c promise, without     *)
(* pointers or reference counts.  A holder (a C function or a type record) *)
(* owns a chain of levels, its own level first; every chain is a value of  *)
(* its own, so that what one holder does to its chain no other sees; and a *)
(* record is alive exactly as long as something refers to it.              *)
(***************************************************************************)
EXTENDS Naturals, Sequences, Functions

CONSTANTS Record, Strip, Scope, Key,
          MaxTemps   \* bound: references to one record among C locals

VARIABLES env,    \* the chains by the strip their holder has: innermost level first
          temps,  \* for each record, how many C locals own a reference to it
          alive   \* the records that have not been destroyed

vars == <<env, temps, alive>>

Level == [variables |-> {}, inputs |-> {}]
Entry(scope, key, r) == [scope |-> scope, key |-> key, value |-> r]
Matches(table, scope, key) == {e \in table : e.scope = scope /\ e.key = key}

Refers(level, r) == \E e \in level.variables \cup level.inputs : e.value = r
Referenced == LET levels == UNION {Range(env[s]) : s \in DOMAIN env}
              IN  {r \in Record : temps[r] > 0 \/ \E level \in levels : Refers(level, r)}

Init == env = <<>> /\ temps = [r \in Record |-> 0] /\ alive = {}

Gains(r) == temps[r] < MaxTemps /\ temps' = [temps EXCEPT ![r] = @ + 1]
Loses(r) == temps[r] > 0 /\ temps' = [temps EXCEPT ![r] = @ - 1]

\* A chain appears under a new head, or changes under its head.
Holds(s, chain) == /\ DOMAIN env' = DOMAIN env \cup {s}
                   /\ env' = [t \in DOMAIN env \cup {s} |-> IF t = s THEN chain ELSE env[t]]
Drops(s) == [t \in DOMAIN env \ {s} |-> env[t]]

Make == \E r \in Record \ alive : Gains(r) /\ UNCHANGED env
Release == \E r \in Record : Loses(r) /\ UNCHANGED env

Create == /\ UNCHANGED temps
          /\ \E s \in Strip \ DOMAIN env : Holds(s, <<Level>>)

\* A variable is declared at most once in a scope, an input once under its key.
PushVariable ==
  \E r \in Record :
    /\ Loses(r)
    /\ \E s \in DOMAIN env, scope \in Scope, key \in Key :
          /\ Matches(env[s][1].variables, scope, key) = {}
          /\ Holds(s, [env[s] EXCEPT ![1].variables = @ \cup {Entry(scope, key, r)}])

PushInput ==
  \E r \in Record :
    /\ Loses(r)
    /\ \E s \in DOMAIN env, scope \in Scope, key \in Key :
          /\ \A e \in env[s][1].inputs : e.key # key
          /\ Holds(s, [env[s] EXCEPT ![1].inputs = @ \cup {Entry(scope, key, r)}])

\* A variable is looked for from the innermost level outwards.
FindVariable ==
  \E r \in Record :
    /\ Gains(r)
    /\ \E s \in DOMAIN env, scope \in Scope, key \in Key : \E i \in DOMAIN env[s] :
          /\ \A j \in 1..i - 1 : Matches(env[s][j].variables, scope, key) = {}
          /\ \E e \in Matches(env[s][i].variables, scope, key) : e.value = r
    /\ UNCHANGED env

FindInput ==
  \E r \in Record :
    /\ Gains(r)
    /\ \E s \in DOMAIN env, scope \in Scope, key \in Key :
          \E e \in Matches(env[s][1].inputs, scope, key) : e.value = r
    /\ UNCHANGED env

RemoveByScope ==
  /\ UNCHANGED temps
  /\ \E s \in DOMAIN env, scope \in Scope :
       Holds(s, [i \in DOMAIN env[s] |->
               [env[s][i] EXCEPT !.variables = {e \in @ : e.scope # scope}]])

Attach ==
  /\ UNCHANGED temps
  /\ \E s, p \in DOMAIN env :
       /\ s # p
       /\ env' = [t \in DOMAIN env \ {p} |-> IF t = s THEN env[s] \o env[p] ELSE env[t]]

\* A copy has the same variables at every level, and no inputs.
Copy ==
  /\ UNCHANGED temps
  /\ \E s \in DOMAIN env, c \in Strip \ DOMAIN env :
       Holds(c, [i \in DOMAIN env[s] |-> [env[s][i] EXCEPT !.inputs = {}]])

Destroy == UNCHANGED temps /\ \E s \in DOMAIN env : env' = Drops(s)

Next == /\ \/ Make \/ Release \/ Create \/ PushVariable \/ PushInput \/ FindVariable
           \/ FindInput \/ RemoveByScope \/ Attach \/ Copy \/ Destroy
        /\ alive' = Referenced'

Spec == Init /\ [][Next]_vars
=============================================================================
