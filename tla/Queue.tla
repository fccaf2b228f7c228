------------------------------- MODULE Queue -------------------------------
(***************************************************************************)
(* container/queue.c: the doubly linked ring every list of the interpreter *)
(* is kept in (variables and inputs of an activation record, the symbol    *)
(* table, the queued exceptions, the parser's saved states, the loaded     *)
(* repositories).  A queue is a ring of entries through one sentinel,      *)
(* `end'; `begin' is the entry after the sentinel, or the sentinel itself. *)
(*                                                                         *)
(* An operation is one action, except the two loops, sort and clear, which *)
(* take one action per iteration.  The program is single threaded, so no   *)
(* other operation runs while a loop is under way.                         *)
(***************************************************************************)
EXTENDS Naturals, Sequences, FiniteSets

CONSTANTS Entry,     \* the memory the allocator can hand out for entries
          End,       \* queue->end, the sentinel not_queue_apply allocates
          NULL,
          ERROR

ASSUME EntryAssumption == /\ IsFiniteSet(Entry)
                          /\ End \notin Entry
                          /\ NULL \notin Entry \cup {End}
                          /\ ERROR \notin Entry \cup {End, NULL}

Cell == Entry \cup {End}

VARIABLES queue,     \* queue->begin and the next and previous of every cell
          detached,  \* entries their owner has unlinked and not yet freed
          pc,        \* the loop under way: "idle", "sort" or "clear"
          b,         \* that loop's cursor
          call       \* the last completed call and what it returned

vars == <<queue, detached, pc, b, call>>

LinkedIn(q) == {e \in Entry : q.next[e] # NULL}
Linked == LinkedIn(queue)
Available == Entry \ (Linked \cup detached)

-----------------------------------------------------------------------------
\* Before some definitions comes a wrong form of it that a property excludes; only
\* the second form is used.

\* not_queue_link: entry goes in front of current.
LinkForward(q, current, entry) ==
  [begin    |-> IF q.begin = current THEN entry ELSE q.begin,
   next     |-> [c \in Cell |-> IF c = entry THEN current
                                ELSE IF c = q.previous[current] THEN entry
                                ELSE q.next[c]],
   previous |-> [q.previous EXCEPT ![entry] = q.previous[current]]]
Link(q, current, entry) ==
  [begin    |-> IF q.begin = current THEN entry ELSE q.begin,
   next     |-> [c \in Cell |-> IF c = entry THEN current
                                ELSE IF c = q.previous[current] THEN entry
                                ELSE q.next[c]],
   previous |-> [c \in Cell |-> IF c = current THEN entry
                                ELSE IF c = entry THEN q.previous[current]
                                ELSE q.previous[c]]]

\* not_queue_unlink: the sentinel is never unlinked.
UnlinkKeepsBegin(q, entry) ==
  IF entry = End THEN q ELSE
  [begin    |-> q.begin,
   next     |-> [c \in Cell |-> IF c = entry THEN NULL
                                ELSE IF c = q.previous[entry] THEN q.next[entry]
                                ELSE q.next[c]],
   previous |-> [c \in Cell |-> IF c = entry THEN NULL
                                ELSE IF c = q.next[entry] THEN q.previous[entry]
                                ELSE q.previous[c]]]
Unlink(q, entry) ==
  IF entry = End THEN q ELSE
  [begin    |-> IF entry = q.begin THEN q.next[entry] ELSE q.begin,
   next     |-> [c \in Cell |-> IF c = entry THEN NULL
                                ELSE IF c = q.previous[entry] THEN q.next[entry]
                                ELSE q.next[c]],
   previous |-> [c \in Cell |-> IF c = entry THEN NULL
                                ELSE IF c = q.next[entry] THEN q.previous[entry]
                                ELSE q.previous[c]]]

\* not_queue_is_empty
IsEmpty(q) == q.begin = End

\* The entry right_pop takes, what a caller gets to own of what it is handed, and
\* where the loops of sort and clear go after c.
FirstEntry(q) == q.begin
LastEntry(q) == q.previous[End]
OwnedAsHanded(entry) == {entry}
Owned(entry) == {entry} \ {End}
StayAt(c) == c
Following(c) == queue.next[c]

\* not_queue_count and the order of the entries: what a walk from begin that
\* stops at the sentinel (or at a null pointer) meets.
Walk(q) ==
  LET at[i \in Nat \ {0}] ==
        IF i = 1 THEN q.begin
        ELSE IF at[i - 1] \in Entry THEN q.next[at[i - 1]] ELSE at[i - 1]
  IN  at
Met(q) == {i \in 1..Cardinality(Entry) : Walk(q)[i] \in Entry}
ContentsOf(q) == [i \in 1..Cardinality(Met(q)) |-> Walk(q)[i]]
Contents == ContentsOf(queue)

-----------------------------------------------------------------------------
Returned(op, ret) == call' = [op |-> op, ret |-> ret]

\* not_queue_create and not_queue_apply: the sentinel alone, linked to itself.
Init == /\ queue = [begin    |-> End,
                    next     |-> [c \in Cell |-> IF c = End THEN End ELSE NULL],
                    previous |-> [c \in Cell |-> IF c = End THEN End ELSE NULL]]
        /\ detached = {}
        /\ pc = "idle"
        /\ b = End
        /\ call = [op |-> "create", ret |-> NULL]

\* calloc of a new entry, linked in front of current, or its failure.
Push(op, current) ==
  /\ pc = "idle"
  /\ \/ \E e \in Available : /\ queue' = Link(queue, current, e)
                             /\ Returned(op, e)
     \/ /\ Available = {}
        /\ Returned(op, ERROR)
        /\ UNCHANGED queue
  /\ UNCHANGED <<detached, pc, b>>

RightPush == Push("right_push", End)
LeftPush  == Push("left_push", queue.begin)
Insert    == \E index \in Linked \cup {End} : Push("insert", index)

RightPop ==
  /\ pc = "idle"
  /\ IF IsEmpty(queue)
     THEN Returned("right_pop", NULL) /\ UNCHANGED <<queue, detached>>
     ELSE LET entry == LastEntry(queue)
          IN  /\ queue' = Unlink(queue, entry)
              /\ detached' = detached \cup {entry}
              /\ Returned("right_pop", entry)
  /\ UNCHANGED <<pc, b>>

LeftPop ==
  /\ pc = "idle"
  /\ queue' = Unlink(queue, queue.begin)
  /\ detached' = detached \cup Owned(queue.begin)
  /\ Returned("left_pop", queue.begin)
  /\ UNCHANGED <<pc, b>>

\* A caller unlinks any entry it knows of, even one it has unlinked before.
UnlinkEntry ==
  /\ pc = "idle"
  /\ \E entry \in Linked \cup detached \cup {End} :
        /\ queue' = Unlink(queue, entry)
        /\ detached' = detached \cup Owned(entry)
        /\ Returned("unlink", entry)
  /\ UNCHANGED <<pc, b>>

\* The owner of an unlinked entry frees it.
Free ==
  /\ pc = "idle"
  /\ \E entry \in detached : /\ detached' = detached \ {entry}
                             /\ Returned("free", entry)
  /\ UNCHANGED <<queue, pc, b>>

Count ==
  /\ pc = "idle"
  /\ Returned("count", Len(Contents))
  /\ UNCHANGED <<queue, detached, pc, b>>

-----------------------------------------------------------------------------
\* The head of both loops: for (b = queue->begin; b != queue->end; b = n)
StartLoop ==
  /\ pc = "idle"
  /\ pc' \in {"sort", "clear"}
  /\ b' = queue.begin
  /\ UNCHANGED <<queue, detached, call>>

EndLoop ==
  /\ pc # "idle"
  /\ b = End
  /\ pc' = "idle"
  /\ Returned(pc, NULL)
  /\ UNCHANGED <<queue, detached, b>>

\* An iteration of not_queue_sort.  When f(b, n) asks for a swap, b is unlinked
\* and linked again in front of n.
SortStep ==
  /\ pc = "sort"
  /\ b # End
  /\ LET n == Following(b)
     IN  /\ b' = n
         /\ \/ UNCHANGED queue
            \/ /\ n # End
               /\ queue' = Link(Unlink(queue, b), n, b)
  /\ UNCHANGED <<detached, pc, call>>

\* An iteration of not_queue_clear: unlink the entry and free it.
ClearStep ==
  /\ pc = "clear"
  /\ b # End
  /\ b' = Following(b)
  /\ queue' = Unlink(queue, b)
  /\ UNCHANGED <<detached, pc, call>>

Next == \/ RightPush \/ LeftPush \/ Insert \/ RightPop \/ LeftPop
        \/ UnlinkEntry \/ Free \/ Count
        \/ StartLoop \/ EndLoop \/ SortStep \/ ClearStep

\* A loop that was started runs on: nothing else can, and the thread is scheduled.
Loop == EndLoop \/ SortStep \/ ClearStep
Spec == Init /\ [][Next]_vars /\ WF_vars(Loop)

-----------------------------------------------------------------------------
Queues == [begin : Cell, next : [Cell -> Cell \cup {NULL}],
           previous : [Cell -> Cell \cup {NULL}]]

(* The types of the variables.  *)
TypeOK ==
  /\ queue \in Queues
  /\ detached \subseteq Entry
  /\ pc \in {"idle", "sort", "clear"}
  /\ b \in Cell

\* Going forth and back (or back and forth) from a cell of the ring returns to
\* it, begin is the cell after the sentinel, and other cells point nowhere.
IsRing(q) ==
  /\ q.begin = q.next[End]
  /\ \A c \in LinkedIn(q) \cup {End} :
        /\ q.next[c] \in LinkedIn(q) \cup {End}
        /\ q.previous[c] \in LinkedIn(q) \cup {End}
        /\ q.previous[q.next[c]] = c
        /\ q.next[q.previous[c]] = c
  /\ \A c \in Entry \ LinkedIn(q) : q.previous[c] = NULL

(* The links agree in both directions after every operation and in the middle
   of both loops, and no entry that its owner may free is still in the ring. *)
Ring == IsRing(queue) /\ detached \cap Linked = {}

(* The saved cursor of sort and clear always is a cell of the ring: neither loop
   ever steps onto an entry that it has unlinked or freed. *)
CursorInRing == pc # "idle" => b \in Linked \cup {End}

(* There is one ring, not several: the walk from begin meets every linked entry,
   which is what not_queue_count counts. *)
WalkMeetsAll == /\ {Contents[i] : i \in DOMAIN Contents} = Linked
                /\ Len(Contents) = Cardinality(Linked)

(* A sort or clear that was started ends: the cursor cannot go round in circles
   although sort relinks the entry the cursor stands on. *)
LoopEnds == pc # "idle" ~> pc = "idle"

-----------------------------------------------------------------------------
Abstract == INSTANCE QueueSpec WITH contents <- Contents

(* The ring implements the sequence of QueueSpec: every push, pop, insert and
   unlink does to the walked contents what the sequence operation does and
   returns the same entry, and sort leaves the order as it was. *)
ImplementsSequence == Abstract!Spec
=============================================================================
