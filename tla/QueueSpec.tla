----------------------------- MODULE QueueSpec -----------------------------
(***************************************************************************)
(* What not_queue_t promises to the rest of the interpreter: a sequence    *)
(* of distinct entries, the entries its callers took out and still own,    *)
(* and, for each call, the pointer the call returned.  Nothing here speaks *)
(* of pointers between entries; module Queue does, and implements this.    *)
(***************************************************************************)
EXTENDS Sequences, SequencesExt

CONSTANTS Entry,     \* the entries the allocator can hand out
          End,       \* the sentinel, which a caller can also receive
          NULL,      \* the null pointer
          ERROR      \* NOT_PTR_ERROR, returned when the allocator fails

VARIABLES contents,  \* the entries in the queue, from begin to end
          detached,  \* the entries that were taken out and not yet freed
          call       \* the last completed call and what it returned

vars == <<contents, detached, call>>

Available == Entry \ (ToSet(contents) \cup detached)

Returned(op, ret) == call' = [op |-> op, ret |-> ret]

Init == /\ contents = <<>>
        /\ detached = {}
        /\ call = [op |-> "create", ret |-> NULL]

\* An operation that allocates fails, and changes nothing, when no entry is left.
AllocationFails(op) == /\ Available = {}
                       /\ Returned(op, ERROR)
                       /\ UNCHANGED <<contents, detached>>

RightPush == \/ \E e \in Available : /\ contents' = Append(contents, e)
                                     /\ Returned("right_push", e)
                                     /\ UNCHANGED detached
             \/ AllocationFails("right_push")

LeftPush == \/ \E e \in Available : /\ contents' = <<e>> \o contents
                                    /\ Returned("left_push", e)
                                    /\ UNCHANGED detached
            \/ AllocationFails("left_push")

\* The new entry goes in front of the one at position i.
Insert == \/ \E e \in Available, i \in 1..Len(contents) + 1 :
                /\ contents' = InsertAt(contents, i, e)
                /\ Returned("insert", e)
                /\ UNCHANGED detached
          \/ AllocationFails("insert")

RightPop == IF contents = <<>>
            THEN Returned("right_pop", NULL) /\ UNCHANGED <<contents, detached>>
            ELSE /\ contents' = Front(contents)
                 /\ detached' = detached \cup {Last(contents)}
                 /\ Returned("right_pop", Last(contents))

\* Unlike right_pop, left_pop answers an empty queue with the sentinel.
LeftPop == IF contents = <<>>
           THEN Returned("left_pop", End) /\ UNCHANGED <<contents, detached>>
           ELSE /\ contents' = Tail(contents)
                /\ detached' = detached \cup {Head(contents)}
                /\ Returned("left_pop", Head(contents))

\* Unlinking an entry that was already taken out, or the sentinel, is harmless.
Unlink == \/ \E i \in 1..Len(contents) :
                /\ contents' = RemoveAt(contents, i)
                /\ detached' = detached \cup {contents[i]}
                /\ Returned("unlink", contents[i])
          \/ \E e \in detached \cup {End} :
                /\ Returned("unlink", e)
                /\ UNCHANGED <<contents, detached>>

Free == \E e \in detached : /\ detached' = detached \ {e}
                            /\ Returned("free", e)
                            /\ UNCHANGED contents

ClearOne == /\ contents # <<>>
            /\ contents' = Tail(contents)
            /\ UNCHANGED <<detached, call>>

Cleared == /\ contents = <<>>
           /\ Returned("clear", NULL)
           /\ UNCHANGED <<contents, detached>>

\* Sorting returns with the order it found (see Queue!SortStep).
Sorted == Returned("sort", NULL) /\ UNCHANGED <<contents, detached>>

Count == Returned("count", Len(contents)) /\ UNCHANGED <<contents, detached>>

Next == \/ RightPush \/ LeftPush \/ Insert \/ RightPop \/ LeftPop
        \/ Unlink \/ Free \/ ClearOne \/ Cleared \/ Sorted \/ Count

Spec == Init /\ [][Next]_vars
=============================================================================
