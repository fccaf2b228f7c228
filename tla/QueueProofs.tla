---------------------------- MODULE QueueProofs ----------------------------
(***************************************************************************)
(* The ring of module Queue stays a ring and implements the sequence of    *)
(* QueueSpec, for any number of entries.                                   *)
(*                                                                         *)
(* TypeOK and Ring are inductive together: link and unlink preserve        *)
(* IsRing (LinkRing, UnlinkRing) and every operation is made of them.      *)
(* CursorInRing needs one more fact: clear always stands on begin.         *)
(*                                                                         *)
(* A ring that is one ring, not several, is listed by a sequence: each     *)
(* pointer of the entry at a place is the entry at the next place or the   *)
(* one before (Lists).  Linking inserts into the sequence and unlinking    *)
(* removes from it (LinkLists, UnlinkLists), and the walk of Contents      *)
(* returns the sequence (ContentsListed), by induction over the places:    *)
(* there is no least one at which the two differ.  So each action of Queue *)
(* is the action of QueueSpec of that name, or a stutter (Simulation).     *)
(***************************************************************************)
EXTENDS Queue, SequenceTheorems, FiniteSetTheorems, WellFoundedInduction, TLAPS

ClearAtBegin == pc = "clear" => b = queue.begin

IInv == TypeOK /\ Ring /\ ClearAtBegin /\ CursorInRing

(* not_queue_link turns a ring into a ring that has the new entry too. *)
LEMMA LinkRing ==
  ASSUME NEW q \in Queues, IsRing(q),
         NEW current \in LinkedIn(q) \cup {End},
         NEW entry \in Entry, q.next[entry] = NULL
  PROVE  /\ Link(q, current, entry) \in Queues
         /\ IsRing(Link(q, current, entry))
         /\ LinkedIn(Link(q, current, entry)) = LinkedIn(q) \cup {entry}
<1> DEFINE r == Link(q, current, entry)
<1>1. r \in Queues
  BY EntryAssumption DEF Link, Queues, Cell, LinkedIn, IsRing
<1>2. LinkedIn(r) = LinkedIn(q) \cup {entry}
  BY EntryAssumption DEF Link, Queues, Cell, LinkedIn, IsRing
<1>3. r.begin = r.next[End]
  BY EntryAssumption DEF Link, Queues, Cell, LinkedIn, IsRing
<1>4. ASSUME NEW c \in LinkedIn(r) \cup {End}
      PROVE  /\ r.next[c] \in LinkedIn(r) \cup {End}
             /\ r.previous[c] \in LinkedIn(r) \cup {End}
             /\ r.previous[r.next[c]] = c
             /\ r.next[r.previous[c]] = c
  BY <1>2, EntryAssumption DEF Link, Queues, Cell, LinkedIn, IsRing
<1>5. \A c \in Entry \ LinkedIn(r) : r.previous[c] = NULL
  BY <1>2, EntryAssumption DEF Link, Queues, Cell, LinkedIn, IsRing
<1> QED
  BY <1>1, <1>2, <1>3, <1>4, <1>5 DEF IsRing

(* not_queue_unlink turns a ring into a ring without the entry. *)
LEMMA UnlinkRing ==
  ASSUME NEW q \in Queues, IsRing(q), NEW entry \in Cell
  PROVE  /\ Unlink(q, entry) \in Queues
         /\ IsRing(Unlink(q, entry))
         /\ LinkedIn(Unlink(q, entry)) = LinkedIn(q) \ {entry}
<1> DEFINE r == Unlink(q, entry)
<1>1. r \in Queues
  BY EntryAssumption DEF Unlink, Queues, Cell, LinkedIn, IsRing
<1>2. LinkedIn(r) = LinkedIn(q) \ {entry}
  BY EntryAssumption DEF Unlink, Queues, Cell, LinkedIn, IsRing
<1>3. r.begin = r.next[End]
  BY EntryAssumption DEF Unlink, Queues, Cell, LinkedIn, IsRing
<1>4. ASSUME NEW c \in LinkedIn(r) \cup {End}
      PROVE  /\ r.next[c] \in LinkedIn(r) \cup {End}
             /\ r.previous[c] \in LinkedIn(r) \cup {End}
             /\ r.previous[r.next[c]] = c
             /\ r.next[r.previous[c]] = c
  BY <1>2, EntryAssumption DEF Unlink, Queues, Cell, LinkedIn, IsRing
<1>5. \A c \in Entry \ LinkedIn(r) : r.previous[c] = NULL
  BY <1>2, EntryAssumption DEF Unlink, Queues, Cell, LinkedIn, IsRing
<1> QED
  BY <1>1, <1>2, <1>3, <1>4, <1>5 DEF IsRing

(* Every operation preserves the invariant. *)
LEMMA InvariantStep == IInv /\ [Next]_vars => IInv'
<1> SUFFICES ASSUME IInv, [Next]_vars PROVE IInv'
  OBVIOUS
<1> USE EntryAssumption DEF IInv, TypeOK, Ring, ClearAtBegin, CursorInRing,
                            Owned, LastEntry, Following
<1>0. /\ Linked \subseteq Entry
      /\ queue.begin \in Linked \cup {End}
      /\ queue.previous[End] \in Linked \cup {End}
      /\ IsEmpty(queue) <=> queue.previous[End] = End
  BY DEF IsRing, Linked, LinkedIn, IsEmpty
<1>a. Linked' = LinkedIn(queue')
  BY DEF Linked
<1>1. ASSUME NEW op, NEW current \in Linked \cup {End}, Push(op, current)
      PROVE  IInv'
  <2>1. CASE UNCHANGED queue
    BY <1>1, <2>1 DEF Push, Linked
  <2>2. CASE \E e \in Available : queue' = Link(queue, current, e)
    <3>1. PICK e \in Available : queue' = Link(queue, current, e)
      BY <2>2
    <3>2. e \in Entry /\ queue.next[e] = NULL /\ e \notin detached
      BY <3>1 DEF Available, Linked, LinkedIn
    <3>3. queue' \in Queues /\ IsRing(queue') /\ Linked' = Linked \cup {e}
      BY <1>1, <1>a, <3>1, <3>2, LinkRing DEF Linked
    <3> QED
      BY <1>1, <3>2, <3>3 DEF Push
  <2> QED
    BY <1>1, <2>1, <2>2 DEF Push
<1>2. ASSUME NEW e \in Cell
      PROVE  /\ Unlink(queue, e) \in Queues
             /\ IsRing(Unlink(queue, e))
             /\ LinkedIn(Unlink(queue, e)) = Linked \ {e}
  BY <1>2, UnlinkRing DEF Linked
<1>3. ASSUME NEW e \in Cell, pc = "idle", UNCHANGED <<pc, b>>,
             queue' = Unlink(queue, e), detached' = detached \cup ({e} \ {End})
      PROVE  IInv'
  BY <1>2, <1>3, <1>a DEF Cell
<1>4. CASE RightPush
  BY <1>0, <1>1, <1>4 DEF RightPush
<1>5. CASE LeftPush
  BY <1>0, <1>1, <1>5 DEF LeftPush
<1>6. CASE Insert
  BY <1>1, <1>6 DEF Insert
<1>7. CASE RightPop
  <2>1. CASE IsEmpty(queue)
    BY <1>7, <2>1 DEF RightPop, Linked
  <2>2. CASE ~IsEmpty(queue)
    BY <1>0, <1>3, <1>7, <2>2 DEF RightPop, Cell
  <2> QED
    BY <2>1, <2>2
<1>8. CASE LeftPop
  BY <1>0, <1>3, <1>8 DEF LeftPop, Cell
<1>9. CASE UnlinkEntry
  BY <1>0, <1>3, <1>9 DEF UnlinkEntry, Cell
<1>10. CASE Free
  BY <1>10 DEF Free, Linked
<1>11. CASE Count
  BY <1>11 DEF Count, Linked
<1>12. CASE StartLoop
  BY <1>0, <1>12 DEF StartLoop, Linked, Cell
<1>13. CASE EndLoop
  BY <1>13 DEF EndLoop, Linked
<1>14. CASE SortStep
  <2>1. b \in Linked /\ queue.next[b] \in Linked \cup {End}
    BY <1>14 DEF SortStep, IsRing, Linked
  <2>2. CASE UNCHANGED queue
    BY <1>0, <1>14, <2>1, <2>2 DEF SortStep, Linked, Cell
  <2>3. CASE queue.next[b] # End /\ queue' = Link(Unlink(queue, b), queue.next[b], b)
    <3> DEFINE q == Unlink(queue, b)
    <3>1. q \in Queues /\ IsRing(q) /\ LinkedIn(q) = Linked \ {b} /\ q.next[b] = NULL
      BY <1>2, <2>1 DEF Linked, LinkedIn
    <3>2. CASE queue.next[b] = b
      \* b is a ring of its own: it is linked to itself again.
      <4>1. queue' = Link(q, b, b) /\ q.previous[b] = NULL /\ q.next[b] = NULL
        BY <2>1, <2>3, <3>2 DEF Unlink, Linked, Cell
      <4> HIDE DEF q
      <4>2. queue' \in Queues /\ Linked' = Linked
        <5>1. b \in Cell /\ b # NULL
          BY <2>1 DEF Linked, LinkedIn, Cell
        <5>2. queue' \in Queues
          BY ONLY <3>1, <4>1, <5>1 DEF Link, Queues
        <5>3. \A c \in Entry : queue'.next[c] = IF c = b THEN b ELSE q.next[c]
          BY ONLY <3>1, <4>1, <5>1, EntryAssumption DEF Link, Queues, Cell
        <5>4. LinkedIn(queue') = LinkedIn(q) \cup {b}
          BY ONLY <2>1, <5>1, <5>3 DEF LinkedIn, Linked
        <5> QED
          BY ONLY <1>a, <2>1, <3>1, <5>2, <5>4
      <4>3. IsRing(queue')
        BY <1>a, <2>1, <3>1, <4>1, <4>2 DEF Link, Queues, Cell, LinkedIn, IsRing
      <4> QED
        BY <1>0, <1>14, <2>1, <4>2, <4>3 DEF SortStep, Cell
    <3>3. CASE queue.next[b] # b
      <4>1. queue.next[b] \in LinkedIn(q) \cup {End} /\ b \in Entry
        BY <1>0, <2>1, <3>1, <3>3
      <4>2. /\ Link(q, queue.next[b], b) \in Queues
            /\ IsRing(Link(q, queue.next[b], b))
            /\ LinkedIn(Link(q, queue.next[b], b)) = LinkedIn(q) \cup {b}
        <5> HIDE DEF q
        <5> QED
          BY ONLY <3>1, <4>1, LinkRing
      <4>3. queue' \in Queues /\ IsRing(queue') /\ Linked' = Linked
        BY ONLY <1>a, <2>1, <2>3, <3>1, <4>2
      <4> QED
        BY <1>0, <1>14, <2>1, <4>3 DEF SortStep, Cell
    <3> QED
      BY <3>2, <3>3
  <2> QED
    BY <1>14, <2>2, <2>3 DEF SortStep
<1>15. CASE ClearStep
  <2>1. b = queue.begin /\ b \in Linked /\ b' = queue.next[b] /\ queue' = Unlink(queue, b)
    BY <1>15 DEF ClearStep
  <2>2. queue'.begin = queue.next[b]
    BY <1>0, <2>1 DEF Unlink
  <2>3. queue' \in Queues /\ IsRing(queue') /\ Linked' = Linked \ {b}
    BY <1>0, <1>2, <1>a, <2>1 DEF Cell
  <2>4. queue'.begin \in Linked' \cup {End}
    BY <1>a, <2>3 DEF IsRing
  <2> QED
    BY <1>0, <1>15, <2>1, <2>2, <2>3, <2>4 DEF ClearStep, Cell
<1>16. CASE UNCHANGED vars
  BY <1>16 DEF vars, Linked
<1> QED
  BY <1>4, <1>5, <1>6, <1>7, <1>8, <1>9, <1>10, <1>11, <1>12, <1>13, <1>14,
     <1>15, <1>16 DEF Next

LEMMA InvariantInit == Init => IInv
<1> SUFFICES ASSUME Init PROVE IInv
  OBVIOUS
<1>1. Linked = {}
  BY EntryAssumption DEF Init, Linked, LinkedIn, Cell
<1> QED
  BY <1>1, EntryAssumption
     DEF Init, IInv, TypeOK, Queues, Ring, IsRing, ClearAtBegin, CursorInRing, Linked, Cell

(* The variables keep their types: no pointer leaves the cells of the queue. *)
THEOREM TypeCorrect == Spec => []TypeOK
  BY InvariantInit, InvariantStep, PTL DEF Spec, IInv

(* Whatever calls are made in whatever order, next and previous stay inverse to
   each other and no freed or freeable entry is linked. *)
THEOREM RingCorrect == Spec => []Ring
  BY InvariantInit, InvariantStep, PTL DEF Spec, IInv

(* The loops of sort and clear never stand on an entry out of the ring. *)
THEOREM CursorCorrect == Spec => []CursorInRing
  BY InvariantInit, InvariantStep, PTL DEF Spec, IInv
-----------------------------------------------------------------------------
\* What is at place i of the ring that s lists: the sentinel before and after s.
Place(s, i) == IF i \in 1..Len(s) THEN s[i] ELSE End

(* The ring of q is the sentinel and the entries of s, in this order.  *)
Lists(q, s) ==
  /\ s \in Seq(Entry)
  /\ \A i, j \in 1..Len(s) : s[i] = s[j] => i = j
  /\ LinkedIn(q) = {s[i] : i \in 1..Len(s)}
  /\ q.begin = Place(s, 1)
  /\ \A i \in 0..Len(s) : /\ q.next[Place(s, i)] = Place(s, i + 1)
                          /\ q.previous[Place(s, i + 1)] = Place(s, i)

(* t is s with e inserted at place p, and s with the entry at p removed.  *)
Inserted(t, s, p, e) ==
  /\ Len(t) = Len(s) + 1
  /\ \A i \in 1..Len(s)+1 : t[i] = IF i < p THEN s[i] ELSE IF i = p THEN e ELSE s[i - 1]
Removed(t, s, p) ==
  /\ Len(t) = Len(s) - 1
  /\ \A i \in 1..Len(s)-1 : t[i] = IF i < p THEN s[i] ELSE s[i + 1]

(* What the two operators of the community modules return, place by place.  *)
LEMMA InsertAtIs ==
  ASSUME NEW S, NEW s \in Seq(S), NEW e \in S, NEW p \in 1..Len(s)+1
  PROVE  /\ Abstract!InsertAt(s, p, e) \in Seq(S)
         /\ Inserted(Abstract!InsertAt(s, p, e), s, p, e)
<1> DEFINE l == SubSeq(s, 1, p - 1)
           m == l \o <<e>>
           r == SubSeq(s, p, Len(s))
           t == m \o r
<1>1. Len(s) \in Nat /\ \A i \in 1..Len(s) : s[i] \in S
  BY LenProperties, ElementOfSeq
<1>2. /\ l \in Seq(S) /\ Len(l) = p - 1
      /\ \A i \in 1..(p - 1) : l[i] = s[i]
  <2>1. \A i \in 1..(p - 1) : s[i] \in S
    BY <1>1
  <2> QED
    BY <1>1, <2>1, SubSeqProperties
<1>3. /\ r \in Seq(S) /\ Len(r) = Len(s) + 1 - p
      /\ \A i \in 1..(Len(s) + 1 - p) : r[i] = s[p + i - 1]
  <2>1. \A i \in p..Len(s) : s[i] \in S
    BY <1>1
  <2> QED
    BY <1>1, <2>1, SubSeqProperties
<1>4. <<e>> \in Seq(S) /\ Len(<<e>>) = 1 /\ <<e>>[1] = e
  OBVIOUS
<1> HIDE DEF l, r
<1>5. /\ m \in Seq(S) /\ Len(m) = p
      /\ \A i \in 1..p : m[i] = IF i < p THEN s[i] ELSE e
  BY <1>1, <1>2, <1>4, ConcatProperties
<1> HIDE DEF m
<1>6. /\ t \in Seq(S) /\ Len(t) = Len(s) + 1
      /\ \A i \in 1..Len(s)+1 : t[i] = IF i <= p THEN m[i] ELSE r[i - p]
  <2>1. Len(m) + Len(r) = Len(s) + 1
    BY <1>1, <1>3, <1>5
  <2>2. /\ t \in Seq(S) /\ Len(t) = Len(m) + Len(r)
        /\ \A i \in 1..(Len(m) + Len(r)) :
              t[i] = IF i <= Len(m) THEN m[i] ELSE r[i - Len(m)]
    BY ONLY <1>3, <1>5, ConcatProperties
  <2> QED
    BY ONLY <1>5, <2>1, <2>2
<1>7. Abstract!InsertAt(s, p, e) = t
  BY DEF Abstract!InsertAt, t, m, l, r
<1> HIDE DEF t
<1>8. ASSUME NEW i \in 1..Len(s)+1
      PROVE t[i] = IF i < p THEN s[i] ELSE IF i = p THEN e ELSE s[i - 1]
  <2>1. CASE i <= p
    BY <1>1, <1>5, <1>6, <2>1
  <2>2. CASE i > p
    <3>1. i - p \in 1..(Len(s) + 1 - p) /\ p + (i - p) - 1 = i - 1
      BY <1>1, <2>2
    <3>2. r[i - p] = s[i - 1]
      BY ONLY <1>3, <3>1
    <3>3. t[i] = r[i - p]
      BY <1>6, <2>2
    <3> QED
      BY <2>2, <3>2, <3>3
  <2> QED
    BY <1>1, <2>1, <2>2
<1> QED
  BY <1>6, <1>7, <1>8 DEF Inserted

LEMMA RemoveAtIs ==
  ASSUME NEW S, NEW s \in Seq(S), NEW p \in 1..Len(s)
  PROVE  /\ Abstract!RemoveAt(s, p) \in Seq(S)
         /\ Removed(Abstract!RemoveAt(s, p), s, p)
<1> DEFINE l == SubSeq(s, 1, p - 1)
           r == SubSeq(s, p + 1, Len(s))
           t == l \o r
<1>1. Len(s) \in Nat /\ \A i \in 1..Len(s) : s[i] \in S
  BY LenProperties, ElementOfSeq
<1>2. /\ l \in Seq(S) /\ Len(l) = p - 1
      /\ \A i \in 1..(p - 1) : l[i] = s[i]
  <2>1. \A i \in 1..(p - 1) : s[i] \in S
    BY <1>1
  <2> QED
    BY <1>1, <2>1, SubSeqProperties
<1>3. /\ r \in Seq(S) /\ Len(r) = Len(s) - p
      /\ \A i \in 1..(Len(s) - p) : r[i] = s[p + i]
  <2>1. \A i \in (p + 1)..Len(s) : s[i] \in S
    BY <1>1
  <2>2. /\ r \in Seq(S) /\ Len(r) = Len(s) - p
        /\ \A i \in 1..(Len(s) - (p + 1) + 1) : r[i] = s[p + 1 + i - 1]
    BY <1>1, <2>1, SubSeqProperties
  <2> HIDE DEF r
  <2>3. Len(s) - (p + 1) + 1 = Len(s) - p /\ \A i \in 1..(Len(s) - p) : p + 1 + i - 1 = p + i
    BY <1>1
  <2> QED
    BY <2>2, <2>3
<1> HIDE DEF l, r
<1>6. /\ t \in Seq(S) /\ Len(t) = Len(s) - 1
      /\ \A i \in 1..Len(s)-1 : t[i] = IF i <= p - 1 THEN l[i] ELSE r[i - (p - 1)]
  <2>1. Len(l) + Len(r) = Len(s) - 1
    BY <1>1, <1>2, <1>3
  <2>2. /\ t \in Seq(S) /\ Len(t) = Len(l) + Len(r)
        /\ \A i \in 1..(Len(l) + Len(r)) :
              t[i] = IF i <= Len(l) THEN l[i] ELSE r[i - Len(l)]
    BY ONLY <1>2, <1>3, ConcatProperties
  <2> QED
    BY ONLY <1>2, <2>1, <2>2
<1>7. Abstract!RemoveAt(s, p) = t
  BY DEF Abstract!RemoveAt, t, l, r
<1> HIDE DEF t
<1>8. ASSUME NEW i \in 1..Len(s)-1
      PROVE t[i] = IF i < p THEN s[i] ELSE s[i + 1]
  <2>1. CASE i < p
    BY <1>1, <1>2, <1>6, <2>1
  <2>2. CASE i >= p
    <3>1. i - (p - 1) \in 1..(Len(s) - p) /\ p + (i - (p - 1)) = i + 1
      BY <1>1, <2>2
    <3>2. r[i - (p - 1)] = s[i + 1]
      BY ONLY <1>3, <3>1
    <3>3. t[i] = r[i - (p - 1)]
      BY <1>1, <1>6, <2>2
    <3> QED
      BY <2>2, <3>2, <3>3
  <2> QED
    BY <1>1, <2>1, <2>2
<1> QED
  BY <1>6, <1>7, <1>8 DEF Removed

(* The places of a listed ring hold cells, each entry once.  *)
LEMMA Places ==
  ASSUME NEW q, NEW s, Lists(q, s)
  PROVE  /\ Len(s) \in Nat
         /\ \A i \in 1..Len(s) : s[i] \in Entry /\ s[i] \in LinkedIn(q)
         /\ \A i \in Int : Place(s, i) \in Cell
         /\ \A i \in Int : Place(s, i) = End <=> i \notin 1..Len(s)
         /\ \A i, j \in 0..Len(s)+1 :
               Place(s, i) = Place(s, j) => i = j \/ (i = 0 /\ j = Len(s) + 1) \/ (j = 0 /\ i = Len(s) + 1)
         /\ \A i \in 0..Len(s)+1 : Place(s, i) \in LinkedIn(q) \cup {End}
<1>1. Len(s) \in Nat /\ \A i \in 1..Len(s) : s[i] \in Entry
  BY LenProperties, ElementOfSeq DEF Lists
<1>2. \A i \in 1..Len(s) : s[i] \in LinkedIn(q)
  BY DEF Lists
<1>3. End \notin Entry
  BY EntryAssumption
<1>4. \A i \in Int : Place(s, i) \in Cell /\ (Place(s, i) = End <=> i \notin 1..Len(s))
  BY <1>1, <1>3 DEF Place, Cell
<1>5. ASSUME NEW i \in 0..Len(s)+1, NEW j \in 0..Len(s)+1, Place(s, i) = Place(s, j)
      PROVE  i = j \/ (i = 0 /\ j = Len(s) + 1) \/ (j = 0 /\ i = Len(s) + 1)
  <2>1. CASE i \in 1..Len(s)
    <3>1. j \in 1..Len(s)
      BY <1>1, <1>4, <1>5, <2>1
    <3> QED
      BY <1>5, <2>1, <3>1 DEF Place, Lists
  <2>2. CASE i \notin 1..Len(s)
    <3>1. j \notin 1..Len(s)
      BY <1>1, <1>4, <1>5, <2>2
    <3>2. i \in {0, Len(s) + 1} /\ j \in {0, Len(s) + 1}
      BY <1>1, <2>2, <3>1
    <3> QED
      BY <3>2
  <2> QED
    BY <2>1, <2>2
<1> QED
  BY <1>1, <1>2, <1>4, <1>5 DEF Place

(* Inserting and removing move the places behind p.  *)
LEMMA PlacesInserted ==
  ASSUME NEW s \in Seq(Entry), NEW e \in Entry, NEW p \in 1..Len(s)+1, NEW i \in Int
  PROVE  Place(Abstract!InsertAt(s, p, e), i) =
           IF i < p THEN Place(s, i) ELSE IF i = p THEN e ELSE Place(s, i - 1)
<1> DEFINE t == Abstract!InsertAt(s, p, e)
<1>1. /\ Len(s) \in Nat /\ Len(t) = Len(s) + 1
      /\ \A k \in 1..Len(s)+1 : t[k] = IF k < p THEN s[k] ELSE IF k = p THEN e ELSE s[k - 1]
  <2>1. Inserted(t, s, p, e)
    BY InsertAtIs
  <2> QED
    BY <2>1, LenProperties DEF Inserted
<1> HIDE DEF t
<1>2. Place(t, i) = IF i < p THEN Place(s, i) ELSE IF i = p THEN e ELSE Place(s, i - 1)
  BY ONLY <1>1, p \in 1..Len(s)+1, i \in Int DEF Place
<1> QED
  BY <1>2 DEF t

LEMMA PlacesRemoved ==
  ASSUME NEW s \in Seq(Entry), NEW p \in 1..Len(s), NEW i \in Int
  PROVE  Place(Abstract!RemoveAt(s, p), i) = IF i < p THEN Place(s, i) ELSE Place(s, i + 1)
<1> DEFINE t == Abstract!RemoveAt(s, p)
<1>1. /\ Len(s) \in Nat /\ Len(t) = Len(s) - 1
      /\ \A k \in 1..Len(s)-1 : t[k] = IF k < p THEN s[k] ELSE s[k + 1]
  <2>1. Removed(t, s, p)
    BY RemoveAtIs
  <2> QED
    BY <2>1, LenProperties DEF Removed
<1> HIDE DEF t
<1>2. Place(t, i) = IF i < p THEN Place(s, i) ELSE Place(s, i + 1)
  BY ONLY <1>1, p \in 1..Len(s), i \in Int DEF Place
<1> QED
  BY <1>2 DEF t

(* not_queue_link in front of the entry at place p inserts at p.  *)
LEMMA LinkLists ==
  ASSUME NEW q \in Queues, IsRing(q), NEW s, Lists(q, s),
         NEW p \in 1..Len(s)+1, NEW e \in Entry \ LinkedIn(q)
  PROVE  Lists(Link(q, Place(s, p), e), Abstract!InsertAt(s, p, e))
<1> DEFINE t == Abstract!InsertAt(s, p, e)
           r == Link(q, Place(s, p), e)
           n == Len(s)
<1>1. s \in Seq(Entry) /\ n \in Nat
  BY Places DEF Lists
<1>2. /\ t \in Seq(Entry) /\ Len(t) = n + 1
      /\ \A i \in 1..n+1 : t[i] = IF i < p THEN s[i] ELSE IF i = p THEN e ELSE s[i - 1]
  <2>1. e \in Entry
    OBVIOUS
  <2> QED
    <3>1. t \in Seq(Entry) /\ Inserted(t, s, p, e)
      BY ONLY <1>1, <2>1, InsertAtIs, p \in 1..Len(s)+1
    <3> QED
      BY ONLY <3>1 DEF Inserted
<1>3. \A i \in Int : Place(t, i) = IF i < p THEN Place(s, i) ELSE IF i = p THEN e ELSE Place(s, i - 1)
  BY <1>1, PlacesInserted
<1> HIDE DEF t
<1>4. /\ \A i \in 1..n : s[i] \in Entry /\ s[i] \in LinkedIn(q) /\ s[i] # e
      /\ \A i \in Int : Place(s, i) \in Cell
      /\ \A i \in 0..n+1 : Place(s, i) # e
      /\ \A i, j \in 0..n+1 : Place(s, i) = Place(s, j) => i = j \/ (i = 0 /\ j = n + 1) \/ (j = 0 /\ i = n + 1)
  <2>1. \A i \in 1..n : s[i] \in Entry /\ s[i] \in LinkedIn(q) /\ s[i] # e
    BY Places
  <2>2. \A i \in 0..n+1 : Place(s, i) # e
    <3>1. \A i \in 0..n+1 : Place(s, i) \in LinkedIn(q) \cup {End}
      BY Places
    <3> QED
      BY <3>1, EntryAssumption
  <2> QED
    BY <2>1, <2>2, Places
<1>5. \A i, j \in 1..Len(t) : t[i] = t[j] => i = j
  <2>1. \A i, j \in 1..n : s[i] = s[j] => i = j
    BY DEF Lists
  <2>2. p \in 1..n+1
    OBVIOUS
  <2> HIDE DEF n
  <2> SUFFICES ASSUME NEW i \in 1..n+1, NEW j \in 1..n+1, i < j PROVE t[i] # t[j]
    BY <1>1, <1>2
  <2>3. CASE j = p
    <3>1. t[j] = e /\ t[i] = s[i] /\ i \in 1..n
      BY ONLY <1>1, <1>2, <2>2, <2>3, i \in 1..n+1, j \in 1..n+1, i < j
    <3> QED
      BY ONLY <1>4, <3>1
  <2>4. CASE j < p
    <3>1. t[j] = s[j] /\ t[i] = s[i] /\ i \in 1..n /\ j \in 1..n /\ i # j
      BY ONLY <1>1, <1>2, <2>2, <2>4, i \in 1..n+1, j \in 1..n+1, i < j
    <3> QED
      BY ONLY <2>1, <3>1
  <2>5. CASE j > p
    <3>1. t[j] = s[j - 1] /\ j - 1 \in 1..n
      BY ONLY <1>1, <1>2, <2>2, <2>5, j \in 1..n+1
    <3>2. CASE i = p
      BY ONLY <1>1, <1>2, <1>4, <2>2, <3>1, <3>2
    <3>3. CASE i < p
      <4>1. t[i] = s[i] /\ i \in 1..n /\ i # j - 1
        BY ONLY <1>1, <1>2, <2>2, <2>5, <3>3, i \in 1..n+1, j \in 1..n+1
      <4> QED
        BY ONLY <2>1, <3>1, <4>1
    <3>4. CASE i > p
      <4>1. t[i] = s[i - 1] /\ i - 1 \in 1..n /\ i - 1 # j - 1
        BY ONLY <1>1, <1>2, <2>2, <3>4, i \in 1..n+1, j \in 1..n+1, i < j
      <4> QED
        BY ONLY <2>1, <3>1, <4>1
    <3> QED
      BY ONLY <1>1, <2>2, <3>2, <3>3, <3>4, i \in 1..n+1
  <2> QED
    BY ONLY <1>1, <2>2, <2>3, <2>4, <2>5, j \in 1..n+1
<1>6. LinkedIn(r) = {t[i] : i \in 1..Len(t)}
  <2>1. Place(s, p) \in LinkedIn(q) \cup {End} /\ q.next[e] = NULL
    BY <1>1, Places DEF LinkedIn, Queues, Cell
  <2>2. LinkedIn(r) = LinkedIn(q) \cup {e}
    BY <2>1, LinkRing
  <2>3. \A x : (\E i \in 1..Len(t) : x = t[i]) <=> x = e \/ \E i \in 1..n : x = s[i]
    <3>1. \A i \in 1..n+1 : i # p => t[i] = e \/ \E j \in 1..n : t[i] = s[j]
      BY <1>1, <1>2
    <3>2. \A j \in 1..n : \E i \in 1..n+1 : t[i] = s[j]
      <4> SUFFICES ASSUME NEW j \in 1..n PROVE \E i \in 1..n+1 : t[i] = s[j]
        OBVIOUS
      <4>1. CASE j < p
        <5>1. j \in 1..n+1 /\ t[j] = s[j]
          BY <1>1, <1>2, <4>1
        <5> QED
          BY <5>1
      <4>2. CASE ~(j < p)
        <5>1. j + 1 \in 1..n+1 /\ t[j + 1] = s[j]
          BY <1>1, <1>2, <4>2
        <5> QED
          BY <5>1
      <4> QED
        BY <4>1, <4>2
    <3>3. p \in 1..n+1 /\ t[p] = e /\ Len(t) = n + 1
      BY <1>1, <1>2
    <3> HIDE DEF n
    <3> QED
      BY ONLY <3>1, <3>2, <3>3
  <2>4. LinkedIn(q) = {s[i] : i \in 1..n}
    BY DEF Lists
  <2> QED
    BY ONLY <2>2, <2>3, <2>4
<1>7. r.begin = Place(t, 1)
  <2>1. q.begin = Place(s, 1) /\ r.begin = IF q.begin = Place(s, p) THEN e ELSE q.begin
    BY DEF Lists, Link
  <2>2. Place(s, 1) = Place(s, p) => p = 1
    BY <1>1, <1>4
  <2> QED
    BY <1>1, <1>3, <2>1, <2>2
<1>8. q.previous[Place(s, p)] = Place(s, p - 1)
  <2>1. p - 1 \in 0..n /\ p - 1 + 1 = p
    BY <1>1
  <2> QED
    BY <2>1 DEF Lists
<1>9. \A c \in Cell :
        /\ r.next[c] = IF c = e THEN Place(s, p) ELSE IF c = Place(s, p - 1) THEN e ELSE q.next[c]
        /\ r.previous[c] = IF c = Place(s, p) THEN e ELSE IF c = e THEN Place(s, p - 1) ELSE q.previous[c]
  BY <1>8 DEF Link
<1>10. ASSUME NEW i \in 0..n+1
       PROVE  r.next[Place(t, i)] = Place(t, i + 1) /\ r.previous[Place(t, i + 1)] = Place(t, i)
  <2> HIDE DEF r
  <2>1. e \in Cell /\ p \in 1..n+1
    BY DEF Cell
  <2>2. \A k \in 0..n : q.next[Place(s, k)] = Place(s, k + 1) /\ q.previous[Place(s, k + 1)] = Place(s, k)
    BY DEF Lists
  <2> HIDE DEF n
  <2>3. r.next[Place(t, i)] = Place(t, i + 1)
    <3>1. CASE i < p - 1
      <4>1. Place(t, i) = Place(s, i) /\ Place(t, i + 1) = Place(s, i + 1)
        BY ONLY <1>1, <1>3, <2>1, <3>1, i \in 0..n+1
      <4>2. Place(s, i) # Place(s, p - 1) /\ Place(s, i) # e
        BY ONLY <1>1, <1>4, <2>1, <3>1, i \in 0..n+1
      <4>3. q.next[Place(s, i)] = Place(s, i + 1)
        BY ONLY <1>1, <2>1, <2>2, <3>1, i \in 0..n+1
      <4> QED
        BY ONLY <1>4, <1>9, <4>1, <4>2, <4>3, i \in Int
    <3>2. CASE i = p - 1
      <4>1. Place(t, i) = Place(s, p - 1) /\ Place(t, i + 1) = e
        BY ONLY <1>1, <1>3, <2>1, <3>2
      <4>2. Place(s, p - 1) # e
        BY ONLY <1>1, <1>4, <2>1
      <4> QED
        BY ONLY <1>4, <1>9, <2>1, <4>1, <4>2
    <3>3. CASE i = p
      <4>1. Place(t, i) = e /\ Place(t, i + 1) = Place(s, p)
        BY ONLY <1>1, <1>3, <2>1, <3>3
      <4> QED
        BY ONLY <1>9, <2>1, <4>1
    <3>4. CASE i > p
      <4>1. Place(t, i) = Place(s, i - 1) /\ Place(t, i + 1) = Place(s, i)
        BY ONLY <1>1, <1>3, <2>1, <3>4, i \in 0..n+1
      <4>2. Place(s, i - 1) # Place(s, p - 1) /\ Place(s, i - 1) # e
        <5>1. /\ i - 1 \in 0..n+1 /\ p - 1 \in 0..n+1
              /\ i - 1 # p - 1 /\ i - 1 # n + 1 /\ i - 1 # 0
          BY ONLY <1>1, <2>1, <3>4, i \in 0..n+1
        <5> QED
          BY ONLY <1>4, <5>1
      <4>3. q.next[Place(s, i - 1)] = Place(s, i)
        BY ONLY <1>1, <2>1, <2>2, <3>4, i \in 0..n+1
      <4> QED
        BY ONLY <1>4, <1>9, <2>1, <4>1, <4>2, <4>3, i - 1 \in Int
    <3> QED
      BY ONLY <2>1, <1>1, <3>1, <3>2, <3>3, <3>4, i \in 0..n+1
  <2>4. r.previous[Place(t, i + 1)] = Place(t, i)
    <3>1. CASE i + 1 < p
      <4>1. Place(t, i) = Place(s, i) /\ Place(t, i + 1) = Place(s, i + 1)
        BY ONLY <1>1, <1>3, <2>1, <3>1, i \in 0..n+1
      <4>2. Place(s, i + 1) # Place(s, p) /\ Place(s, i + 1) # e
        BY ONLY <1>1, <1>4, <2>1, <3>1, i \in 0..n+1
      <4>3. q.previous[Place(s, i + 1)] = Place(s, i)
        BY ONLY <1>1, <2>1, <2>2, <3>1, i \in 0..n+1
      <4> QED
        BY ONLY <1>4, <1>9, <4>1, <4>2, <4>3, i + 1 \in Int
    <3>2. CASE i + 1 = p
      <4>1. Place(t, i) = Place(s, p - 1) /\ Place(t, i + 1) = e
        BY ONLY <1>1, <1>3, <2>1, <3>2, i \in 0..n+1
      <4>2. Place(s, p) # e
        BY ONLY <1>1, <1>4, <2>1
      <4> QED
        BY ONLY <1>9, <2>1, <4>1, <4>2
    <3>3. CASE i = p
      <4>1. Place(t, i) = e /\ Place(t, i + 1) = Place(s, p)
        BY ONLY <1>1, <1>3, <2>1, <3>3
      <4> QED
        BY ONLY <1>4, <1>9, <2>1, <4>1, p \in Int
    <3>4. CASE i > p
      <4>1. Place(t, i) = Place(s, i - 1) /\ Place(t, i + 1) = Place(s, i)
        BY ONLY <1>1, <1>3, <2>1, <3>4, i \in 0..n+1
      <4>2. Place(s, i) # Place(s, p) /\ Place(s, i) # e
        BY ONLY <1>1, <1>4, <2>1, <3>4, i \in 0..n+1
      <4>3. q.previous[Place(s, i)] = Place(s, i - 1)
        BY ONLY <1>1, <2>1, <2>2, <3>4, i \in 0..n+1
      <4> QED
        BY ONLY <1>4, <1>9, <2>1, <4>1, <4>2, <4>3, i \in Int
    <3> QED
      BY ONLY <2>1, <1>1, <3>1, <3>2, <3>3, <3>4, i \in 0..n+1
  <2> QED
    BY <2>3, <2>4
<1> QED
  BY <1>2, <1>5, <1>6, <1>7, <1>10 DEF Lists, t

(* not_queue_unlink of the entry at place p removes it from the sequence.  *)
LEMMA UnlinkLists ==
  ASSUME NEW q \in Queues, IsRing(q), NEW s, Lists(q, s), NEW p \in 1..Len(s)
  PROVE  Lists(Unlink(q, s[p]), Abstract!RemoveAt(s, p))
<1> DEFINE t == Abstract!RemoveAt(s, p)
           e == s[p]
           r == Unlink(q, e)
           n == Len(s)
<1>1. s \in Seq(Entry) /\ n \in Nat
  BY Places DEF Lists
<1>2. /\ t \in Seq(Entry) /\ Len(t) = n - 1
      /\ \A i \in 1..n-1 : t[i] = IF i < p THEN s[i] ELSE s[i + 1]
  <2>1. t \in Seq(Entry) /\ Removed(t, s, p)
    BY ONLY <1>1, RemoveAtIs, p \in 1..Len(s)
  <2> QED
    BY ONLY <2>1 DEF Removed
<1>3. \A i \in Int : Place(t, i) = IF i < p THEN Place(s, i) ELSE Place(s, i + 1)
  BY <1>1, PlacesRemoved
<1> HIDE DEF t
<1>4. /\ \A i \in Int : Place(s, i) \in Cell
      /\ \A i, j \in 0..n+1 : Place(s, i) = Place(s, j) =>
            i = j \/ (i = 0 /\ j = n + 1) \/ (j = 0 /\ i = n + 1)
      /\ e = Place(s, p) /\ e \in Entry /\ e # End
  BY Places, EntryAssumption DEF Place
<1>5. \A i, j \in 1..Len(t) : t[i] = t[j] => i = j
  <2>1. \A i, j \in 1..n : s[i] = s[j] => i = j
    BY DEF Lists
  <2>2. p \in 1..n
    OBVIOUS
  <2> HIDE DEF n, e
  <2>3. \A i \in 1..n-1 : \E k \in 1..n : t[i] = s[k] /\ k = IF i < p THEN i ELSE i + 1
    BY ONLY <1>1, <1>2, <2>2
  <2> SUFFICES ASSUME NEW i \in 1..n-1, NEW j \in 1..n-1, t[i] = t[j] PROVE i = j
    BY <1>1, <1>2
  <2>4. PICK k \in 1..n, l \in 1..n : /\ t[i] = s[k] /\ k = (IF i < p THEN i ELSE i + 1)
                                       /\ t[j] = s[l] /\ l = (IF j < p THEN j ELSE j + 1)
    BY ONLY <2>3, i \in 1..n-1, j \in 1..n-1
  <2>5. k = l
    BY ONLY <2>1, <2>4, t[i] = t[j]
  <2> QED
    BY ONLY <1>1, <2>2, <2>4, <2>5, i \in 1..n-1, j \in 1..n-1
<1>6. LinkedIn(r) = {t[i] : i \in 1..Len(t)}
  <2>1. e \in Cell
    BY <1>4 DEF Cell
  <2>2. LinkedIn(r) = LinkedIn(q) \ {e}
    BY <2>1, UnlinkRing
  <2>3. \A i, j \in 1..n : s[i] = s[j] => i = j
    BY DEF Lists
  <2>4. LinkedIn(q) = {s[i] : i \in 1..n}
    BY DEF Lists
  <2>5. p \in 1..n
    OBVIOUS
  <2>6. e = s[p]
    OBVIOUS
  <2> HIDE DEF n, r, e
  <2>7. \A i \in 1..n-1 : \E j \in 1..n : t[i] = s[j] /\ j # p
    <3>1. \A i \in 1..n-1 : \E j \in 1..n : t[i] = s[j] /\ j = IF i < p THEN i ELSE i + 1
      BY ONLY <1>1, <1>2, <2>5
    <3> QED
      BY ONLY <2>5, <3>1
  <2>8. \A j \in 1..n : j # p => \E i \in 1..n-1 : t[i] = s[j]
    <3> SUFFICES ASSUME NEW j \in 1..n, j # p PROVE \E i \in 1..n-1 : t[i] = s[j]
      OBVIOUS
    <3>1. CASE j < p
      <4>1. j \in 1..n-1 /\ t[j] = s[j]
        BY <1>1, <1>2, <2>5, <3>1
      <4> QED
        BY <4>1
    <3>2. CASE j > p
      <4>1. j - 1 \in 1..n-1 /\ ~(j - 1 < p) /\ j - 1 + 1 = j
        BY <1>1, <2>5, <3>2
      <4>2. t[j - 1] = s[j]
        BY <1>2, <4>1
      <4> QED
        BY <4>1, <4>2
    <3> QED
      BY <1>1, <2>5, <3>1, <3>2
  <2>9. \A x : (\E i \in 1..n-1 : x = t[i]) <=> (\E j \in 1..n : x = s[j]) /\ x # e
    <3>1. \A j \in 1..n : s[j] = e <=> j = p
      BY ONLY <2>3, <2>5, <2>6
    <3>2. \A x : (\E i \in 1..n-1 : x = t[i]) => (\E j \in 1..n : x = s[j]) /\ x # e
      BY ONLY <2>7, <3>1
    <3>3. \A x : (\E j \in 1..n : x = s[j]) /\ x # e => \E i \in 1..n-1 : x = t[i]
      BY ONLY <2>8, <3>1
    <3> QED
      BY ONLY <3>2, <3>3
  <2>10. \A x : x \in LinkedIn(r) <=> \E i \in 1..n-1 : x = t[i]
    BY ONLY <2>2, <2>4, <2>9
  <2>11. Len(t) = n - 1
    BY <1>2
  <2> HIDE DEF t
  <2> QED
    BY ONLY <2>10, <2>11
<1>7. /\ q.next[e] = Place(s, p + 1) /\ q.previous[e] = Place(s, p - 1)
      /\ q.begin = Place(s, 1)
  <2>1. p \in 0..n /\ p - 1 \in 0..n /\ p - 1 + 1 = p
    BY <1>1
  <2> QED
    BY <1>4, <2>1 DEF Lists
<1>8. r.begin = Place(t, 1)
  <2>1. r.begin = IF e = Place(s, 1) THEN Place(s, p + 1) ELSE Place(s, 1)
    BY <1>4, <1>7 DEF Unlink
  <2>2. Place(s, p) = Place(s, 1) => p = 1
    BY <1>1, <1>4
  <2> HIDE DEF r, e
  <2> QED
    BY <1>1, <1>3, <1>4, <2>1, <2>2
<1>9. \A c \in Cell :
        /\ r.next[c] = IF c = e THEN NULL ELSE IF c = Place(s, p - 1) THEN Place(s, p + 1) ELSE q.next[c]
        /\ r.previous[c] = IF c = e THEN NULL ELSE IF c = Place(s, p + 1) THEN Place(s, p - 1) ELSE q.previous[c]
  BY <1>4, <1>7 DEF Unlink
<1>10. ASSUME NEW i \in 0..n-1
       PROVE  r.next[Place(t, i)] = Place(t, i + 1) /\ r.previous[Place(t, i + 1)] = Place(t, i)
  <2> HIDE DEF r, e
  <2>1. p \in 1..n
    OBVIOUS
  <2>2. \A k \in 0..n : q.next[Place(s, k)] = Place(s, k + 1) /\ q.previous[Place(s, k + 1)] = Place(s, k)
    BY DEF Lists
  <2> HIDE DEF n
  <2>3. r.next[Place(t, i)] = Place(t, i + 1)
    <3>1. CASE i < p - 1
      <4>1. Place(t, i) = Place(s, i) /\ Place(t, i + 1) = Place(s, i + 1)
        BY ONLY <1>1, <1>3, <2>1, <3>1, i \in 0..n-1
      <4>2. Place(s, i) # Place(s, p - 1) /\ Place(s, i) # e
        <5>1. /\ i \in 0..n+1 /\ p - 1 \in 0..n+1 /\ p \in 0..n+1 /\ i # n + 1
              /\ i # p - 1 /\ i # p /\ p - 1 # n + 1 /\ p # n + 1
          BY ONLY <1>1, <2>1, <3>1, i \in 0..n-1
        <5> QED
          BY ONLY <1>4, <5>1
      <4>3. q.next[Place(s, i)] = Place(s, i + 1)
        BY ONLY <1>1, <2>1, <2>2, <3>1, i \in 0..n-1
      <4> QED
        BY ONLY <1>4, <1>9, <4>1, <4>2, <4>3, i \in Int
    <3>2. CASE i = p - 1
      <4>1. Place(t, i) = Place(s, p - 1) /\ Place(t, i + 1) = Place(s, p + 1)
        BY ONLY <1>1, <1>3, <2>1, <3>2
      <4>2. Place(s, p - 1) # e
        <5>1. p - 1 \in 0..n+1 /\ p \in 0..n+1 /\ p # n + 1 /\ p # 0 /\ p - 1 # p
          BY ONLY <1>1, <2>1
        <5> QED
          BY ONLY <1>4, <5>1
      <4> QED
        BY ONLY <1>4, <1>9, <2>1, <4>1, <4>2, p - 1 \in Int
    <3>3. CASE i >= p
      <4>1. Place(t, i) = Place(s, i + 1) /\ Place(t, i + 1) = Place(s, i + 1 + 1)
        BY ONLY <1>1, <1>3, <2>1, <3>3, i \in 0..n-1
      <4>2. Place(s, i + 1) # Place(s, p - 1) /\ Place(s, i + 1) # e
        <5>1. /\ i + 1 \in 0..n+1 /\ p - 1 \in 0..n+1 /\ p \in 0..n+1 /\ i + 1 # n + 1
              /\ i + 1 # p - 1 /\ i + 1 # p /\ i + 1 # 0 /\ p # n + 1
          BY ONLY <1>1, <2>1, <3>3, i \in 0..n-1
        <5> QED
          BY ONLY <1>4, <5>1
      <4>3. q.next[Place(s, i + 1)] = Place(s, i + 1 + 1)
        BY ONLY <1>1, <2>1, <2>2, <3>3, i \in 0..n-1
      <4> QED
        BY ONLY <1>4, <1>9, <4>1, <4>2, <4>3, i + 1 \in Int
    <3> QED
      BY ONLY <2>1, <1>1, <3>1, <3>2, <3>3, i \in 0..n-1
  <2>4. r.previous[Place(t, i + 1)] = Place(t, i)
    <3>1. CASE i + 1 < p
      <4>1. Place(t, i) = Place(s, i) /\ Place(t, i + 1) = Place(s, i + 1)
        BY ONLY <1>1, <1>3, <2>1, <3>1, i \in 0..n-1
      <4>2. Place(s, i + 1) # Place(s, p + 1) /\ Place(s, i + 1) # e
        <5>1. /\ i + 1 \in 0..n+1 /\ p + 1 \in 0..n+1 /\ p \in 0..n+1 /\ i + 1 # 0
              /\ i + 1 # p + 1 /\ i + 1 # p /\ p + 1 # 0 /\ p # 0
          BY ONLY <1>1, <2>1, <3>1, i \in 0..n-1
        <5> QED
          BY ONLY <1>4, <5>1
      <4>3. q.previous[Place(s, i + 1)] = Place(s, i)
        BY ONLY <1>1, <2>1, <2>2, <3>1, i \in 0..n-1
      <4> QED
        BY ONLY <1>4, <1>9, <4>1, <4>2, <4>3, i + 1 \in Int
    <3>2. CASE i + 1 = p
      <4>1. Place(t, i) = Place(s, p - 1) /\ Place(t, i + 1) = Place(s, p + 1)
        <5>1. i = p - 1 /\ i < p /\ i \in Int /\ i + 1 \in Int /\ ~(i + 1 < p) /\ i + 1 + 1 = p + 1
          BY ONLY <1>1, <2>1, <3>2, i \in 0..n-1
        <5> QED
          BY ONLY <1>3, <5>1
      <4>2. Place(s, p + 1) # e
        <5>1. p + 1 \in 0..n+1 /\ p \in 0..n+1 /\ p # 0 /\ p + 1 # 0 /\ p + 1 # p
          BY ONLY <1>1, <2>1
        <5> QED
          BY ONLY <1>4, <5>1
      <4> QED
        BY ONLY <1>4, <1>9, <2>1, <4>1, <4>2, p + 1 \in Int
    <3>3. CASE i >= p
      <4>1. Place(t, i) = Place(s, i + 1) /\ Place(t, i + 1) = Place(s, i + 1 + 1)
        BY ONLY <1>1, <1>3, <2>1, <3>3, i \in 0..n-1
      <4>2. Place(s, i + 1 + 1) # Place(s, p + 1) /\ Place(s, i + 1 + 1) # e
        <5>1. /\ i + 1 + 1 \in 0..n+1 /\ p + 1 \in 0..n+1 /\ p \in 0..n+1 /\ i + 1 + 1 # 0
              /\ i + 1 + 1 # p + 1 /\ i + 1 + 1 # p /\ p + 1 # 0 /\ p # 0
          BY ONLY <1>1, <2>1, <3>3, i \in 0..n-1
        <5> QED
          BY ONLY <1>4, <5>1
      <4>3. q.previous[Place(s, i + 1 + 1)] = Place(s, i + 1)
        BY ONLY <1>1, <2>1, <2>2, <3>3, i \in 0..n-1
      <4> QED
        BY ONLY <1>4, <1>9, <4>1, <4>2, <4>3, i + 1 + 1 \in Int
    <3> QED
      BY ONLY <2>1, <1>1, <3>1, <3>2, <3>3, i \in 0..n-1
  <2> QED
    BY <2>3, <2>4
<1>11. Lists(r, t)
  <2> HIDE DEF r, e, n
  <2> QED
    BY ONLY <1>2, <1>5, <1>6, <1>8, <1>10 DEF Lists
<1> QED
  BY <1>11 DEF t

(* A set of natural numbers that is not empty has a least element.  *)
LEMMA Least == ASSUME NEW T, T \subseteq Nat, T # {}
               PROVE  \E x \in T : \A y \in T : x <= y
<1>1. PICK x \in T : \A y \in T : ~(<<y, x>> \in OpToRel(<, Nat))
  BY NatLessThanWellFounded, WFMin
<1>2. \A y \in T : ~(y < x)
  BY <1>1, x \in Nat DEF OpToRel
<1> QED
  BY <1>2

(* The walk from begin stands on place i after i - 1 steps: at the least place
   where it did not, the place before would contradict that.  *)
LEMMA WalkMeets ==
  ASSUME NEW q, NEW s, Lists(q, s)
  PROVE  \A i \in Nat \ {0} : Walk(q)[i] = Place(s, i)
<1> DEFINE W(at) == [i \in Nat \ {0} |->
                       IF i = 1 THEN q.begin
                       ELSE IF at[i - 1] \in Entry THEN q.next[at[i - 1]] ELSE at[i - 1]]
           w == [i \in Nat \ {0} |-> Place(s, i)]
<1>1. /\ Len(s) \in Nat /\ q.begin = Place(s, 1)
      /\ \A i \in Int : Place(s, i) \in Cell
      /\ \A i \in Int : Place(s, i) = End <=> i \notin 1..Len(s)
      /\ \A i \in 0..Len(s) : q.next[Place(s, i)] = Place(s, i + 1)
  BY Places DEF Lists
<1>2. w = W(w)
  <2>1. ASSUME NEW i \in Nat \ {0}, i # 1
        PROVE  Place(s, i) = IF Place(s, i - 1) \in Entry THEN q.next[Place(s, i - 1)]
                             ELSE Place(s, i - 1)
    <3>1. CASE i - 1 \in 1..Len(s)
      <4>1. Place(s, i - 1) \in Entry
        BY <1>1, <3>1 DEF Cell
      <4>2. i - 1 \in 0..Len(s) /\ i - 1 + 1 = i
        BY <3>1, <1>1
      <4> QED
        BY <1>1, <4>1, <4>2
    <3>2. CASE i - 1 \notin 1..Len(s)
      <4>1. i - 1 \in Int /\ i \notin 1..Len(s)
        BY <1>1, <2>1, <3>2
      <4>2. Place(s, i - 1) = End /\ Place(s, i) = End
        BY <1>1, <3>2, <4>1
      <4> QED
        BY <4>2, EntryAssumption
    <3> QED
      BY <3>1, <3>2
  <2>2. ASSUME NEW i \in Nat \ {0}
        PROVE  w[i] = IF i = 1 THEN q.begin
                      ELSE IF w[i - 1] \in Entry THEN q.next[w[i - 1]] ELSE w[i - 1]
    <3>1. CASE i = 1
      BY <1>1, <3>1
    <3>2. CASE i # 1
      <4>1. i - 1 \in Nat \ {0}
        BY <3>2
      <4> QED
        BY <2>1, <3>2, <4>1
    <3> QED
      BY <3>1, <3>2
  <2> HIDE DEF w
  <2>3. w = [i \in Nat \ {0} |-> w[i]]
    BY DEF w
  <2> QED
    BY ONLY <2>2, <2>3
<1>3. Walk(q) = W(Walk(q))
  <2>1. Walk(q) = CHOOSE at : at = W(at)
    BY DEF Walk
  <2> HIDE DEF W
  <2> QED
    BY <1>2, <2>1
<1>4. \A i \in Nat \ {0} : Walk(q)[i] = IF i = 1 THEN q.begin
        ELSE IF Walk(q)[i - 1] \in Entry THEN q.next[Walk(q)[i - 1]] ELSE Walk(q)[i - 1]
  BY <1>3
<1>5. \A i \in Nat \ {0} : w[i] = IF i = 1 THEN q.begin
        ELSE IF w[i - 1] \in Entry THEN q.next[w[i - 1]] ELSE w[i - 1]
  <2> HIDE DEF w
  <2> QED
    BY <1>2
<1> DEFINE T == {i \in Nat \ {0} : Walk(q)[i] # w[i]}
<1>6. T = {}
  <2> SUFFICES ASSUME T # {} PROVE FALSE
    OBVIOUS
  <2>1. PICK i \in T : \A j \in T : i <= j
    BY Least
  <2> HIDE DEF w
  <2>2. CASE i = 1
    BY <1>4, <1>5, <2>1, <2>2
  <2>3. CASE i # 1
    <3>1. i \in Nat \ {0} /\ i - 1 \in Nat \ {0} /\ i - 1 \notin T
      BY <2>1, <2>3
    <3>2. Walk(q)[i - 1] = w[i - 1]
      BY <3>1
    <3> QED
      BY <1>4, <1>5, <2>1, <2>3, <3>1, <3>2
  <2> QED
    BY <2>2, <2>3
<1> QED
  BY <1>6

(* So the walk returns the sequence that lists the ring, and counts it.  *)
LEMMA ContentsListed ==
  ASSUME NEW q, NEW s, Lists(q, s)
  PROVE  ContentsOf(q) = s /\ Cardinality(LinkedIn(q)) = Len(s)
<1> DEFINE n == Len(s)
<1>1. /\ s \in Seq(Entry) /\ n \in Nat /\ DOMAIN s = 1..n /\ s \in [1..n -> Entry]
      /\ \A i, j \in 1..n : s[i] = s[j] => i = j
      /\ LinkedIn(q) = {s[i] : i \in 1..n}
  BY LenProperties DEF Lists
<1>2. IsFiniteSet(1..n) /\ Cardinality(1..n) = n
  BY <1>1, FS_Interval
<1>3. s \in Injection(1..n, Entry)
  BY ONLY <1>1 DEF Injection, IsInjective
<1>4. n <= Cardinality(Entry) /\ Cardinality(Entry) \in Nat
  BY <1>2, <1>3, FS_Injection, FS_CardinalityType, EntryAssumption
<1>5. Cardinality(LinkedIn(q)) = n
  <2>1. s \in [1..n -> LinkedIn(q)]
    BY <1>1
  <2>2. s \in Injection(1..n, LinkedIn(q))
    BY ONLY <1>1, <2>1 DEF Injection, IsInjective
  <2>3. s \in Surjection(1..n, LinkedIn(q))
    BY ONLY <1>1, <2>1 DEF Surjection
  <2> QED
    BY <1>2, <2>2, <2>3, FS_Surjection
<1>6. Met(q) = 1..n
  <2>1. \A i \in 1..Cardinality(Entry) : Walk(q)[i] = Place(s, i)
    BY <1>4, WalkMeets
  <2>2. \A i \in 1..Cardinality(Entry) : Place(s, i) \in Entry <=> i \in 1..n
    <3>1. \A i \in Int : Place(s, i) \in Cell /\ (Place(s, i) = End <=> i \notin 1..n)
      BY Places
    <3> QED
      BY <1>4, <3>1, EntryAssumption DEF Cell
  <2> QED
    BY <1>1, <1>4, <2>1, <2>2 DEF Met
<1>7. \A i \in 1..n : Walk(q)[i] = s[i]
  <2>1. \A i \in 1..n : i \in Nat \ {0}
    BY <1>1
  <2> QED
    BY <2>1, WalkMeets DEF Place
<1>8. ContentsOf(q) = [i \in 1..n |-> Walk(q)[i]]
  BY <1>2, <1>6 DEF ContentsOf
<1>9. ContentsOf(q) = s
  BY ONLY <1>1, <1>7, <1>8
<1> QED
  BY <1>5, <1>9

(* Inserting at the ends, removing at the ends, and removing what was inserted.  *)
LEMMA InsertAtEnds ==
  ASSUME NEW S, NEW s \in Seq(S), NEW e \in S
  PROVE  /\ Abstract!InsertAt(s, Len(s) + 1, e) = Append(s, e)
         /\ Abstract!InsertAt(s, 1, e) = <<e>> \o s
<1>1. Len(s) \in Nat
  BY LenProperties
<1>2. Abstract!InsertAt(s, Len(s) + 1, e) = Append(s, e)
  <2> DEFINE t == Abstract!InsertAt(s, Len(s) + 1, e)
             u == Append(s, e)
  <2>1. Len(s) + 1 \in 1..Len(s)+1
    BY <1>1
  <2>2. /\ t \in Seq(S) /\ Len(t) = Len(s) + 1
        /\ \A i \in 1..Len(s)+1 :
              t[i] = IF i < Len(s) + 1 THEN s[i] ELSE IF i = Len(s) + 1 THEN e ELSE s[i - 1]
    <3>1. t \in Seq(S) /\ Inserted(t, s, Len(s) + 1, e)
      BY ONLY <2>1, InsertAtIs, s \in Seq(S), e \in S
    <3> QED
      BY ONLY <3>1 DEF Inserted
  <2>3. /\ u \in Seq(S) /\ Len(u) = Len(s) + 1
        /\ \A i \in 1..Len(s) : u[i] = s[i]
        /\ u[Len(s) + 1] = e
    BY ONLY AppendProperties, s \in Seq(S), e \in S
  <2> HIDE DEF t, u
  <2>4. \A i \in 1..Len(t) : t[i] = u[i]
    BY ONLY <1>1, <2>2, <2>3
  <2>5. t = u
    BY ONLY <2>2, <2>3, <2>4, SeqEqual
  <2> QED
    BY <2>5 DEF t, u
<1>3. Abstract!InsertAt(s, 1, e) = <<e>> \o s
  <2> DEFINE k == 1
             t == Abstract!InsertAt(s, k, e)
             u == <<e>> \o s
  <2>1. k \in 1..Len(s)+1
    BY <1>1
  <2> HIDE DEF k
  <2>2. /\ t \in Seq(S) /\ Len(t) = Len(s) + 1
        /\ \A i \in 1..Len(s)+1 :
              t[i] = IF i < k THEN s[i] ELSE IF i = k THEN e ELSE s[i - 1]
    <3>1. t \in Seq(S) /\ Inserted(t, s, k, e)
      BY ONLY <2>1, InsertAtIs, s \in Seq(S), e \in S
    <3> QED
      BY ONLY <3>1 DEF Inserted
  <2>3. <<e>> \in Seq(S) /\ Len(<<e>>) = 1 /\ <<e>>[1] = e
    OBVIOUS
  <2>4. /\ u \in Seq(S) /\ Len(u) = Len(<<e>>) + Len(s)
        /\ \A i \in 1..(Len(<<e>>) + Len(s)) :
               u[i] = IF i <= Len(<<e>>) THEN <<e>>[i] ELSE s[i - Len(<<e>>)]
    BY ONLY <2>3, ConcatProperties, s \in Seq(S)
  <2> HIDE DEF t, u
  <2>5. Len(u) = Len(s) + 1 /\ \A i \in 1..Len(s)+1 : u[i] = IF i <= 1 THEN e ELSE s[i - 1]
    BY ONLY <1>1, <2>3, <2>4
  <2>6. \A i \in 1..Len(t) : t[i] = u[i]
    BY ONLY <1>1, <2>2, <2>5 DEF k
  <2>7. t \in Seq(S) /\ u \in Seq(S) /\ Len(t) = Len(u)
    BY ONLY <2>2, <2>4, <2>5
  <2>8. t = u
    BY ONLY <2>6, <2>7, SeqEqual
  <2> QED
    BY <2>8 DEF t, u, k
<1> QED
  BY <1>2, <1>3

LEMMA RemoveAtEnds ==
  ASSUME NEW S, NEW s \in Seq(S), s # <<>>
  PROVE  /\ Abstract!RemoveAt(s, Len(s)) = Abstract!Front(s)
         /\ Abstract!RemoveAt(s, 1) = Tail(s)
<1>1. Len(s) \in Nat \ {0} /\ \A i \in 1..Len(s) : s[i] \in S
  BY EmptySeq, ElementOfSeq
<1>2. Abstract!RemoveAt(s, Len(s)) = Abstract!Front(s)
  <2> DEFINE u == Abstract!Front(s)
  <2>1. SubSeq(s, Len(s) + 1, Len(s)) = <<>>
    BY <1>1, SubSeqEmpty
  <2>2. u \in Seq(S)
    <3>1. \A i \in 1..(Len(s) - 1) : s[i] \in S
      BY <1>1
    <3> QED
      BY <1>1, <3>1, SubSeqProperties DEF Abstract!Front
  <2>3. Abstract!RemoveAt(s, Len(s)) = u \o <<>>
    BY <2>1 DEF Abstract!RemoveAt, Abstract!Front
  <2> HIDE DEF u
  <2> QED
    BY <2>2, <2>3, ConcatEmptySeq DEF u
<1>3. Abstract!RemoveAt(s, 1) = Tail(s)
  <2> DEFINE u == Tail(s)
  <2>1. SubSeq(s, 1, 1 - 1) = <<>>
    BY SubSeqEmpty
  <2>2. u \in Seq(S) /\ u = SubSeq(s, 1 + 1, Len(s))
    BY HeadTailProperties, TailIsSubSeq
  <2>3. Abstract!RemoveAt(s, 1) = <<>> \o u
    BY <2>1, <2>2 DEF Abstract!RemoveAt
  <2> HIDE DEF u
  <2> QED
    BY <2>2, <2>3, ConcatEmptySeq DEF u
<1> QED
  BY <1>2, <1>3

LEMMA InsertRemoved ==
  ASSUME NEW S, NEW s \in Seq(S), NEW p \in 1..Len(s)
  PROVE  Abstract!InsertAt(Abstract!RemoveAt(s, p), p, s[p]) = s
<1> DEFINE t == Abstract!RemoveAt(s, p)
           e == s[p]
           u == Abstract!InsertAt(t, p, e)
<1>1. Len(s) \in Nat /\ e \in S
  BY LenProperties, ElementOfSeq
<1>2. /\ t \in Seq(S) /\ Len(t) = Len(s) - 1
      /\ \A i \in 1..Len(s)-1 : t[i] = IF i < p THEN s[i] ELSE s[i + 1]
  <2>1. t \in Seq(S) /\ Removed(t, s, p)
    BY ONLY RemoveAtIs, s \in Seq(S), p \in 1..Len(s)
  <2> QED
    BY ONLY <2>1 DEF Removed
<1> HIDE DEF t
<1>3. p \in 1..Len(t)+1
  BY <1>1, <1>2
<1>4. /\ u \in Seq(S) /\ Len(u) = Len(t) + 1
      /\ \A i \in 1..Len(t)+1 : u[i] = IF i < p THEN t[i] ELSE IF i = p THEN e ELSE t[i - 1]
  <2> HIDE DEF e
  <2>1. u \in Seq(S) /\ Inserted(u, t, p, e)
    BY ONLY <1>1, <1>2, <1>3, InsertAtIs
  <2> QED
    BY ONLY <2>1 DEF Inserted
<1> HIDE DEF u
<1>5. ASSUME NEW i \in 1..Len(u) PROVE u[i] = s[i]
  <2>1. CASE i < p
    BY ONLY <1>1, <1>2, <1>4, <2>1, i \in 1..Len(u), p \in 1..Len(s)
  <2>2. CASE i = p
    BY ONLY <1>1, <1>3, <1>4, <2>2
  <2>3. CASE i > p
    <3>1. /\ i \in 1..Len(t)+1 /\ ~(i < p) /\ i # p
          /\ i - 1 \in 1..Len(s)-1 /\ ~(i - 1 < p) /\ i - 1 + 1 = i
      BY ONLY <1>1, <1>2, <1>4, <2>3, i \in 1..Len(u), p \in 1..Len(s)
    <3>2. u[i] = t[i - 1] /\ t[i - 1] = s[i - 1 + 1]
      BY ONLY <1>2, <1>4, <3>1
    <3> QED
      BY ONLY <3>1, <3>2
  <2> QED
    BY ONLY <1>1, <1>4, <1>2, <2>1, <2>2, <2>3, i \in 1..Len(u), p \in 1..Len(s)
<1>6. Len(u) = Len(s)
  BY <1>1, <1>2, <1>4
<1>7. u = s
  BY ONLY <1>4, <1>5, <1>6, SeqEqual, s \in Seq(S)
<1> QED
  BY <1>7 DEF t, u

(* Unlinking an entry that is not linked changes nothing.  *)
LEMMA UnlinkNothing ==
  ASSUME NEW q \in Queues, IsRing(q), NEW e \in Cell, e \notin LinkedIn(q)
  PROVE  Unlink(q, e) = q
<1>1. CASE e = End
  BY <1>1 DEF Unlink
<1>2. CASE e # End
  <2>1. e \in Entry /\ q.next[e] = NULL /\ q.previous[e] = NULL
    BY <1>2 DEF Cell, LinkedIn, IsRing
  <2>2. NULL \notin Cell /\ q.begin # e
    BY <1>2, EntryAssumption DEF Cell, IsRing
  <2>3. /\ Unlink(q, e).begin = q.begin
        /\ Unlink(q, e).next = q.next
        /\ Unlink(q, e).previous = q.previous
    BY <1>2, <2>1, <2>2 DEF Unlink, Queues
  <2>4. Unlink(q, e) \in Queues
    BY UnlinkRing
  <2> HIDE DEF Unlink
  <2> QED
    BY <2>3, <2>4 DEF Queues
<1> QED
  BY <1>1, <1>2

-----------------------------------------------------------------------------
(* There is one ring: some sequence lists it.  *)
Listed == \E s : Lists(queue, s)

(* The empty ring is the empty sequence.  *)
LEMMA ListedInit == Init => Listed /\ Abstract!Init
<1> SUFFICES ASSUME Init PROVE Listed /\ Abstract!Init
  OBVIOUS
<1>1. Linked = {}
  BY EntryAssumption DEF Init, Linked, LinkedIn, Cell
<1>2. \A i \in Int : Place(<<>>, i) = End
  BY DEF Place
<1>3. queue.begin = End /\ queue.next[End] = End /\ queue.previous[End] = End
  BY DEF Init, Cell
<1>4. Lists(queue, <<>>)
  BY <1>1, <1>2, <1>3 DEF Lists, Linked
<1>5. Contents = <<>>
  BY <1>4, ContentsListed DEF Contents
<1> QED
  BY <1>4, <1>5 DEF Listed, Abstract!Init, Init

(* Every step of the ring is the step of the sequence that has its name, or leaves
   the sequence as it is; and the ring stays one ring.  *)
LEMMA Simulation ==
  IInv /\ Listed /\ [Next]_vars => Listed' /\ [Abstract!Next]_(Abstract!vars)
<1> SUFFICES ASSUME IInv, Listed, [Next]_vars
             PROVE  Listed' /\ (Abstract!Next \/ UNCHANGED <<Contents, detached, call>>)
  BY DEF Abstract!vars
<1>1. PICK s : Lists(queue, s)
  BY DEF Listed
<1> DEFINE n == Len(s)
<1>2. Contents = s
  BY <1>1, ContentsListed DEF Contents
<1>3. \A t : Lists(queue', t) => Contents' = t /\ Listed'
  BY ContentsListed DEF Contents, Listed
<1>4. /\ s \in Seq(Entry) /\ n \in Nat
      /\ \A i \in 1..n : s[i] \in Entry /\ s[i] \in LinkedIn(queue)
      /\ LinkedIn(queue) = {s[i] : i \in 1..n}
      /\ s = <<>> <=> n = 0
  BY <1>1, Places, EmptySeq DEF Lists
<1>5. /\ queue \in Queues /\ IsRing(queue) /\ End \notin Entry
      /\ detached \subseteq Entry /\ detached \cap Linked = {}
  BY EntryAssumption DEF IInv, TypeOK, Ring
<1>6. Abstract!Available = Available
  <2>1. DOMAIN s = 1..n
    BY <1>4, LenProperties
  <2> QED
    BY <1>2, <1>4, <2>1 DEF Abstract!Available, Abstract!ToSet, Available, Linked
<1>7. /\ queue.begin = Place(s, 1) /\ queue.previous[End] = Place(s, n)
      /\ \A p \in 1..n : queue.next[s[p]] = Place(s, p + 1)
      /\ Place(s, n + 1) = End
      /\ n # 0 => Place(s, 1) = s[1] /\ Place(s, n) = s[n]
      /\ n = 0 => Place(s, 1) = End /\ Place(s, n) = End
  <2>1. Place(s, n + 1) = End /\ n \in 0..n
    BY <1>4 DEF Place
  <2>2. ASSUME NEW p \in 1..n PROVE queue.next[s[p]] = Place(s, p + 1)
    <3>1. p \in 0..n /\ Place(s, p) = s[p]
      BY <1>4 DEF Place
    <3> QED
      BY <1>1, <3>1 DEF Lists
  <2>3. queue.begin = Place(s, 1) /\ queue.previous[End] = Place(s, n)
    BY <1>1, <2>1 DEF Lists
  <2>4. /\ n # 0 => Place(s, 1) = s[1] /\ Place(s, n) = s[n]
        /\ n = 0 => Place(s, 1) = End /\ Place(s, n) = End
    BY <1>4 DEF Place
  <2> QED
    BY <2>1, <2>2, <2>3, <2>4
<1> HIDE DEF n
<1>8. UNCHANGED queue => Listed' /\ UNCHANGED Contents
  BY <1>1, <1>2, <1>3
<1>9. ASSUME NEW op, NEW p \in 1..n+1, Push(op, Place(s, p))
      PROVE  /\ Listed' /\ UNCHANGED detached
             /\ \/ \E e \in Available : Contents' = Abstract!InsertAt(s, p, e) /\ Returned(op, e)
                \/ Available = {} /\ Returned(op, ERROR) /\ UNCHANGED Contents
  <2>1. CASE UNCHANGED queue /\ Available = {} /\ Returned(op, ERROR)
    BY <1>8, <1>9, <2>1 DEF Push
  <2>2. CASE \E e \in Available : queue' = Link(queue, Place(s, p), e) /\ Returned(op, e)
    <3>1. PICK e \in Available : queue' = Link(queue, Place(s, p), e) /\ Returned(op, e)
      BY <2>2
    <3>2. e \in Entry \ LinkedIn(queue)
      BY DEF Available, Linked
    <3>3. Lists(queue', Abstract!InsertAt(s, p, e))
      BY <1>1, <1>5, <3>1, <3>2, LinkLists DEF n
    <3> QED
      BY <1>3, <1>9, <3>1, <3>3 DEF Push
  <2> QED
    BY <1>9, <2>1, <2>2 DEF Push
<1>10. ASSUME NEW p \in 1..n, queue' = Unlink(queue, s[p])
       PROVE  Listed' /\ Contents' = Abstract!RemoveAt(s, p)
  BY <1>1, <1>3, <1>5, <1>10, UnlinkLists DEF n
<1>11. CASE RightPush
  <2>1. n + 1 \in 1..n+1 /\ Push("right_push", Place(s, n + 1))
    BY <1>4, <1>7, <1>11 DEF RightPush
  <2>2. \A e \in Available : Abstract!InsertAt(s, n + 1, e) = Append(s, e)
    BY <1>4, InsertAtEnds DEF Available, n
  <2> QED
    BY <1>2, <1>6, <1>9, <2>1, <2>2
       DEF Abstract!Next, Abstract!RightPush, Abstract!AllocationFails, Abstract!Returned, Returned
<1>12. CASE LeftPush
  <2>1. 1 \in 1..n+1 /\ Push("left_push", Place(s, 1))
    BY <1>4, <1>7, <1>12 DEF LeftPush
  <2>2. \A e \in Available : Abstract!InsertAt(s, 1, e) = <<e>> \o s
    BY <1>4, InsertAtEnds DEF Available
  <2>3. /\ Listed' /\ UNCHANGED detached
        /\ \/ \E e \in Available : Contents' = Abstract!InsertAt(s, 1, e) /\ Returned("left_push", e)
           \/ Available = {} /\ Returned("left_push", ERROR) /\ UNCHANGED Contents
    BY <1>9, <2>1
  <2> QED
    BY <1>2, <1>6, <2>2, <2>3
       DEF Abstract!Next, Abstract!LeftPush, Abstract!AllocationFails, Abstract!Returned, Returned
<1>13. CASE Insert
  <2>1. PICK index \in Linked \cup {End} : Push("insert", index)
    BY <1>13 DEF Insert
  <2>2. PICK p \in 1..n+1 : index = Place(s, p)
    <3>1. CASE index = End
      <4>1. n + 1 \in 1..n+1
        BY <1>4
      <4> QED
        BY <1>7, <3>1, <4>1
    <3>2. CASE index \in Linked
      <4>1. PICK p \in 1..n : index = s[p]
        BY <1>4, <3>2 DEF Linked
      <4>2. p \in 1..n+1 /\ Place(s, p) = s[p]
        BY <1>4 DEF Place, n
      <4> QED
        BY <4>1, <4>2
    <3> QED
      BY <3>1, <3>2
  <2>3. /\ Listed' /\ UNCHANGED detached
        /\ \/ \E e \in Available : Contents' = Abstract!InsertAt(s, p, e) /\ Returned("insert", e)
           \/ Available = {} /\ Returned("insert", ERROR) /\ UNCHANGED Contents
    BY <1>9, <2>1, <2>2
  <2>4. p \in 1..Len(Contents)+1
    BY <1>2 DEF n
  <2> QED
    BY <1>2, <1>6, <2>3, <2>4
       DEF Abstract!Next, Abstract!Insert, Abstract!AllocationFails, Abstract!Returned, Returned
<1>14. CASE RightPop
  <2>1. CASE n = 0
    <3>1. Returned("right_pop", NULL) /\ UNCHANGED <<queue, detached>>
      BY <1>7, <1>14, <2>1 DEF RightPop, IsEmpty
    <3> QED
      BY <1>2, <1>4, <1>8, <2>1, <3>1 DEF Abstract!Next, Abstract!RightPop, Abstract!Returned, Returned
  <2>2. CASE n # 0
    <3>1. n \in 1..n /\ 1 \in 1..n
      BY <1>4, <2>2
    <3>2. ~IsEmpty(queue)
      BY <1>4, <1>5, <1>7, <2>2, <3>1 DEF IsEmpty
    <3>3. /\ queue' = Unlink(queue, s[n]) /\ detached' = detached \cup {s[n]}
          /\ Returned("right_pop", s[n])
      BY <1>7, <1>14, <2>2, <3>2 DEF RightPop, LastEntry
    <3>4. Listed' /\ Contents' = Abstract!RemoveAt(s, n)
      BY <1>10, <3>1, <3>3
    <3>5. Abstract!RemoveAt(s, n) = Abstract!Front(s) /\ Abstract!Last(s) = s[n] /\ s # <<>>
      BY <1>4, <2>2, RemoveAtEnds DEF Abstract!Last, n
    <3> QED
      BY <1>2, <3>3, <3>4, <3>5 DEF Abstract!Next, Abstract!RightPop, Abstract!Returned, Returned
  <2> QED
    BY <2>1, <2>2
<1>15. CASE LeftPop
  <2>1. CASE n = 0
    <3>1. queue.begin = End
      BY <1>7, <2>1
    <3>2. Unlink(queue, End) = queue /\ Owned(End) = {}
      BY DEF Unlink, Owned
    <3>3. Returned("left_pop", End) /\ UNCHANGED <<queue, detached>>
      BY <1>15, <3>1, <3>2 DEF LeftPop
    <3> QED
      BY <1>2, <1>4, <1>8, <2>1, <3>3 DEF Abstract!Next, Abstract!LeftPop, Abstract!Returned, Returned
  <2>2. CASE n # 0
    <3>1. 1 \in 1..n
      BY <1>4, <2>2
    <3>2. queue.begin = s[1] /\ s[1] \in Entry /\ Owned(s[1]) = {s[1]}
      BY <1>4, <1>5, <1>7, <2>2, <3>1 DEF Owned
    <3>3. /\ queue' = Unlink(queue, s[1]) /\ detached' = detached \cup {s[1]}
          /\ Returned("left_pop", s[1])
      BY <1>15, <3>2 DEF LeftPop
    <3>4. Listed' /\ Contents' = Abstract!RemoveAt(s, 1)
      BY <1>10, <3>1, <3>3
    <3>5. Abstract!RemoveAt(s, 1) = Tail(s) /\ s # <<>>
      BY <1>4, <2>2, RemoveAtEnds
    <3>6. Head(s) = s[1]
      BY <1>4, <3>5
    <3> QED
      BY <1>2, <3>3, <3>4, <3>5, <3>6 DEF Abstract!Next, Abstract!LeftPop, Abstract!Returned, Returned
  <2> QED
    BY <2>1, <2>2
<1>16. CASE UnlinkEntry
  <2>1. PICK e \in Linked \cup detached \cup {End} :
           /\ queue' = Unlink(queue, e)
           /\ detached' = detached \cup Owned(e)
           /\ Returned("unlink", e)
    BY <1>16 DEF UnlinkEntry
  <2>2. CASE e \in Linked
    <3>1. PICK p \in 1..n : e = s[p]
      BY <1>4, <2>2 DEF Linked
    <3>2. Owned(e) = {s[p]}
      BY <1>4, <1>5, <3>1 DEF Owned
    <3>3. Listed' /\ Contents' = Abstract!RemoveAt(s, p)
      BY <1>10, <2>1, <3>1
    <3>4. Contents' = Abstract!RemoveAt(Contents, p) /\ p \in 1..Len(Contents) /\ e = Contents[p]
      BY <1>2, <3>1, <3>3 DEF n
    <3> QED
      BY <2>1, <3>1, <3>2, <3>3, <3>4, <1>2 DEF Abstract!Next, Abstract!Unlink, Abstract!Returned, Returned
  <2>3. CASE e \notin Linked
    <3>1. e \in detached \cup {End} /\ e \in Cell
      BY <1>5, <2>1, <2>3 DEF Cell
    <3>2. UNCHANGED queue
      BY <1>5, <2>1, <2>3, <3>1, UnlinkNothing DEF Linked
    <3>3. UNCHANGED detached
      BY <2>1, <3>1 DEF Owned
    <3> QED
      BY <1>8, <2>1, <3>1, <3>2, <3>3 DEF Abstract!Next, Abstract!Unlink, Abstract!Returned, Returned
  <2> QED
    BY <2>2, <2>3
<1>17. CASE Free
  BY <1>8, <1>17 DEF Free, Abstract!Next, Abstract!Free, Abstract!Returned, Returned
<1>18. CASE Count
  BY <1>8, <1>18 DEF Count, Abstract!Next, Abstract!Count, Abstract!Returned, Returned
<1>19. CASE StartLoop
  BY <1>8, <1>19 DEF StartLoop
<1>20. CASE EndLoop
  <2>1. Listed' /\ UNCHANGED <<Contents, detached>> /\ Returned(pc, NULL)
    BY <1>8, <1>20 DEF EndLoop
  <2>2. CASE pc = "sort"
    BY <2>1, <2>2 DEF Abstract!Next, Abstract!Sorted, Abstract!Returned, Returned
  <2>3. CASE pc = "clear"
    <3>1. queue.begin = End
      BY <1>20, <2>3 DEF EndLoop, IInv, ClearAtBegin
    <3>2. n = 0
      <4> SUFFICES ASSUME n # 0 PROVE FALSE
        OBVIOUS
      <4>1. 1 \in 1..n
        BY <1>4
      <4> QED
        BY <1>4, <1>5, <1>7, <3>1, <4>1
    <3> QED
      BY <1>2, <1>4, <2>1, <2>3, <3>2 DEF Abstract!Next, Abstract!Cleared, Abstract!Returned, Returned
  <2> QED
    BY <1>20, <2>2, <2>3 DEF EndLoop, IInv, TypeOK
<1>21. CASE SortStep
  <2>1. CASE UNCHANGED queue
    BY <1>8, <1>21, <2>1 DEF SortStep
  <2>2. CASE Following(b) # End /\ queue' = Link(Unlink(queue, b), Following(b), b)
    <3>1. b \in Linked
      BY <1>21 DEF SortStep, IInv, CursorInRing
    <3>2. PICK p \in 1..n : b = s[p]
      BY <1>4, <3>1 DEF Linked
    <3>3. Following(b) = Place(s, p + 1)
      BY <1>7, <3>2 DEF Following
    <3> DEFINE q == Unlink(queue, b)
               t == Abstract!RemoveAt(s, p)
    <3>4. Lists(q, t)
      BY <1>1, <1>5, <3>2, UnlinkLists DEF n
    <3>5. q \in Queues /\ IsRing(q) /\ b \in Entry \ LinkedIn(q)
      BY <1>4, <1>5, <3>2, UnlinkRing DEF Cell
    <3>6. Place(t, p) = Place(s, p + 1) /\ Len(t) = n - 1
      <4>1. Removed(t, s, p)
        BY <1>4, RemoveAtIs DEF n
      <4>2. Place(t, p) = Place(s, p + 1)
        BY <1>4, PlacesRemoved DEF n
      <4> QED
        BY <4>1, <4>2 DEF Removed, n
    <3> HIDE DEF q, t
    <3>7. p \in 1..Len(t)+1
      BY <1>4, <3>6
    <3>8. Lists(Link(q, Place(t, p), b), Abstract!InsertAt(t, p, b))
      BY <3>4, <3>5, <3>7, LinkLists
    <3>9. Abstract!InsertAt(t, p, b) = s
      BY <1>4, <3>2, InsertRemoved DEF t, n
    <3>10. Lists(queue', s)
      BY <2>2, <3>3, <3>6, <3>8, <3>9 DEF q
    <3> QED
      BY <1>2, <1>3, <1>21, <3>10 DEF SortStep
  <2> QED
    BY <1>21, <2>1, <2>2 DEF SortStep
<1>22. CASE ClearStep
  <2>1. b = queue.begin /\ b # End /\ queue' = Unlink(queue, b) /\ UNCHANGED <<detached, call>>
    BY <1>22 DEF ClearStep, IInv, ClearAtBegin
  <2>2. n # 0
    BY <1>7, <2>1
  <2>3. 1 \in 1..n /\ b = s[1]
    BY <1>4, <1>7, <2>1, <2>2
  <2>4. Listed' /\ Contents' = Abstract!RemoveAt(s, 1)
    BY <1>10, <2>1, <2>3
  <2>5. Abstract!RemoveAt(s, 1) = Tail(s) /\ s # <<>>
    BY <1>4, <2>2, RemoveAtEnds
  <2> QED
    BY <1>2, <2>1, <2>4, <2>5 DEF Abstract!Next, Abstract!ClearOne
<1>23. CASE UNCHANGED vars
  BY <1>8, <1>23 DEF vars
<1> QED
  BY <1>11, <1>12, <1>13, <1>14, <1>15, <1>16, <1>17, <1>18, <1>19, <1>20, <1>21,
     <1>22, <1>23 DEF Next

-----------------------------------------------------------------------------
(* The walk from begin meets every linked entry, and not_queue_count counts them:
   the linked entries are one ring, not several.  *)
THEOREM ContentsCorrect == Spec => []WalkMeetsAll
<1>1. Listed => WalkMeetsAll
  <2> SUFFICES ASSUME NEW s, Lists(queue, s) PROVE WalkMeetsAll
    BY DEF Listed
  <2>1. Contents = s /\ Cardinality(Linked) = Len(s)
    BY ContentsListed DEF Contents, Linked
  <2>2. DOMAIN s = 1..Len(s) /\ Linked = {s[i] : i \in 1..Len(s)}
    BY LenProperties DEF Lists, Linked
  <2> QED
    BY <2>1, <2>2 DEF WalkMeetsAll
<1> QED
  BY <1>1, InvariantInit, InvariantStep, ListedInit, Simulation, PTL DEF Spec

(* The ring implements the sequence: every call does to the walked contents what
   the sequence operation does, and returns the same entry.  *)
THEOREM Implements == Spec => ImplementsSequence
  BY InvariantInit, InvariantStep, ListedInit, Simulation, PTL
     DEF Spec, ImplementsSequence, Abstract!Spec
=============================================================================
