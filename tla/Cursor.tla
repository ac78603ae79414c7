------------------------------- MODULE Cursor -------------------------------
(***************************************************************************)
(* The iterator over a collection (collections/iterator.py).  An iterator  *)
(* reads pages of objects in the order of their uuids and keeps what is    *)
(* left of the last page; the next page starts after the object that was   *)
(* yielded last.  Every for loop over it calls __iter__ first, which       *)
(* starts it anew, also when another loop is not through.  Meanwhile other *)
(* clients add and delete objects.                                         *)
(*                                                                         *)
(* Objects are numbered in the order of their uuids.  The server is        *)
(* external: it answers fetch_objects with the first objects after a uuid, *)
(* whether or not the object of that uuid still exists.                    *)
(***************************************************************************)
EXTENDS Naturals, Sequences, FiniteSets

CONSTANTS
    Last,                 \* objects are numbered from 1 to Last
    Loop,                 \* the for loops over one iterator
    ITERATOR_CACHE_SIZE,
    After,                \* the argument after, or 0 for None
    MaxChanges            \* bound: how many objects are added or deleted

ASSUME CursorConstantsOK ==
    /\ Last \in Nat /\ After \in 0..Last /\ MaxChanges \in Nat
    /\ ITERATOR_CACHE_SIZE \in Nat \ {0}

Object == 1..Last

VARIABLES
    objects,     \* the objects of the collection
    changes,     \* how many were added or deleted
    cache,       \* __iter_object_cache
    last_uuid,   \* __iter_object_last_uuid, 0 for None
    loop,        \* loop |-> "new", "running", "ended" by StopIteration, or "broken" off
    yielded,     \* loop |-> what it has got
    steady,      \* loop |-> the objects that were there ever since it began
    alone        \* loop |-> while it ran, no other loop used the iterator

loopVars   == <<loop, yielded, alone>>
cursorVars == <<objects, changes, cache, last_uuid, loopVars, steady>>

CursorInit ==
    /\ objects \in SUBSET Object /\ changes = 0
    /\ cache = <<>> /\ last_uuid = After
    /\ loop = [l \in Loop |-> "new"] /\ yielded = [l \in Loop |-> <<>>]
    /\ steady = [l \in Loop |-> {}] /\ alone = [l \in Loop |-> FALSE]
-----------------------------------------------------------------------------
(* The server and the other clients *)

\* The first objects of S after the one with this uuid, up to the limit, in order.
Page(S, after, limit) ==
    LET wanted == {o \in S : o > after
                             /\ Cardinality({p \in S : after < p /\ p < o}) < limit}
    IN  CHOOSE page \in [1..Cardinality(wanted) -> wanted] :
           \A i, j \in DOMAIN page : i < j => page[i] < page[j]

Insert(o) ==
    /\ o \notin objects /\ changes < MaxChanges
    /\ objects' = objects \cup {o} /\ changes' = changes + 1
    /\ UNCHANGED <<cache, last_uuid, loopVars, steady>>

Delete(o) ==
    /\ o \in objects /\ changes < MaxChanges
    /\ objects' = objects \ {o} /\ changes' = changes + 1
    /\ steady' = [l \in Loop |-> steady[l] \ {o}]
    /\ UNCHANGED <<cache, last_uuid, loopVars>>
-----------------------------------------------------------------------------
(* The iterator *)

\* What __iter__ leaves in __iter_object_cache.
KeptPage(page) == page                                        \* mutant: not emptied
Emptied(page) == <<>>

\* Loop l interrupts the others that are not through.
Interrupted(l) == [k \in Loop |-> alone[k] /\ (k = l \/ loop[k] # "running")]

\* __iter__
Begin(l) ==
    /\ loop[l] = "new"
    /\ cache' = Emptied(cache) /\ last_uuid' = After
    /\ loop' = [loop EXCEPT ![l] = "running"]
    /\ steady' = [steady EXCEPT ![l] = objects]
    /\ alone' = [Interrupted(l) EXCEPT ![l] = TRUE]
    /\ UNCHANGED <<objects, changes, yielded>>

\* __next__: from the cache, or from a new page, which may be empty.  fetch_objects
\* may raise, which ends the loop and leaves the iterator as it is.
Step(l) ==
    /\ loop[l] = "running"
    /\ LET page == IF cache # <<>> THEN cache
                   ELSE Page(objects, last_uuid, ITERATOR_CACHE_SIZE)
       IN  \/ /\ page # <<>>
              /\ cache' = Tail(page) /\ last_uuid' = Head(page)
              /\ yielded' = [yielded EXCEPT ![l] = Append(@, Head(page))]
              /\ UNCHANGED loop
           \/ /\ page = <<>>
              /\ loop' = [loop EXCEPT ![l] = "ended"]
              /\ UNCHANGED <<cache, last_uuid, yielded>>
    /\ alone' = Interrupted(l)
    /\ UNCHANGED <<objects, changes, steady>>

\* break, or an exception: of the loop's body or of fetch_objects.
Break(l) ==
    /\ loop[l] = "running" /\ loop' = [loop EXCEPT ![l] = "broken"]
    /\ UNCHANGED <<objects, changes, cache, last_uuid, yielded, steady, alone>>

CursorNext == \/ \E o \in Object : Insert(o) \/ Delete(o)
              \/ \E l \in Loop : Begin(l) \/ Step(l) \/ Break(l)
-----------------------------------------------------------------------------
(* Properties *)

CursorTypeOK ==
    /\ objects \subseteq Object /\ changes \in 0..MaxChanges
    /\ cache \in Seq(Object) /\ Len(cache) < ITERATOR_CACHE_SIZE
    /\ last_uuid \in 0..Last
    /\ loop \in [Loop -> {"new", "running", "ended", "broken"}]
    /\ yielded \in [Loop -> Seq(Object)] /\ steady \in [Loop -> SUBSET Object]
    /\ alone \in [Loop -> BOOLEAN]

\* A loop that no other loop over the same iterator has interrupted gets no object
\* twice, all of them in order, and, when it ends, every object that was there all
\* the time, whatever was added and deleted meanwhile.
EachOnce ==
    \A l \in Loop : alone[l] =>
       /\ \A i, j \in DOMAIN yielded[l] : i < j => yielded[l][i] < yielded[l][j]
       /\ loop[l] = "ended" =>
             \A o \in steady[l] : o > After => \E i \in DOMAIN yielded[l] : yielded[l][i] = o
=============================================================================
