---------------------------- MODULE BatchResults ----------------------------
(***************************************************************************)
(* How the outcomes of a client-side batch get into its results: the       *)
(* answers of objects() (collections/batch/grpc_batch.py) and references() *)
(* (rest.py), what __send_batch (base.py) makes of them, and the addition  *)
(* of BatchObjectReturn and BatchReferenceReturn (classes/batch.py).       *)
(*                                                                         *)
(* An object is its index: the number __objs_count gave it.  A request     *)
(* holds objects of any indices, since those that are tried again go to    *)
(* the front of the queue, and requests are answered in any order.  What   *)
(* the retries and the threads do is the subject of ClientBatch; here the  *)
(* questions are by which keys the outcomes are stored, and for how long.  *)
(* _all_responses, a deprecated list, is left out.                         *)
(***************************************************************************)
EXTENDS Integers, Sequences, FiniteSets, SequencesExt, Functions

CONSTANTS
    Objects,             \* the number of objects added
    References,          \* the number of references added
    MAX_STORED_RESULTS,
    MaxRetries           \* bound: how many answers have objects to try again

ASSUME ConstantsOK ==
    /\ Objects \in Nat /\ References \in Nat /\ MaxRetries \in Nat
    /\ MAX_STORED_RESULTS \in Nat \ {0}

Index == 0..(Objects - 1)
RefIndex == 0..(References - 1)

VARIABLES
    batch_objects,     \* __batch_objects: the objects to be sent
    batch_references,  \* __batch_references
    sent,              \* the requests for objects that are not answered
    sent_refs,         \* the requests for references that are not answered
    objs,              \* results.objs
    refs,              \* results.refs
    failed_objects, failed_references,
    imported,          \* the objects the server has
    retries,           \* how many answers had objects to try again
    rejected           \* a request failed as a whole

vars == <<batch_objects, batch_references, sent, sent_refs, objs, refs, failed_objects,
          failed_references, imported, retries, rejected>>

objectFrame    == <<batch_objects, sent, objs, failed_objects, imported, retries, rejected>>
referenceFrame == <<batch_references, sent_refs, refs, failed_references>>

\* An empty BatchObjectReturn, BatchReferenceReturn.  uuids is the set of its keys:
\* the value is always the uuid of the object with that index.
NoObjs == [uuids |-> {}, errors |-> <<>>, has_errors |-> FALSE]
NoRefs == [errors |-> <<>>, has_errors |-> FALSE]

Init ==
    /\ batch_objects = [i \in 1..Objects |-> i - 1]
    /\ batch_references = [i \in 1..References |-> i - 1]
    /\ sent = {} /\ sent_refs = {} /\ objs = NoObjs /\ refs = NoRefs
    /\ failed_objects = <<>> /\ failed_references = <<>>
    /\ imported = {} /\ retries = 0 /\ rejected = FALSE
-----------------------------------------------------------------------------
(* The dictionaries *)

\* d.update(e)
Update(d, e) == [k \in DOMAIN d \cup DOMAIN e |-> IF k \in DOMAIN e THEN e[k] ELSE d[k]]

\* { i: q[i] for the places i, from 0, at which q has a member of S }
ByPlace(q, S) == [k \in {i - 1 : i \in {j \in DOMAIN q : q[j] \in S}} |-> q[k + 1]]

\* The values in the order of q, in which each was put into its dictionary.
Values(q, S) ==
    LET value[i \in 0..Len(q)] ==
           IF i = 0 THEN <<>>
           ELSE IF q[i] \in S THEN Append(value[i - 1], q[i]) ELSE value[i - 1]
    IN  value[Len(q)]

MaxOf(S) == CHOOSE x \in S : \A y \in S : y <= x
MinOf(S) == CHOOSE x \in S : \A y \in S : x <= y

\* The loop over range(old_min, old_max - MAX_STORED_RESULTS + 1).
TrimmedLate(uuids) ==                                             \* mutant: no + 1
    IF Cardinality(uuids) < MAX_STORED_RESULTS THEN uuids
    ELSE uuids \ (MinOf(uuids)..(MaxOf(uuids) - MAX_STORED_RESULTS - 1))
Trimmed(uuids) ==
    IF Cardinality(uuids) < MAX_STORED_RESULTS THEN uuids
    ELSE uuids \ (MinOf(uuids)..(MaxOf(uuids) - MAX_STORED_RESULTS))
-----------------------------------------------------------------------------
(* BatchObjectReturn.__add__, BatchReferenceReturn.__add__ *)

AddObjs(a, b) ==
    [uuids      |-> Trimmed(a.uuids \cup b.uuids),
     errors     |-> Update(a.errors, b.errors),
     has_errors |-> a.has_errors \/ b.has_errors]

\* The errors of the other operand are numbered on from the highest key.
RenumberedFrom(a, b, gap) ==
    LET first == IF a = <<>> THEN 0 ELSE MaxOf(DOMAIN a) + gap
    IN  [k \in {first + i : i \in DOMAIN b} |-> b[k - first]]
RenumberedOver(a, b) == RenumberedFrom(a, b, 0)                \* mutant: overwrites
Renumbered(a, b) == RenumberedFrom(a, b, 1)

AddRefs(a, b) ==
    [errors     |-> Update(a.errors, Renumbered(a.errors, b.errors)),
     has_errors |-> a.has_errors \/ b.has_errors]
-----------------------------------------------------------------------------
(* Sending.  Which items are popped, and by whom, is in ClientBatch. *)

SendObjects ==
    /\ \E n \in 1..Len(batch_objects) :
          /\ sent' = sent \cup {SubSeq(batch_objects, 1, n)}
          /\ batch_objects' = SubSeq(batch_objects, n + 1, Len(batch_objects))
    /\ UNCHANGED <<objs, failed_objects, imported, retries, rejected, referenceFrame>>

SendReferences ==
    /\ \E n \in 1..Len(batch_references) :
          /\ sent_refs' = sent_refs \cup {SubSeq(batch_references, 1, n)}
          /\ batch_references' = SubSeq(batch_references, n + 1, Len(batch_references))
    /\ UNCHANGED <<refs, failed_references, objectFrame>>
-----------------------------------------------------------------------------
(* The answers *)

\* What objects() returns when the server refuses some objects of q, not all: the
\* keys are the objects' indices.
Answer(q, refused) ==
    [uuids      |-> ToSet(q) \ refused,
     errors     |-> [i \in refused |-> i],
     has_errors |-> refused # {}]

\* objects() has raised, as it also does when all were refused: __send_batch numbers
\* the objects by their places in the request.
AllErrors(q) ==
    [uuids      |-> {},
     errors     |-> ByPlace(q, ToSet(q)),
     has_errors |-> TRUE]

\* What is left of an answer when the objects in again are tried again.
WithoutFlag(response, again) ==                               \* mutant: has_errors is kept
    [response EXCEPT !.errors = Restrict(response.errors,
         {k \in DOMAIN response.errors : response.errors[k] \notin again})]
Without(response, again) ==
    LET new_errors == Restrict(response.errors,
                               {k \in DOMAIN response.errors : response.errors[k] \notin again})
    IN  [uuids      |-> response.uuids,
         errors     |-> new_errors,
         has_errors |-> DOMAIN new_errors # {}]

\* The recording of an answer to q, some of whose failed objects may be tried again:
\* their message names a busy vectorizer.
Record(q, response, failed) ==
    \E again \in SUBSET failed :
       LET final == IF again = {} THEN response ELSE Without(response, again)
       IN  /\ again # {} => retries < MaxRetries
           /\ retries' = IF again = {} THEN retries ELSE retries + 1
           /\ batch_objects' = Values(q, again) \o batch_objects
           /\ objs' = AddObjs(objs, final)
           /\ failed_objects' = failed_objects \o Values(q, failed \ again)

ObjectsAnswered ==
    /\ \E q \in sent, refused \in SUBSET Index :
          /\ refused \subseteq ToSet(q) /\ refused # ToSet(q)
          /\ sent' = sent \ {q}
          /\ imported' = imported \cup (ToSet(q) \ refused)
          /\ Record(q, Answer(q, refused), refused)
    /\ UNCHANGED <<rejected, referenceFrame>>

ObjectsRejected ==
    /\ \E q \in sent :
          /\ sent' = sent \ {q}
          /\ Record(q, AllErrors(q), ToSet(q))
    /\ rejected' = TRUE
    /\ UNCHANGED <<imported, referenceFrame>>

\* references() numbers the refused ones by their places, and so does __send_batch
\* when the request fails as a whole: that is the case refused = ToSet(q).
ReferencesAnswered ==
    /\ \E q \in sent_refs, refused \in SUBSET RefIndex :
          /\ refused \subseteq ToSet(q)
          /\ sent_refs' = sent_refs \ {q}
          /\ refs' = AddRefs(refs, [errors     |-> ByPlace(q, refused),
                                    has_errors |-> refused # {}])
          /\ failed_references' = failed_references \o Values(q, refused)
    /\ UNCHANGED <<batch_references, objectFrame>>

Next == SendObjects \/ SendReferences \/ ObjectsAnswered \/ ObjectsRejected \/ ReferencesAnswered

Spec == Init /\ [][Next]_vars
-----------------------------------------------------------------------------
(* Properties *)

\* uuids never holds more than MAX_STORED_RESULTS entries, and of the objects that
\* were imported it lacks only those that are MAX_STORED_RESULTS or more behind the
\* latest, in whatever order the requests were answered.
LatestKept ==
    /\ objs.uuids \subseteq imported
    /\ Cardinality(objs.uuids) <= MAX_STORED_RESULTS
    /\ \A i \in imported : i > MaxOf(imported) - MAX_STORED_RESULTS => i \in objs.uuids

\* No error is overwritten by another one: of a reference never, of an object as long
\* as no request fails as a whole.  Then the keys are the objects' original indices, as
\* the documentation of BatchObjectReturn has it, and errors has every failed object;
\* a whole request is numbered by position, and its errors take the keys of others.
NoErrorOverwritten ==
    /\ ~rejected => /\ \A k \in DOMAIN objs.errors : objs.errors[k] = k
                    /\ DOMAIN objs.errors = ToSet(failed_objects)
    /\ Len(failed_references) = Cardinality(DOMAIN refs.errors)
    /\ Range(refs.errors) = ToSet(failed_references)

\* What failed for good is in failed_objects, once, what was imported is not, and what
\* waits, again or still, or is under way has no outcome at all: has_errors and errors
\* speak of final failures only.
OutcomesApart ==
    LET pending == ToSet(batch_objects) \cup UNION {ToSet(q) : q \in sent}
        failed  == ToSet(failed_objects)
    IN  /\ Range(objs.errors) \subseteq failed
        /\ objs.has_errors <=> failed # {}
        /\ refs.has_errors <=> failed_references # <<>>
        /\ pending \cap (failed \cup imported) = {} /\ failed \cap imported = {}
        /\ pending \cup failed \cup imported = Index
        /\ IsInjective(failed_objects)
=============================================================================
