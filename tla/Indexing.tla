------------------------------ MODULE Indexing ------------------------------
(***************************************************************************)
(* wait_for_vector_indexing (collections/batch/batch_wrapper.py): after a  *)
(* batch, poll the shards it has imported into until the vectors of all    *)
(* its objects are indexed.  The shards are read one after another, while  *)
(* other clients import more, and a reading that fails is begun anew, with *)
(* growing pauses, at most how_many_failures times.                        *)
(*                                                                         *)
(* A shard here is what one request reads: all physical shards of one      *)
(* collection or tenant.  The server is external: it indexes the objects   *)
(* in its queues in any order, and what it says of a shard besides the     *)
(* size of the queue, READY or not, has no connection with it.             *)
(***************************************************************************)
EXTENDS Naturals, FiniteSets

CONSTANTS
    Shard,
    Item,              \* the objects that are imported
    Batch,             \* those of the batch
    how_many_failures

ASSUME IndexingConstantsOK == Batch \subseteq Item /\ how_many_failures \in Nat

VARIABLES
    where,      \* object |-> the shards it was imported into: one, or none yet
    queue,      \* shard |-> its objects that are not indexed
    shards,     \* the shards that are waited for: the argument, or imported_shards
    pc_wait,    \* "batch", "reading", "pause", "backoff", "returned" or "raised"
    unread,     \* the shards __is_ready has still to read
    all_ready,  \* those it has read were ready
    backoff_count

waitVars == <<shards, pc_wait, unread, all_ready, backoff_count>>
indexingVars == <<where, queue, waitVars>>

IndexingInit ==
    /\ where = [i \in Item |-> {}] /\ queue = [s \in Shard |-> {}]
    /\ shards = {} /\ pc_wait = "batch" /\ unread = {} /\ all_ready = TRUE
    /\ backoff_count = 0
-----------------------------------------------------------------------------
(* The server and the other clients *)

\* The batch imports before the wait begins, others at any time.
Import(i, s) ==
    /\ where[i] = {} /\ (i \in Batch => pc_wait = "batch")
    /\ where' = [where EXCEPT ![i] = {s}]
    /\ queue' = [queue EXCEPT ![s] = @ \cup {i}]
    /\ UNCHANGED waitVars

Indexed(i, s) ==
    /\ i \in queue[s] /\ queue' = [queue EXCEPT ![s] = @ \ {i}]
    /\ UNCHANGED <<where, waitVars>>
-----------------------------------------------------------------------------
(* The wait *)

imported_shards == UNION {where[i] : i \in Batch}

\* __is_ready begins with all shards.
Read(all, count) ==
    /\ pc_wait' = "reading" /\ unread' = all /\ all_ready' = TRUE
    /\ backoff_count' = count

\* The argument shards, or those of the batch if it is None.
Wait ==
    /\ pc_wait = "batch"
    /\ shards' \in {imported_shards} \cup (SUBSET Shard \ {{}})
    /\ Read(shards', 0)
    /\ UNCHANGED <<where, queue>>

\* What one request says of a shard, whose status is READY or not.
ReadyByStatus(s, status) == status = "READY"                  \* mutant: no vectorQueueSize
Ready(s, status) == status = "READY" /\ queue[s] = {}

ReadShard(s) ==
    /\ pc_wait = "reading" /\ s \in unread
    /\ unread' = unread \ {s}
    /\ \E status \in {"READY", "INDEXING"} : all_ready' = (all_ready /\ Ready(s, status))
    /\ UNCHANGED <<where, queue, shards, pc_wait, backoff_count>>

\* A request fails: the reading is given up, for now or, after too many, for good.
ReadFailsForEver ==                                           \* mutant: no limit
    /\ pc_wait = "reading" /\ unread # {} /\ backoff_count <= how_many_failures
    /\ pc_wait' = "backoff"
    /\ UNCHANGED <<where, queue, shards, unread, all_ready, backoff_count>>
ReadFails ==
    /\ pc_wait = "reading" /\ unread # {}
    /\ pc_wait' = IF backoff_count >= how_many_failures THEN "raised" ELSE "backoff"
    /\ UNCHANGED <<where, queue, shards, unread, all_ready, backoff_count>>

\* All were read.
Evaluate ==
    /\ pc_wait = "reading" /\ unread = {}
    /\ pc_wait' = IF all_ready THEN "returned" ELSE "pause"
    /\ UNCHANGED <<where, queue, shards, unread, all_ready, backoff_count>>

\* After a pause the count of the failures begins anew, after a failure it grows.
Again ==
    /\ \/ pc_wait = "pause" /\ Read(shards, 0)
       \/ pc_wait = "backoff" /\ Read(shards, backoff_count + 1)
    /\ UNCHANGED <<where, queue, shards>>

IndexingNext == \/ \E i \in Item, s \in Shard : Import(i, s) \/ Indexed(i, s)
                \/ \E s \in Shard : ReadShard(s)
                \/ Wait \/ ReadFails \/ Evaluate \/ Again
-----------------------------------------------------------------------------
(* Properties *)

IndexingTypeOK ==
    /\ where \in [Item -> SUBSET Shard] /\ queue \in [Shard -> SUBSET Item]
    /\ shards \subseteq Shard /\ unread \subseteq shards /\ all_ready \in BOOLEAN
    /\ pc_wait \in {"batch", "reading", "pause", "backoff", "returned", "raised"}
    /\ backoff_count \in 0..how_many_failures

\* When the wait returns, every object that the batch has imported into a shard it
\* waits for is indexed, though the shards are read at different times, readings are
\* begun anew and others import into the same shards.  It raises only after so many
\* readings have failed one after another.
IndexedOnReturn ==
    /\ pc_wait = "returned" => \A s \in shards : queue[s] \cap Batch = {}
    /\ pc_wait = "raised" => backoff_count = how_many_failures
=============================================================================
