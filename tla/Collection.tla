----------------------------- MODULE Collection -----------------------------
(***************************************************************************)
(* What clients do to one collection at the same time, each in a sequence  *)
(* of requests that nothing keeps together on the server: loops over its   *)
(* objects (Cursor), changes of its configuration (Schema), and the wait   *)
(* for its vectors (Indexing).                                             *)
(***************************************************************************)
EXTENDS Cursor, Schema, Indexing

CONSTANT Parts     \* the parts that are looked at

\* The parts have no variable in common, and every property below is about one of
\* them: to another part's steps it is blind.  So a behaviour follows one part.
VARIABLE part

vars == <<part, cursorVars, schemaVars, indexingVars>>

Init ==
    /\ part \in Parts
    /\ CursorInit /\ SchemaInit /\ IndexingInit
    /\ part # "cursor" => objects = {}
    /\ part # "schema" => schema = Empty

Next ==
    \/ part = "cursor" /\ CursorNext /\ UNCHANGED <<part, schemaVars, indexingVars>>
    \/ part = "schema" /\ SchemaNext /\ UNCHANGED <<part, cursorVars, indexingVars>>
    \/ part = "indexing" /\ IndexingNext /\ UNCHANGED <<part, cursorVars, schemaVars>>

Spec == Init /\ [][Next]_vars

\* The types of the values that the parts use.
TypeOK == CursorTypeOK /\ SchemaTypeOK /\ IndexingTypeOK
=============================================================================
