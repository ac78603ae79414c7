------------------------------- MODULE Schema -------------------------------
(***************************************************************************)
(* Changes of a collection's configuration (collections/config/executor.py,*)
(* merge_with_existing of collections/classes/config.py).  update and      *)
(* add_vector read the whole schema, change it and send the whole back;    *)
(* add_property reads it twice and sends the property.  Nothing keeps the  *)
(* clients apart.                                                          *)
(*                                                                         *)
(* A schema is its description, which stands for the sections that are set *)
(* field by field, the modules in moduleConfig, the quantizers that are    *)
(* enabled in the vector index, the names in vectorConfig and those of the *)
(* properties.  The server is external: a PUT replaces all but the         *)
(* properties, which only a POST adds to, and it is refused when its       *)
(* properties are not the current ones; any request may fail.              *)
(***************************************************************************)
EXTENDS Naturals, FiniteSets

CONSTANTS
    Client,               \* the clients that change the schema
    Generative, Reranker, \* modules
    Vector, Property,     \* names
    MaxVersion,           \* bound: how often the schema changes
    None                  \* a section that an update does not name

ASSUME SchemaConstantsOK ==
    /\ MaxVersion \in Nat /\ Generative \cap Reranker = {}
    /\ None \notin Client \cup Generative \cup Reranker \cup Vector \cup Property

Quantizer == {"pq", "bq", "sq", "rq"}
Module == Generative \cup Reranker
SchemaType == [description : Client \cup {None}, modules : SUBSET Module,
               quantizers : SUBSET Quantizer, vectors : SUBSET Vector,
               properties : SUBSET Property]

\* An update names some sections: description sets it to the client; quantizer
\* enables it, or disables it (one that leaves enabled unset has no effect here);
\* module replaces the one of its kind.
Update == {u \in [description : BOOLEAN, module : Module \cup {None},
                  quantizer : Quantizer \cup {None}, enabled : BOOLEAN] :
              u.quantizer = None => u.enabled}
Calls == [kind : {"update"}, update : Update] \cup [kind : {"add_vector"}, vector : Vector]
         \cup [kind : {"add_property"}, property : Property]
NoUpdate == [kind |-> "none"]

VARIABLES
    schema,    \* the server's
    version,   \* how often it has changed
    pc,        \* client |-> what its call does next
    call,      \* client |-> the arguments of its call
    read,      \* client |-> the schema it has read last
    seen       \* client |-> the version of it

schemaVars == <<schema, version, pc, call, read, seen>>

Empty == [description |-> None, modules |-> {}, quantizers |-> {}, vectors |-> {},
          properties |-> {}]

SchemaInit ==
    /\ schema \in {[Empty EXCEPT !.quantizers = q] : q \in {{}, {"rq"}}}
    /\ version = 0
    /\ pc = [c \in Client |-> "idle"] /\ call = [c \in Client |-> NoUpdate]
    /\ read = [c \in Client |-> Empty] /\ seen = [c \in Client |-> 0]
-----------------------------------------------------------------------------
(* merge_with_existing *)

\* __check_quantizers: no other quantizer is enabled.
CompatibleOfThree(q, s) ==                                    \* mutant: forgets rq
    s.quantizers \cap {"pq", "bq", "sq"} \subseteq {q}
Compatible(q, s) == s.quantizers \subseteq {q}

\* _ConfigUpdateModel.merge_with_existing: the quantizer is set, others are disabled.
WithQuantizer(s, u) ==
    LET others == {"pq", "bq", "sq"} \ {u.quantizer}
        rest   == s.quantizers \ others
    IN  IF u.enabled THEN rest \cup {u.quantizer} ELSE rest \ {u.quantizer}

\* The modules of this kind are cleared before the new one is added.
Cleared(modules, m) == modules \ (IF m \in Generative THEN Generative ELSE Reranker)

\* The schema that client c sends back for the update u.
Merged(c, s, u) ==
    [s EXCEPT !.description = IF u.description THEN c ELSE @,
              !.modules = IF u.module = None THEN @ ELSE Cleared(@, u.module) \cup {u.module},
              !.quantizers = IF u.quantizer = None THEN @ ELSE WithQuantizer(s, u)]

\* add_vector: vectorConfig is made if the schema has none.
VectorAlone(s, v) == [s EXCEPT !.vectors = {v}]               \* mutant: always made
VectorAdded(s, v) == [s EXCEPT !.vectors = @ \cup {v}]
-----------------------------------------------------------------------------
(* The requests of a call *)

Ends(c) ==
    /\ pc' = [pc EXCEPT ![c] = "idle"] /\ call' = [call EXCEPT ![c] = NoUpdate]
    /\ read' = [read EXCEPT ![c] = Empty] /\ seen' = [seen EXCEPT ![c] = 0]

Change(c) ==
    /\ pc[c] = "idle" /\ version < MaxVersion
    /\ \E k \in Calls : call' = [call EXCEPT ![c] = k]
    /\ pc' = [pc EXCEPT ![c] = "get"]
    /\ UNCHANGED <<schema, version, read, seen>>

\* __get, of update, add_vector and __add_property.
Get(c) ==
    /\ pc[c] = "get"
    /\ \/ /\ read' = [read EXCEPT ![c] = schema] /\ seen' = [seen EXCEPT ![c] = version]
          /\ pc' = [pc EXCEPT ![c] = IF call[c].kind = "add_property" THEN "exists" ELSE "put"]
          /\ UNCHANGED call
       \/ Ends(c)
    /\ UNCHANGED <<schema, version>>

\* __property_exists, and the second __get, for the modules of the schema.
Exists(c) ==
    /\ pc[c] = "exists"
    /\ \/ /\ call[c].property \notin read[c].properties
          /\ pc' = [pc EXCEPT ![c] = "post"] /\ UNCHANGED <<call, read, seen>>
       \/ Ends(c)           \* WeaviateInvalidInputError, or the request has failed
    /\ UNCHANGED <<schema, version>>

Allowed(c) ==
    call[c].kind = "update" /\ call[c].update.quantizer # None =>
       Compatible(call[c].update.quantizer, read[c])

Changed(c) == IF call[c].kind = "update" THEN Merged(c, read[c], call[c].update)
              ELSE VectorAdded(read[c], call[c].vector)

\* An update that would change the quantizer raises before anything is sent.
Put(c) ==
    /\ pc[c] = "put"
    /\ \/ /\ Allowed(c) /\ read[c].properties = schema.properties
          /\ schema' = Changed(c) /\ version' = version + 1
       \/ UNCHANGED <<schema, version>>
    /\ Ends(c)

Post(c) ==
    /\ pc[c] = "post"
    /\ \/ /\ call[c].property \notin schema.properties
          /\ schema' = [schema EXCEPT !.properties = @ \cup {call[c].property}]
          /\ version' = version + 1
       \/ UNCHANGED <<schema, version>>
    /\ Ends(c)

SchemaNext == \E c \in Client : Change(c) \/ Get(c) \/ Exists(c) \/ Put(c) \/ Post(c)
-----------------------------------------------------------------------------
(* Properties *)

SchemaTypeOK ==
    /\ schema \in SchemaType /\ version \in Nat /\ seen \in [Client -> 0..version]
    /\ pc \in [Client -> {"idle", "get", "exists", "put", "post"}]
    /\ call \in [Client -> Calls \cup {NoUpdate}] /\ read \in [Client -> SchemaType]

\* However the calls of several clients overlap, the schema never has two quantizers
\* enabled, nor two generative modules or two rerankers.
OneOfAKind ==
    /\ Cardinality(schema.quantizers) <= 1
    /\ Cardinality(schema.modules \cap Generative) <= 1
    /\ Cardinality(schema.modules \cap Reranker) <= 1

\* The sections that a call names.
Named(k) ==
    CASE k.kind = "update" -> (IF k.update.description THEN {"description"} ELSE {})
                              \cup (IF k.update.module = None THEN {} ELSE {"modules"})
                              \cup (IF k.update.quantizer = None THEN {} ELSE {"quantizers"})
      [] k.kind = "add_vector"   -> {"vectors"}
      [] k.kind = "add_property" -> {"properties"}
      [] OTHER -> {}

\* A change is lost only to a call that has read the schema before it was made: one
\* that was sent against the current schema leaves what it does not name as it is,
\* and loses no vector, no property and no module of another kind.
LostOnlyToOverlap ==
    [][\A c \in Client :
          pc[c] \in {"put", "post"} /\ pc'[c] = "idle" /\ seen[c] = version =>
             /\ \A section \in DOMAIN schema \ Named(call[c]) :
                   schema'[section] = schema[section]
             /\ schema.vectors \subseteq schema'.vectors
             /\ schema.properties \subseteq schema'.properties
             /\ \/ schema.modules \cap Reranker = schema'.modules \cap Reranker
                \/ schema.modules \cap Generative = schema'.modules \cap Generative]_schemaVars
=============================================================================
