-------------------------- MODULE CollectionProofs --------------------------
(***************************************************************************)
(* What holds of Cursor, Schema and Indexing, as Collection puts them      *)
(* together, for all objects, pages, clients, modules, names, shards and   *)
(* for every behaviour of the server.                                      *)
(***************************************************************************)
EXTENDS Collection, FiniteSetTheorems, TLAPS

-----------------------------------------------------------------------------
(* Indexing *)

\* What was found ready stays indexed as far as the batch goes: only others import.
ReadyInv ==
    /\ all_ready => \A s \in shards \ unread : queue[s] \cap Batch = {}
    /\ pc_wait = "batch" => shards = {}
    /\ pc_wait = "returned" => all_ready /\ unread = {}

BackoffInv ==
    /\ pc_wait = "backoff" => backoff_count < how_many_failures
    /\ pc_wait = "raised" => backoff_count = how_many_failures

IndexingInv == IndexingTypeOK /\ ReadyInv /\ BackoffInv

LEMMA IndexingStart == IndexingInit => IndexingInv
  <1> SUFFICES ASSUME IndexingInit PROVE IndexingInv
    OBVIOUS
  <1>1. all_ready \in BOOLEAN
    BY Zenon DEF IndexingInit
  <1>2. IndexingTypeOK
    BY <1>1, IndexingConstantsOK DEF IndexingInit, IndexingTypeOK, IndexingConstantsOK
  <1>3. ReadyInv /\ BackoffInv
    BY DEF IndexingInit, ReadyInv, BackoffInv
  <1> QED
    BY <1>2, <1>3 DEF IndexingInv

LEMMA IndexingStep == IndexingInv /\ IndexingNext => IndexingInv'
  <1> SUFFICES ASSUME IndexingInv, IndexingNext PROVE IndexingInv'
    OBVIOUS
  <1> USE IndexingConstantsOK DEF IndexingConstantsOK, IndexingInv, waitVars
  <1>1. CASE \E i \in Item, s \in Shard : Import(i, s) \/ Indexed(i, s)
    <2> PICK i \in Item, s \in Shard : Import(i, s) \/ Indexed(i, s)
      BY <1>1
    <2>1. UNCHANGED waitVars
      BY DEF Import, Indexed
    <2>2. /\ where' \in [Item -> SUBSET Shard] /\ queue' \in [Shard -> SUBSET Item]
          /\ pc_wait # "batch" =>
                \A r \in Shard : queue'[r] \cap Batch \subseteq queue[r] \cap Batch
      BY DEF IndexingTypeOK, Import, Indexed
    <2>3. IndexingTypeOK' /\ BackoffInv'
      BY <2>1, <2>2 DEF IndexingTypeOK, BackoffInv
    <2>4. ReadyInv'
      BY <2>1, <2>2 DEF IndexingTypeOK, ReadyInv
    <2> QED
      BY <2>3, <2>4
  <1>2. CASE \E s \in Shard : ReadShard(s)
    <2> PICK s \in Shard : ReadShard(s)
      BY <1>2
    <2>1. /\ UNCHANGED <<where, queue, shards, pc_wait, backoff_count>>
          /\ pc_wait = "reading" /\ unread' = unread \ {s}
      BY DEF ReadShard
    <2>2. /\ all_ready' \in BOOLEAN
          /\ all_ready' => all_ready /\ queue[s] = {}
      BY Zenon DEF ReadShard, Ready, IndexingTypeOK
    <2>3. IndexingTypeOK' /\ BackoffInv'
      BY <2>1, <2>2 DEF IndexingTypeOK, BackoffInv
    <2>4. ReadyInv'
      BY <2>1, <2>2 DEF ReadyInv
    <2> QED
      BY <2>3, <2>4
  <1>3. CASE Wait \/ Again
    <2>1. /\ UNCHANGED <<where, queue>> /\ pc_wait' = "reading" /\ unread' = shards'
          /\ all_ready' \in BOOLEAN
      BY <1>3, Zenon DEF Wait, Again, Read
    <2>2. shards' \subseteq Shard
      <3>1. imported_shards \subseteq Shard
        BY DEF imported_shards, IndexingTypeOK
      <3> QED
        BY <1>3, <3>1 DEF Wait, Again, IndexingTypeOK
    <2>3. backoff_count' \in 0..how_many_failures
      BY <1>3 DEF Wait, Again, Read, IndexingTypeOK, BackoffInv
    <2>4. IndexingTypeOK'
      BY <2>1, <2>2, <2>3 DEF IndexingTypeOK
    <2>5. ReadyInv' /\ BackoffInv'
      BY <2>1 DEF ReadyInv, BackoffInv
    <2> QED
      BY <2>4, <2>5
  <1>4. CASE ReadFails \/ Evaluate
    <2>1. UNCHANGED <<where, queue, shards, unread, all_ready, backoff_count>>
      BY <1>4 DEF ReadFails, Evaluate
    <2>2. \/ pc_wait' = "raised" /\ backoff_count >= how_many_failures
          \/ pc_wait' = "backoff" /\ ~(backoff_count >= how_many_failures)
          \/ pc_wait' = "returned" /\ all_ready /\ unread = {}
          \/ pc_wait' = "pause"
      BY <1>4 DEF ReadFails, Evaluate
    <2>3. IndexingTypeOK'
      BY <2>1, <2>2 DEF IndexingTypeOK
    <2>4. ReadyInv' /\ BackoffInv'
      BY <2>1, <2>2 DEF ReadyInv, BackoffInv, IndexingTypeOK
    <2> QED
      BY <2>3, <2>4
  <1> QED
    BY <1>1, <1>2, <1>3, <1>4 DEF IndexingNext

LEMMA IndexingStays == IndexingInv /\ UNCHANGED indexingVars => IndexingInv'
  BY DEF IndexingInv, IndexingTypeOK, ReadyInv, BackoffInv, indexingVars, waitVars
-----------------------------------------------------------------------------
(* Schema *)

\* A schema without two of a kind.
AtMostOne(S) == \A x, y \in S : x = y
Single(s) == /\ AtMostOne(s.quantizers)
             /\ AtMostOne(s.modules \cap Generative)
             /\ AtMostOne(s.modules \cap Reranker)

\* What a call does next fits its arguments.
PlanInv ==
    \A c \in Client :
       /\ pc[c] # "idle" => call[c] \in Calls
       /\ pc[c] = "put" => call[c].kind # "add_property"
       /\ pc[c] \in {"exists", "post"} => call[c].kind = "add_property"

\* A call that has read the current version has the current schema.
SeenInv ==
    \A c \in Client :
       /\ seen[c] <= version
       /\ pc[c] \in {"exists", "put", "post"} /\ seen[c] = version => read[c] = schema

SingleInv == Single(schema) /\ \A c \in Client : Single(read[c])

SchemaInv == SchemaTypeOK /\ PlanInv /\ SeenInv /\ SingleInv

LEMMA SchemaStart == SchemaInit => SchemaInv
  <1> SUFFICES ASSUME SchemaInit PROVE SchemaInv
    OBVIOUS
  <1>1. Empty \in SchemaType
    BY DEF Empty, SchemaType
  <1>2. schema \in SchemaType /\ schema.quantizers \in {{}, {"rq"}} /\ schema.modules = {}
    BY DEF SchemaInit, Empty, SchemaType, Quantizer
  <1>3. Single(Empty) /\ Single(schema)
    BY <1>2 DEF Single, AtMostOne, Empty
  <1>4. SchemaTypeOK
    BY <1>1, <1>2 DEF SchemaInit, SchemaTypeOK
  <1>5. PlanInv /\ SeenInv /\ SingleInv
    BY <1>3 DEF SchemaInit, PlanInv, SeenInv, SingleInv
  <1> QED
    BY <1>4, <1>5 DEF SchemaInv

\* merge_with_existing makes a schema of a schema, and replaces instead of adding.
LEMMA MergedOK ==
    ASSUME NEW c \in Client, NEW s \in SchemaType, NEW u \in Update, Single(s),
           u.quantizer # None => Compatible(u.quantizer, s)
    PROVE  Merged(c, s, u) \in SchemaType /\ Single(Merged(c, s, u))
  <1> DEFINE m == Merged(c, s, u)
  <1>1. /\ u.description \in BOOLEAN /\ u.module \in Module \cup {None}
        /\ u.quantizer \in Quantizer \cup {None}
        /\ None \notin Module /\ Generative \cap Reranker = {}
    BY SchemaConstantsOK DEF Update, SchemaConstantsOK, Module
  <1>2. /\ s.description \in Client \cup {None} /\ s.modules \subseteq Module
        /\ s.quantizers \subseteq Quantizer /\ s.vectors \subseteq Vector
        /\ s.properties \subseteq Property
    BY DEF SchemaType
  <1>3. m = [description |-> IF u.description THEN c ELSE s.description,
             modules |-> IF u.module = None THEN s.modules
                         ELSE Cleared(s.modules, u.module) \cup {u.module},
             quantizers |-> IF u.quantizer = None THEN s.quantizers ELSE WithQuantizer(s, u),
             vectors |-> s.vectors, properties |-> s.properties]
    <2> DEFINE d == IF u.description THEN c ELSE s.description
               n == IF u.module = None THEN s.modules
                    ELSE Cleared(s.modules, u.module) \cup {u.module}
               q == IF u.quantizer = None THEN s.quantizers ELSE WithQuantizer(s, u)
    <2>1. m = [s EXCEPT !.description = d, !.modules = n, !.quantizers = q]
      BY DEF Merged
    <2> HIDE DEF m, d, n, q
    <2>2. m = [description |-> d, modules |-> n, quantizers |-> q,
               vectors |-> s.vectors, properties |-> s.properties]
      BY <2>1 DEF SchemaType
    <2> QED
      BY <2>2 DEF d, n, q
  <1> HIDE DEF m
  <1>4. /\ m.description = IF u.description THEN c ELSE s.description
        /\ m.modules = IF u.module = None THEN s.modules
                       ELSE Cleared(s.modules, u.module) \cup {u.module}
        /\ m.quantizers = IF u.quantizer = None THEN s.quantizers ELSE WithQuantizer(s, u)
        /\ m.vectors = s.vectors /\ m.properties = s.properties
        /\ m = [description |-> m.description, modules |-> m.modules,
                quantizers |-> m.quantizers, vectors |-> m.vectors,
                properties |-> m.properties]
    BY <1>3
  <1>5. /\ m.quantizers \subseteq Quantizer /\ AtMostOne(m.quantizers)
    <2>1. CASE u.quantizer = None
      BY <1>2, <1>4, <2>1 DEF Single
    <2>2. CASE u.quantizer # None
      <3>1. s.quantizers \subseteq {u.quantizer}
        BY <2>2 DEF Compatible
      <3>2. m.quantizers \subseteq {u.quantizer}
        BY <1>4, <2>2, <3>1 DEF WithQuantizer
      <3> QED
        BY <1>1, <2>2, <3>2 DEF AtMostOne
    <2> QED
      BY <2>1, <2>2
  <1>6. /\ m.modules \subseteq Module
        /\ AtMostOne(m.modules \cap Generative) /\ AtMostOne(m.modules \cap Reranker)
    <2>1. CASE u.module = None
      BY <1>2, <1>4, <2>1 DEF Single
    <2>2. CASE u.module \in Generative
      <3>1. m.modules = (s.modules \ Generative) \cup {u.module}
        BY <1>1, <1>4, <2>2 DEF Cleared, Module
      <3> QED
        BY <1>1, <1>2, <2>2, <3>1 DEF AtMostOne, Single, Module
    <2>3. CASE u.module \in Reranker
      <3>1. m.modules = (s.modules \ Reranker) \cup {u.module}
        BY <1>1, <1>4, <2>3 DEF Cleared, Module
      <3> QED
        BY <1>1, <1>2, <2>3, <3>1 DEF AtMostOne, Single, Module
    <2> QED
      BY <1>1, <2>1, <2>2, <2>3 DEF Module
  <1>7. m.description \in Client \cup {None}
    BY <1>2, <1>4
  <1> QED
    BY <1>2, <1>4, <1>5, <1>6, <1>7 DEF m, SchemaType, Single

\* What a PUT or a POST makes of the schema, when it has any effect.
LEMMA ChangedOK ==
    ASSUME SchemaInv, NEW c \in Client, Put(c) \/ Post(c)
    PROVE  /\ schema' \in SchemaType /\ Single(schema')
           /\ \/ UNCHANGED <<schema, version>>
              \/ /\ version' = version + 1
                 /\ schema' = IF pc[c] = "put" THEN Changed(c)
                              ELSE [schema EXCEPT !.properties = @ \cup {call[c].property}]
  <1> USE DEF SchemaInv, SchemaTypeOK, SingleInv
  <1>1. CASE UNCHANGED <<schema, version>>
    BY <1>1
  <1>2. CASE Put(c) /\ ~UNCHANGED <<schema, version>>
    <2>1. /\ pc[c] = "put" /\ Allowed(c) /\ schema' = Changed(c) /\ version' = version + 1
          /\ call[c] \in Calls /\ call[c].kind # "add_property"
          /\ read[c] \in SchemaType /\ Single(read[c])
      BY <1>2 DEF Put, PlanInv
    <2>2. CASE call[c].kind = "update"
      <3>1. call[c].update \in Update
        BY <2>1, <2>2 DEF Calls
      <3>2. Changed(c) = Merged(c, read[c], call[c].update)
        BY <2>2 DEF Changed
      <3> QED
        BY <2>1, <2>2, <3>1, <3>2, MergedOK DEF Allowed
    <2>3. CASE call[c].kind # "update"
      <3>1. call[c].vector \in Vector
        BY <2>1, <2>3 DEF Calls
      <3>2. Changed(c) = [read[c] EXCEPT !.vectors = read[c].vectors \cup {call[c].vector}]
        BY <2>3 DEF Changed, VectorAdded
      <3>3. Changed(c) \in SchemaType /\ Single(Changed(c))
        <4>1. Changed(c) = [description |-> read[c].description, modules |-> read[c].modules,
                            quantizers |-> read[c].quantizers,
                            vectors |-> read[c].vectors \cup {call[c].vector},
                            properties |-> read[c].properties]
          BY <2>1, <3>2 DEF SchemaType
        <4> QED
          BY <2>1, <3>1, <4>1 DEF SchemaType, Single
      <3> QED
        BY <2>1, <3>3
    <2> QED
      BY <2>2, <2>3
  <1>3. CASE Post(c) /\ ~UNCHANGED <<schema, version>>
    <2>1. /\ pc[c] = "post" /\ version' = version + 1
          /\ schema' = [schema EXCEPT !.properties = @ \cup {call[c].property}]
          /\ call[c] \in Calls /\ call[c].kind = "add_property"
      BY <1>3 DEF Post, PlanInv
    <2>2. call[c].property \in Property
      BY <2>1 DEF Calls
    <2>3. schema' \in SchemaType /\ Single(schema')
      BY <2>1, <2>2 DEF SchemaType, Single
    <2> QED
      BY <2>1, <2>3
  <1> QED
    BY <1>1, <1>2, <1>3

LEMMA SchemaStep == SchemaInv /\ SchemaNext => SchemaInv'
  <1> SUFFICES ASSUME SchemaInv, NEW c \in Client,
                      Change(c) \/ Get(c) \/ Exists(c) \/ Put(c) \/ Post(c)
               PROVE  SchemaInv'
    BY DEF SchemaNext
  <1> USE DEF SchemaInv
  <1>1. Empty \in SchemaType /\ Single(Empty)
    BY DEF Empty, SchemaType, Single, AtMostOne
  <1>2. CASE Change(c)
    <2>1. PICK k \in Calls : call' = [call EXCEPT ![c] = k]
      BY <1>2 DEF Change
    <2>2. pc' = [pc EXCEPT ![c] = "get"] /\ UNCHANGED <<schema, version, read, seen>>
      BY <1>2 DEF Change
    <2>3. SchemaTypeOK'
      BY <2>1, <2>2 DEF SchemaTypeOK
    <2>4. PlanInv' /\ SeenInv' /\ SingleInv'
      BY <2>1, <2>2 DEF SchemaTypeOK, PlanInv, SeenInv, SingleInv
    <2> QED
      BY <2>3, <2>4
  <1>3. CASE /\ pc' = [pc EXCEPT ![c] = "idle"] /\ call' = [call EXCEPT ![c] = NoUpdate]
             /\ read' = [read EXCEPT ![c] = Empty] /\ seen' = [seen EXCEPT ![c] = 0]
    <2>1. /\ schema' \in SchemaType /\ Single(schema')
          /\ \/ UNCHANGED <<schema, version>>
             \/ version' = version + 1
      <3>1. CASE UNCHANGED <<schema, version>>
        BY <3>1 DEF SchemaTypeOK, SingleInv
      <3>2. CASE Put(c) \/ Post(c)
        BY <3>2, ChangedOK
      <3> QED
        BY <3>1, <3>2 DEF Change, Get, Exists
    <2>2. /\ version \in Nat /\ version' \in Nat
          /\ \A d \in Client : seen[d] \in Nat /\ seen[d] <= version
      BY <2>1 DEF SchemaTypeOK
    <2>3. seen' \in [Client -> 0..version']
      BY <1>3, <2>1, <2>2 DEF SchemaTypeOK
    <2>4. SchemaTypeOK'
      BY <1>1, <1>3, <2>1, <2>2, <2>3 DEF SchemaTypeOK
    <2>5. PlanInv'
      BY <1>3 DEF SchemaTypeOK, PlanInv
    <2>6. SingleInv'
      BY <1>1, <1>3, <2>1 DEF SchemaTypeOK, SingleInv
    <2>7. SeenInv'
      <3> SUFFICES ASSUME NEW d \in Client
                   PROVE  /\ seen'[d] <= version'
                          /\ pc'[d] \in {"exists", "put", "post"} /\ seen'[d] = version'
                                => read'[d] = schema'
        BY DEF SeenInv
      <3>1. CASE d = c
        BY <1>3, <2>2, <3>1 DEF SchemaTypeOK
      <3>2. CASE d # c
        <4>1. seen'[d] = seen[d] /\ pc'[d] = pc[d] /\ read'[d] = read[d]
          BY <1>3, <3>2 DEF SchemaTypeOK
        <4> QED
          BY <2>1, <2>2, <4>1 DEF SeenInv
      <3> QED
        BY <3>1, <3>2
    <2> QED
      BY <2>4, <2>5, <2>6, <2>7
  <1>4. CASE /\ Get(c) /\ UNCHANGED <<call, schema, version>>
             /\ read' = [read EXCEPT ![c] = schema] /\ seen' = [seen EXCEPT ![c] = version]
             /\ pc' = [pc EXCEPT ![c] = IF call[c].kind = "add_property" THEN "exists" ELSE "put"]
    <2>1. seen' \in [Client -> 0..version']
      BY <1>4 DEF SchemaTypeOK
    <2>2. SchemaTypeOK'
      BY <1>4, <2>1 DEF SchemaTypeOK
    <2>3. PlanInv'
      BY <1>4 DEF Get, SchemaTypeOK, PlanInv
    <2>4. SeenInv' /\ SingleInv'
      BY <1>4 DEF SchemaTypeOK, SeenInv, SingleInv
    <2> QED
      BY <2>2, <2>3, <2>4
  <1>5. CASE /\ Exists(c) /\ UNCHANGED <<call, read, seen, schema, version>>
             /\ pc' = [pc EXCEPT ![c] = "post"]
    <2>1. SchemaTypeOK' /\ PlanInv' /\ SeenInv' /\ SingleInv'
      BY <1>5 DEF Exists, SchemaTypeOK, PlanInv, SeenInv, SingleInv
    <2> QED
      BY <2>1
  <1> QED
    BY <1>2, <1>3, <1>4, <1>5 DEF Get, Exists, Put, Post, Ends

LEMMA SchemaStays == SchemaInv /\ UNCHANGED schemaVars => SchemaInv'
  BY DEF SchemaInv, SchemaTypeOK, PlanInv, SeenInv, SingleInv, schemaVars
-----------------------------------------------------------------------------
(* Cursor: pages *)

Increasing(s) == \A i, j \in DOMAIN s : i < j => s[i] < s[j]

\* A finite set of numbers can be written down in increasing order: the number of
\* elements that are not greater is the place of an element.
LEMMA InOrder ==
    ASSUME NEW S \in SUBSET Nat, IsFiniteSet(S)
    PROVE  /\ Cardinality(S) \in Nat
           /\ \E f \in [1..Cardinality(S) -> S] :
                 Increasing(f) /\ \A x \in S : \E i \in 1..Cardinality(S) : f[i] = x
  <1> DEFINE n == Cardinality(S)
             below(x) == {y \in S : y <= x}
             rank == [x \in S |-> Cardinality(below(x))]
  <1>1. n \in Nat
    BY FS_CardinalityType
  <1>2. ASSUME NEW x \in S
        PROVE  IsFiniteSet(below(x)) /\ rank[x] \in 1..n
    <2>1. IsFiniteSet(below(x)) /\ Cardinality(below(x)) <= n
      BY FS_Subset
    <2>2. Cardinality(below(x)) \in Nat /\ Cardinality(below(x)) # 0
      BY <2>1, FS_CardinalityType, FS_EmptySet
    <2> QED
      BY <1>1, <2>1, <2>2
  <1>3. ASSUME NEW x \in S, NEW y \in S, x < y
        PROVE  rank[x] < rank[y]
    <2>1. below(x) \in SUBSET below(y) /\ y \in below(y) /\ y \notin below(x)
      <3>1. x \in Nat /\ y \in Nat /\ \A z \in S : z \in Nat
        OBVIOUS
      <3>2. ~(y <= x) /\ y <= y /\ \A z \in Nat : z <= x => z <= y
        BY <1>3, <3>1
      <3> QED
        BY <3>1, <3>2
    <2>2. Cardinality(below(x)) <= Cardinality(below(y))
      BY <2>1, <1>2, FS_Subset
    <2>3. Cardinality(below(x)) # Cardinality(below(y))
      BY <2>1, <1>2, FS_Subset
    <2>4. rank[x] \in Nat /\ rank[y] \in Nat
      BY <1>1, <1>2
    <2> QED
      BY <2>2, <2>3, <2>4
  <1>4. rank \in Injection(S, 1..n)
    <2>1. rank \in [S -> 1..n]
      BY <1>2
    <2>2. \A x, y \in S : rank[x] = rank[y] => x = y
      BY <1>2, <1>3
    <2> HIDE DEF rank
    <2> QED
      BY <2>1, <2>2 DEF Injection, IsInjective
  <1> HIDE DEF rank
  <1>5. rank \in Surjection(S, 1..n)
    <2>1. IsFiniteSet(1..n) /\ Cardinality(1..n) = n
      BY <1>1, FS_Interval
    <2> QED
      BY <1>4, <2>1, FS_Injection
  <1>6. /\ rank \in [S -> 1..n] /\ \A i \in 1..n : \E x \in S : rank[x] = i
        /\ \A x, y \in S : rank[x] = rank[y] => x = y
    BY <1>4, <1>5 DEF Injection, IsInjective, Surjection
  <1> DEFINE f == [i \in 1..n |-> CHOOSE x \in S : rank[x] = i]
  <1>7. /\ f \in [1..n -> S] /\ \A i \in 1..n : rank[f[i]] = i
    BY <1>6
  <1> HIDE DEF f
  <1>8. \A x \in S : rank[x] \in 1..n /\ f[rank[x]] = x
    <2> SUFFICES ASSUME NEW x \in S PROVE rank[x] \in 1..n /\ f[rank[x]] = x
      OBVIOUS
    <2>1. rank[x] \in 1..n
      BY <1>6
    <2>2. f[rank[x]] \in S /\ rank[f[rank[x]]] = rank[x]
      BY <1>7, <2>1
    <2> QED
      BY <1>6, <2>1, <2>2
  <1>9. ASSUME NEW i \in 1..n, NEW j \in 1..n, i < j
        PROVE  f[i] < f[j]
    <2>1. f[i] \in S /\ f[j] \in S /\ rank[f[i]] = i /\ rank[f[j]] = j
      BY <1>7
    <2>2. ~(i = j) /\ ~(j < i)
      BY <1>1, <1>9
    <2>3. ~(f[j] < f[i]) /\ f[i] # f[j]
      BY <1>3, <2>1, <2>2
    <2>4. f[i] \in Nat /\ f[j] \in Nat
      BY <2>1
    <2> QED
      BY <2>3, <2>4
  <1>10. Increasing(f)
    BY <1>7, <1>9 DEF Increasing
  <1> QED
    BY <1>1, <1>7, <1>8, <1>10

\* What fetch_objects answers: objects after the uuid in order, none left out, no more
\* than the limit, and nothing only if there is nothing.
PageOf(page, S, after, limit) ==
    /\ page \in Seq(S) /\ Len(page) <= limit
    /\ Increasing(page) /\ \A i \in DOMAIN page : after < page[i]
    /\ \A o \in S, i \in DOMAIN page :
          after < o /\ o < page[i] => \E j \in DOMAIN page : page[j] = o
    /\ page = <<>> => \A o \in S : o <= after

LEMMA PageIs ==
    ASSUME NEW S \in SUBSET Object, NEW after \in Nat, NEW limit \in Nat \ {0}
    PROVE  PageOf(Page(S, after, limit), S, after, limit)
  <1> DEFINE between(o) == {p \in S : after < p /\ p < o}
             wanted == {o \in S : o > after /\ Cardinality(between(o)) < limit}
             n == Cardinality(wanted)
             page == Page(S, after, limit)
  <1>1. S \in SUBSET Nat /\ IsFiniteSet(S) /\ \A o \in S : o \in Nat
    <2>1. IsFiniteSet(Object) /\ \A o \in Object : o \in Nat
      <3>1. 1 \in Int /\ Last \in Int
        BY CursorConstantsOK DEF CursorConstantsOK
      <3> QED
        BY <3>1, FS_Interval DEF Object
    <2>2. IsFiniteSet(S)
      BY <2>1, FS_Subset
    <2> QED
      BY <2>1, <2>2
  <1>2. wanted \in SUBSET S /\ IsFiniteSet(wanted) /\ n \in Nat
    BY <1>1, FS_Subset, FS_CardinalityType
  <1>3. \A o \in S : IsFiniteSet(between(o)) /\ Cardinality(between(o)) \in Nat
    BY <1>1, FS_Subset, FS_CardinalityType
  <1>4. page \in [1..n -> wanted] /\ \A i, j \in DOMAIN page : i < j => page[i] < page[j]
    <2>1. wanted \in SUBSET Nat
      BY <1>1, <1>2
    <2>2. \E f \in [1..n -> wanted] : Increasing(f)
      BY <1>2, <2>1, InOrder
    <2>3. page = CHOOSE f \in [1..n -> wanted] : \A i, j \in DOMAIN f : i < j => f[i] < f[j]
      BY DEF Page
    <2> HIDE DEF page, wanted, n
    <2> QED
      BY <2>2, <2>3 DEF Increasing
  <1> HIDE DEF page
  <1>5. page \in Seq(S) /\ Len(page) = n /\ DOMAIN page = 1..n /\ Increasing(page)
    <2>1. page \in [1..n -> S] /\ DOMAIN page = 1..n
      BY <1>2, <1>4
    <2> HIDE DEF n
    <2>2. page \in Seq(S) /\ Len(page) = n
      BY <1>2, <2>1
    <2> QED
      BY <1>4, <2>1, <2>2 DEF Increasing
  <1>6. \A i \in 1..n : page[i] \in wanted /\ page[i] \in Nat
    BY <1>1, <1>2, <1>4
  \* An increasing function that has as many values as there are is onto.
  <1>7. \A o \in wanted : \E j \in 1..n : page[j] = o
    <2>1. \A i, j \in 1..n : page[i] = page[j] => i = j
      <3> SUFFICES ASSUME NEW i \in 1..n, NEW j \in 1..n, i # j PROVE page[i] # page[j]
        OBVIOUS
      <3> HIDE DEF n
      <3>1. page[i] \in Nat /\ page[j] \in Nat
        BY <1>6
      <3>2. i < j \/ j < i
        BY <1>2
      <3> QED
        BY <1>5, <3>1, <3>2 DEF Increasing
    <2>2. page \in Injection(1..n, wanted)
      BY <1>4, <2>1 DEF Injection, IsInjective
    <2>3. Cardinality(1..n) = n
      BY <1>2, FS_Interval
    <2>4. page \in Surjection(1..n, wanted)
      BY <1>2, <2>2, <2>3, FS_Injection
    <2> QED
      BY <2>4 DEF Surjection
  <1>8. \A i \in 1..n : after < page[i]
    BY <1>6
  \* What lies before an object of the page is wanted if that is.
  <1>9. ASSUME NEW o \in S, NEW i \in 1..n, after < o, o < page[i]
        PROVE  \E j \in 1..n : page[j] = o
    <2>1. page[i] \in S /\ Cardinality(between(page[i])) < limit
      BY <1>6
    <2>2. between(o) \in SUBSET between(page[i])
      <3>1. page[i] \in Nat /\ o \in Nat
        BY <1>1, <1>6
      <3>2. \A p \in Nat : p < o => p < page[i]
        BY <1>9, <3>1
      <3> QED
        BY <1>1, <3>2
    <2>3. Cardinality(between(o)) <= Cardinality(between(page[i]))
      BY <1>3, <2>1, <2>2, FS_Subset
    <2>4. Cardinality(between(o)) < limit
      <3>1. Cardinality(between(o)) \in Nat /\ Cardinality(between(page[i])) \in Nat
        BY <1>3, <2>1
      <3> QED
        BY <2>1, <2>3, <3>1
    <2>5. o \in wanted
      BY <1>1, <1>9, <2>4
    <2> QED
      BY <1>7, <2>5
  \* All but the last lie before the last.
  <1>10. n <= limit
    <2> SUFFICES ASSUME n # 0 PROVE n <= limit
      BY <1>2
    <2>1. n \in 1..n /\ page[n] \in S /\ Cardinality(between(page[n])) < limit
      <3>1. n \in 1..n
        BY <1>2
      <3> QED
        BY <1>6, <3>1
    <2>2. wanted \ {page[n]} \in SUBSET between(page[n])
      <3> SUFFICES ASSUME NEW o \in wanted, o # page[n] PROVE o \in between(page[n])
        OBVIOUS
      <3>1. PICK j \in 1..n : page[j] = o
        BY <1>7
      <3>2. j < n
        BY <1>2, <3>1
      <3> QED
        BY <1>2, <1>4, <1>5, <1>8, <2>1, <3>1, <3>2
    <2>3. Cardinality(wanted \ {page[n]}) <= Cardinality(between(page[n]))
      BY <1>3, <2>1, <2>2, FS_Subset
    <2>4. Cardinality(wanted \ {page[n]}) = n - 1
      BY <1>2, <1>6, <2>1, FS_RemoveElement
    <2>5. Cardinality(between(page[n])) \in Nat
      BY <1>3, <2>1
    <2> HIDE DEF n
    <2> QED
      BY <1>2, <2>1, <2>3, <2>4, <2>5
  \* The first object after the uuid is always wanted.
  <1>11. ASSUME n = 0, NEW o \in S, after < o
         PROVE  FALSE
    <2> DEFINE R == {p \in S : after < p}
    <2>1. R \in SUBSET Nat /\ IsFiniteSet(R) /\ R # {}
      BY <1>1, <1>11, FS_Subset
    <2>2. PICK f \in [1..Cardinality(R) -> R] :
             Increasing(f) /\ \A x \in R : \E i \in 1..Cardinality(R) : f[i] = x
      BY <2>1, InOrder
    <2>3. Cardinality(R) \in Nat /\ 1 \in 1..Cardinality(R)
      <3>1. Cardinality(R) \in Nat /\ Cardinality(R) # 0
        BY <2>1, FS_CardinalityType, FS_EmptySet
      <3> HIDE DEF R
      <3> QED
        BY <3>1
    <2>4. f[1] \in R /\ f[1] \in Nat
      BY <2>1, <2>2, <2>3
    <2>5. between(f[1]) = {}
      <3> SUFFICES ASSUME NEW p \in S, after < p, p < f[1] PROVE FALSE
        OBVIOUS
      <3>1. PICK i \in 1..Cardinality(R) : f[i] = p
        BY <2>2
      <3>2. i = 1 \/ 1 < i
        BY <2>3
      <3>3. p \in Nat
        BY <1>1
      <3> QED
        BY <2>2, <2>3, <2>4, <3>1, <3>2, <3>3 DEF Increasing
    <2>6. f[1] \in wanted
      <3>1. Cardinality(between(f[1])) = 0
        BY <2>5, FS_EmptySet
      <3>2. 0 < limit
        OBVIOUS
      <3> QED
        BY <2>4, <3>1, <3>2
    <2> QED
      BY <1>2, <1>11, <2>6, FS_EmptySet
  <1>12. page = <<>> => \A o \in S : o <= after
    BY <1>1, <1>5, <1>11
  <1> HIDE DEF wanted, n
  <1> QED
    BY <1>5, <1>8, <1>9, <1>10, <1>12 DEF PageOf, page
-----------------------------------------------------------------------------
(* Cursor: loops *)

LEMMA TailOf ==
    ASSUME NEW page \in Seq(Object), page # <<>>, Increasing(page)
    PROVE  /\ Head(page) \in Object /\ Tail(page) \in Seq(Object)
           /\ Len(Tail(page)) = Len(page) - 1
           /\ Head(page) = page[1] /\ 1 \in DOMAIN page
           /\ Increasing(Tail(page)) /\ \A i \in DOMAIN Tail(page) : Head(page) < Tail(page)[i]
           /\ \A i \in DOMAIN Tail(page) : i + 1 \in DOMAIN page /\ Tail(page)[i] = page[i + 1]
           /\ \A j \in DOMAIN page :
                 j # 1 => \E i \in DOMAIN Tail(page) : Tail(page)[i] = page[j]
  <1>1. /\ Len(page) \in Nat \ {0} /\ DOMAIN page = 1..Len(page) /\ Head(page) = page[1]
        /\ Head(page) \in Object
        /\ Tail(page) \in Seq(Object) /\ Len(Tail(page)) = Len(page) - 1
        /\ DOMAIN Tail(page) = 1..(Len(page) - 1)
        /\ \A i \in 1..(Len(page) - 1) : Tail(page)[i] = page[i + 1]
    OBVIOUS
  <1>2. \A i \in 1..(Len(page) - 1) : i + 1 \in 1..Len(page) /\ 1 < i + 1
    BY <1>1
  <1>3. \A j \in 1..Len(page) : j # 1 => j - 1 \in 1..(Len(page) - 1) /\ (j - 1) + 1 = j
    BY <1>1
  <1>4. 1 \in 1..Len(page)
    BY <1>1
  <1>5. \A i, j \in 1..(Len(page) - 1) : i < j => i + 1 < j + 1
    BY <1>1
  <1>6. Increasing(Tail(page))
    BY <1>1, <1>2, <1>5 DEF Increasing
  <1>7. \A i \in 1..(Len(page) - 1) : Head(page) < Tail(page)[i]
    BY <1>1, <1>2, <1>4 DEF Increasing
  <1>8. \A j \in 1..Len(page) :
           j # 1 => \E i \in 1..(Len(page) - 1) : Tail(page)[i] = page[j]
    <2> SUFFICES ASSUME NEW j \in 1..Len(page), j # 1
                 PROVE  \E i \in 1..(Len(page) - 1) : Tail(page)[i] = page[j]
      OBVIOUS
    <2>1. j - 1 \in 1..(Len(page) - 1) /\ Tail(page)[j - 1] = page[j]
      BY <1>1, <1>3
    <2> QED
      BY <2>1
  <1> QED
    BY <1>1, <1>2, <1>4, <1>6, <1>7, <1>8

LEMMA AppendOf ==
    ASSUME NEW s \in Seq(Object), NEW x \in Object, Increasing(s),
           \A i \in DOMAIN s : s[i] < x
    PROVE  /\ Append(s, x) \in Seq(Object) /\ Increasing(Append(s, x))
           /\ \A i \in DOMAIN Append(s, x) : Append(s, x)[i] <= x
           /\ \A o : (o = x \/ \E i \in DOMAIN s : s[i] = o)
                        => \E i \in DOMAIN Append(s, x) : Append(s, x)[i] = o
  <1> DEFINE t == Append(s, x)
             n == Len(s)
  <1>1. /\ n \in Nat /\ DOMAIN s = 1..n /\ t \in Seq(Object) /\ DOMAIN t = 1..(n + 1)
        /\ t[n + 1] = x /\ \A i \in 1..n : t[i] = s[i]
    OBVIOUS
  <1> HIDE DEF t, n
  <1>2. n + 1 \in 1..(n + 1) /\ \A i \in 1..(n + 1) : i = n + 1 \/ i \in 1..n
    BY <1>1
  <1>3. x \in Nat /\ \A i \in 1..n : s[i] \in Nat
    BY <1>1, CursorConstantsOK DEF Object, CursorConstantsOK
  <1>4. Increasing(t)
    <2> SUFFICES ASSUME NEW i \in 1..(n + 1), NEW j \in 1..(n + 1), i < j PROVE t[i] < t[j]
      BY <1>1 DEF Increasing
    <2>1. i \in 1..n
      BY <1>1
    <2> QED
      BY <1>1, <1>2, <2>1 DEF Increasing
  <1>5. \A i \in 1..(n + 1) : t[i] <= x
    <2> SUFFICES ASSUME NEW i \in 1..(n + 1) PROVE t[i] <= x
      OBVIOUS
    <2>1. CASE i = n + 1
      BY <1>1, <1>3, <2>1
    <2>2. CASE i \in 1..n
      <3>1. t[i] = s[i] /\ s[i] \in Nat /\ s[i] < x
        BY <1>1, <1>3, <2>2
      <3> QED
        BY <1>3, <3>1
    <2> QED
      BY <1>2, <2>1, <2>2
  <1>6. \A i \in 1..n : i \in 1..(n + 1)
    BY <1>1
  <1> QED
    BY <1>1, <1>2, <1>4, <1>5, <1>6 DEF t

\* Loop l is the one that uses the iterator.
Active(l) == alone[l] /\ loop[l] = "running"
Got(l, o) == \E i \in DOMAIN yielded[l] : yielded[l][i] = o

\* The objects that are there all the time and that the loop has not got lie behind
\* last_uuid: in the cache, or behind all that is in the cache.
CacheInv(l) ==
    /\ steady[l] \subseteq objects
    /\ Increasing(cache) /\ \A i \in DOMAIN cache : last_uuid < cache[i]
    /\ \A o \in steady[l], i \in DOMAIN cache :
          last_uuid < o /\ o < cache[i] => \E j \in DOMAIN cache : cache[j] = o
    /\ \A i \in DOMAIN yielded[l] : yielded[l][i] <= last_uuid
    /\ \A o \in steady[l] : After < o /\ o <= last_uuid => Got(l, o)
LoopInv == \A l \in Loop : /\ loop[l] = "new" => yielded[l] = <<>>
                           /\ Active(l) => CacheInv(l)

CursorInv == CursorTypeOK /\ LoopInv /\ EachOnce

LEMMA CursorStart == CursorInit => CursorInv
  <1> SUFFICES ASSUME CursorInit PROVE CursorInv
    OBVIOUS
  <1> USE CursorConstantsOK DEF CursorConstantsOK, CursorInit
  <1>1. alone \in [Loop -> BOOLEAN]
    BY Zenon
  <1>2. CursorTypeOK
    BY <1>1 DEF CursorTypeOK, Object
  <1>3. LoopInv /\ EachOnce
    BY DEF LoopInv, Active, EachOnce
  <1> QED
    BY <1>2, <1>3 DEF CursorInv

\* Other clients: an object that is added is not among those a loop must get.
LEMMA CursorOthers == CursorInv /\ (\E o \in Object : Insert(o) \/ Delete(o)) => CursorInv'
  <1> SUFFICES ASSUME CursorInv, NEW o \in Object, Insert(o) \/ Delete(o) PROVE CursorInv'
    OBVIOUS
  <1> USE DEF CursorInv, loopVars
  <1>1. /\ UNCHANGED <<cache, last_uuid, loop, yielded, alone>>
        /\ changes' = changes + 1 /\ changes < MaxChanges
        /\ objects' \subseteq Object
    BY DEF Insert, Delete, CursorTypeOK
  <1>2. \/ objects' = objects \cup {o} /\ steady' = steady
        \/ objects' = objects \ {o} /\ steady' = [l \in Loop |-> steady[l] \ {o}]
    BY DEF Insert, Delete
  <1>3. steady' \in [Loop -> SUBSET Object]
    BY <1>2 DEF CursorTypeOK
  <1>4. CursorTypeOK'
    BY <1>1, <1>3, CursorConstantsOK DEF CursorTypeOK, CursorConstantsOK
  <1>5. \A l \in Loop : /\ steady'[l] \subseteq steady[l]
                        /\ steady[l] \subseteq objects => steady'[l] \subseteq objects'
    BY <1>2
  <1>6. LoopInv'
    BY <1>1, <1>5 DEF LoopInv, Active, CacheInv, Got
  <1>7. EachOnce'
    BY <1>1, <1>5 DEF EachOnce
  <1> QED
    BY <1>4, <1>6, <1>7

LEMMA CursorBegin == CursorInv /\ (\E l \in Loop : Begin(l)) => CursorInv'
  <1> SUFFICES ASSUME CursorInv, NEW l \in Loop, Begin(l) PROVE CursorInv'
    OBVIOUS
  <1> USE DEF CursorInv
  <1>1. /\ loop[l] = "new" /\ cache' = <<>> /\ last_uuid' = After
        /\ loop' = [loop EXCEPT ![l] = "running"]
        /\ steady' = [steady EXCEPT ![l] = objects]
        /\ UNCHANGED <<objects, changes, yielded>>
    BY DEF Begin, Emptied
  <1>2. /\ alone' \in [Loop -> BOOLEAN]
        /\ \A k \in Loop : k # l => (alone'[k] <=> alone[k] /\ loop[k] # "running")
    BY Zenon DEF Begin, Interrupted, CursorTypeOK
  <1>3. CursorTypeOK'
    <2>1. After \in 0..Last /\ cache' \in Seq(Object) /\ Len(cache') < ITERATOR_CACHE_SIZE
      BY <1>1, CursorConstantsOK DEF CursorConstantsOK
    <2> QED
      BY <1>1, <1>2, <2>1 DEF CursorTypeOK
  <1>4. \A k \in Loop : k # l => loop'[k] = loop[k] /\ steady'[k] = steady[k]
    BY <1>1 DEF CursorTypeOK
  <1>5. /\ loop'[l] = "running" /\ steady'[l] = objects /\ yielded[l] = <<>>
        /\ objects \subseteq Object
    <2>1. yielded[l] = <<>>
      BY <1>1 DEF LoopInv
    <2>2. loop'[l] = "running" /\ steady'[l] = objects /\ objects \subseteq Object
      BY <1>1 DEF CursorTypeOK
    <2> QED
      BY <2>1, <2>2
  <1>6. CacheInv(l)'
    <2>1. \A o \in Object : ~(After < o /\ o <= After)
      BY CursorConstantsOK DEF CursorConstantsOK, Object
    <2> QED
      BY <1>1, <1>5, <2>1 DEF CacheInv, Increasing
  <1>7. LoopInv'
    BY <1>1, <1>2, <1>4, <1>5, <1>6 DEF LoopInv, Active
  <1>8. EachOnce'
    BY <1>1, <1>2, <1>4, <1>5 DEF EachOnce
  <1> QED
    BY <1>3, <1>7, <1>8

LEMMA CursorBreak == CursorInv /\ (\E l \in Loop : Break(l)) => CursorInv'
  <1> SUFFICES ASSUME CursorInv, NEW l \in Loop, Break(l) PROVE CursorInv'
    OBVIOUS
  <1> USE DEF CursorInv
  <1>1. /\ loop' = [loop EXCEPT ![l] = "broken"]
        /\ UNCHANGED <<objects, changes, cache, last_uuid, yielded, steady, alone>>
    BY DEF Break
  <1>2. CursorTypeOK'
    BY <1>1 DEF CursorTypeOK
  <1>3. \A k \in Loop : loop'[k] = loop[k] \/ loop'[k] = "broken"
    BY <1>1 DEF CursorTypeOK
  <1>4. LoopInv' /\ EachOnce'
    BY <1>1, <1>3 DEF LoopInv, Active, CacheInv, Got, EachOnce
  <1> QED
    BY <1>2, <1>4

\* What __next__ takes an object from is a page behind last_uuid, be it new or the rest
\* of an older one: then it leaves out only what was added since.
LEMMA CursorStep == CursorInv /\ (\E l \in Loop : Step(l)) => CursorInv'
  <1> SUFFICES ASSUME CursorInv, NEW l \in Loop, Step(l) PROVE CursorInv'
    OBVIOUS
  <1> USE DEF CursorInv
  <1> DEFINE page == IF cache # <<>> THEN cache
                     ELSE Page(objects, last_uuid, ITERATOR_CACHE_SIZE)
  <1>1. /\ loop[l] = "running" /\ UNCHANGED <<objects, changes, steady>>
        /\ \/ /\ page # <<>> /\ cache' = Tail(page) /\ last_uuid' = Head(page)
              /\ yielded' = [yielded EXCEPT ![l] = Append(yielded[l], Head(page))]
              /\ loop' = loop
           \/ /\ page = <<>> /\ loop' = [loop EXCEPT ![l] = "ended"]
              /\ UNCHANGED <<cache, last_uuid, yielded>>
    BY DEF Step
  <1>2. /\ alone' \in [Loop -> BOOLEAN]
        /\ alone'[l] <=> alone[l]
        /\ \A k \in Loop : k # l => (alone'[k] <=> alone[k] /\ loop[k] # "running")
    BY Zenon DEF Step, Interrupted, CursorTypeOK
  <1>3. /\ ITERATOR_CACHE_SIZE \in Nat \ {0} /\ last_uuid \in Nat /\ objects \in SUBSET Object
        /\ \A o \in Object : o \in Nat /\ o \in 0..Last
    BY CursorConstantsOK DEF CursorConstantsOK, CursorTypeOK, Object
  <1>4. /\ page \in Seq(Object) /\ Len(page) <= ITERATOR_CACHE_SIZE
        /\ cache = <<>> \/ page = cache
    <2>1. CASE cache # <<>>
      BY <1>3, <2>1 DEF CursorTypeOK
    <2>2. CASE cache = <<>>
      <3>1. PageOf(page, objects, last_uuid, ITERATOR_CACHE_SIZE)
        BY <1>3, <2>2, PageIs
      <3>2. page \in Seq(objects) /\ Len(page) <= ITERATOR_CACHE_SIZE
        BY <3>1 DEF PageOf
      <3> HIDE DEF page
      <3>3. page \in Seq(Object)
        BY <1>3, <3>2
      <3> QED
        BY <2>2, <3>2, <3>3
    <2> QED
      BY <2>1, <2>2
  <1>5. ASSUME Active(l)
        PROVE  /\ Increasing(page) /\ \A i \in DOMAIN page : last_uuid < page[i]
               /\ \A o \in steady[l], i \in DOMAIN page :
                     last_uuid < o /\ o < page[i] => \E j \in DOMAIN page : page[j] = o
               /\ page = <<>> => \A o \in steady[l] : o <= last_uuid
    <2>1. CacheInv(l)
      BY <1>5 DEF LoopInv
    <2>2. CASE cache # <<>>
      BY <2>1, <2>2 DEF CacheInv
    <2>3. CASE cache = <<>>
      <3>1. PageOf(page, objects, last_uuid, ITERATOR_CACHE_SIZE)
        BY <1>3, <2>3, PageIs
      <3> HIDE DEF page
      <3> QED
        BY <2>1, <3>1 DEF PageOf, CacheInv
    <2> QED
      BY <2>2, <2>3
  <1> HIDE DEF page
  <1>6. ASSUME NEW k \in Loop, k # l
        PROVE  /\ loop'[k] = loop[k] /\ yielded'[k] = yielded[k] /\ steady'[k] = steady[k]
               /\ alone'[k] => alone[k] /\ loop[k] # "running"
    BY <1>1, <1>2, <1>6 DEF CursorTypeOK
  <1>7. CASE page # <<>>
    <2> DEFINE x == Head(page)
    <2>1. /\ cache' = Tail(page) /\ last_uuid' = x /\ UNCHANGED <<objects, changes, steady, loop>>
          /\ yielded' = [yielded EXCEPT ![l] = Append(yielded[l], x)]
      BY <1>1, <1>7
    <2>2. x \in Object /\ Tail(page) \in Seq(Object) /\ Len(Tail(page)) = Len(page) - 1
      BY <1>4, <1>7
    <2>3. yielded[l] \in Seq(Object) /\ Append(yielded[l], x) \in Seq(Object)
      BY <2>2 DEF CursorTypeOK
    <2>4. CursorTypeOK'
      <3>1. yielded' \in [Loop -> Seq(Object)]
        BY <2>1, <2>3 DEF CursorTypeOK
      <3>2. Len(cache') < ITERATOR_CACHE_SIZE /\ cache' \in Seq(Object) /\ last_uuid' \in 0..Last
        BY <1>3, <1>4, <2>1, <2>2
      <3> QED
        BY <1>2, <2>1, <3>1, <3>2 DEF CursorTypeOK
    <2>5. yielded'[l] = Append(yielded[l], x) /\ steady'[l] = steady[l] /\ loop'[l] = "running"
      BY <1>1, <2>1 DEF CursorTypeOK
    <2>6. ASSUME alone'[l]
          PROVE  CacheInv(l)' /\ Increasing(yielded'[l])
      <3>1. Active(l) /\ CacheInv(l)
        BY <1>1, <1>2, <2>6 DEF Active, LoopInv
      <3>2. /\ Increasing(page) /\ \A i \in DOMAIN page : last_uuid < page[i]
            /\ \A o \in steady[l], i \in DOMAIN page :
                  last_uuid < o /\ o < page[i] => \E j \in DOMAIN page : page[j] = o
        BY <1>5, <3>1
      <3>3. /\ 1 \in DOMAIN page /\ x = page[1] /\ last_uuid < x
            /\ Increasing(Tail(page)) /\ \A i \in DOMAIN Tail(page) : x < Tail(page)[i]
            /\ \A i \in DOMAIN Tail(page) : i + 1 \in DOMAIN page /\ Tail(page)[i] = page[i + 1]
            /\ \A j \in DOMAIN page :
                  j # 1 => \E i \in DOMAIN Tail(page) : Tail(page)[i] = page[j]
        BY <1>4, <1>7, <3>2, TailOf
      <3>4. \A i \in DOMAIN yielded[l] : yielded[l][i] < x
        <4> SUFFICES ASSUME NEW i \in DOMAIN yielded[l] PROVE yielded[l][i] < x
          OBVIOUS
        <4>1. yielded[l][i] \in Object
          BY <2>3
        <4>2. yielded[l][i] <= last_uuid
          BY <3>1 DEF CacheInv
        <4> QED
          BY <1>3, <2>2, <3>3, <4>1, <4>2
      <3>5. Increasing(yielded[l])
        BY <3>1 DEF EachOnce, Active, Increasing
      <3> HIDE DEF x
      <3>6. /\ Increasing(yielded'[l]) /\ \A i \in DOMAIN yielded'[l] : yielded'[l][i] <= x
            /\ \A o : o = x \/ Got(l, o) => Got(l, o)'
        <4>1. /\ Increasing(Append(yielded[l], x))
              /\ \A i \in DOMAIN Append(yielded[l], x) : Append(yielded[l], x)[i] <= x
              /\ \A o : (o = x \/ \E i \in DOMAIN yielded[l] : yielded[l][i] = o)
                           => \E i \in DOMAIN Append(yielded[l], x) : Append(yielded[l], x)[i] = o
          BY <2>2, <2>3, <3>4, <3>5, AppendOf
        <4> QED
          BY <2>5, <4>1 DEF Got
      <3>7. \A o \in steady[l] : o \in Nat /\ o \in Object
        BY <1>3 DEF CursorTypeOK
      <3>8. ASSUME NEW o \in steady[l], After < o, o <= x
            PROVE  Got(l, o)'
        <4>1. CASE o <= last_uuid
          BY <3>1, <3>6, <3>8, <4>1 DEF CacheInv
        <4>2. CASE o = x
          BY <3>6, <4>2
        <4>3. CASE last_uuid < o /\ o < x
          <5>1. PICK j \in DOMAIN page : page[j] = o
            BY <3>2, <3>3, <4>3
          <5>2. j = 1 \/ 1 < j
            BY <1>4
          <5>3. ~(page[1] < o) /\ page[1] # o
            BY <1>3, <2>2, <3>3, <3>7, <4>3
          <5> QED
            BY <3>2, <3>3, <5>1, <5>2, <5>3 DEF Increasing
        <4> QED
          BY <1>3, <2>2, <3>7, <3>8, <4>1, <4>2, <4>3
      <3>9. ASSUME NEW o \in steady[l], NEW i \in DOMAIN Tail(page), x < o, o < Tail(page)[i]
            PROVE  \E j \in DOMAIN Tail(page) : Tail(page)[j] = o
        <4>1. last_uuid < o /\ o # x
          BY <1>3, <2>2, <3>3, <3>7, <3>9
        <4>2. PICK j \in DOMAIN page : page[j] = o
          BY <3>2, <3>3, <3>9, <4>1
        <4> QED
          BY <3>3, <4>1, <4>2
      <3> QED
        BY <2>1, <2>5, <3>1, <3>3, <3>6, <3>8, <3>9 DEF CacheInv
    <2>7. LoopInv'
      BY <1>6, <2>1, <2>5, <2>6 DEF LoopInv, Active
    <2>8. EachOnce'
      <3> SUFFICES ASSUME NEW k \in Loop, alone'[k]
                   PROVE  /\ Increasing(yielded'[k])
                          /\ loop'[k] = "ended" =>
                                \A o \in steady'[k] : o > After => Got(k, o)'
        BY DEF EachOnce, Increasing, Got
      <3>1. CASE k = l
        BY <2>5, <2>6, <3>1
      <3>2. CASE k # l
        BY <1>6, <3>2 DEF EachOnce, Increasing, Got
      <3> QED
        BY <3>1, <3>2
    <2> QED
      BY <2>4, <2>7, <2>8
  <1>8. CASE page = <<>>
    <2>1. /\ UNCHANGED <<objects, changes, steady, cache, last_uuid, yielded>>
          /\ loop' = [loop EXCEPT ![l] = "ended"]
      BY <1>1, <1>8
    <2>2. CursorTypeOK'
      BY <1>2, <2>1 DEF CursorTypeOK
    <2>3. loop'[l] = "ended"
      BY <2>1 DEF CursorTypeOK
    <2>4. LoopInv'
      BY <1>6, <2>1, <2>3 DEF LoopInv, Active
    <2>5. ASSUME alone'[l], NEW o \in steady[l], o > After
          PROVE  Got(l, o)
      <3>1. Active(l) /\ CacheInv(l)
        BY <1>1, <1>2, <2>5 DEF Active, LoopInv
      <3>2. o <= last_uuid
        BY <1>5, <1>8, <3>1
      <3>3. o \in Nat /\ After \in Nat
        BY <1>3, CursorConstantsOK DEF CursorTypeOK, CursorConstantsOK
      <3> QED
        BY <2>5, <3>1, <3>2, <3>3 DEF CacheInv
    <2>6. EachOnce'
      BY <1>2, <1>6, <2>1, <2>3, <2>5 DEF EachOnce, Got
    <2> QED
      BY <2>2, <2>4, <2>6
  <1> QED
    BY <1>7, <1>8

LEMMA CursorStays == CursorInv /\ UNCHANGED cursorVars => CursorInv'
  BY DEF CursorInv, CursorTypeOK, LoopInv, Active, CacheInv, Got, EachOnce, cursorVars, loopVars
-----------------------------------------------------------------------------
(* The collection *)

IInv == CursorInv /\ SchemaInv /\ IndexingInv

THEOREM Inductive == Spec => []IInv
  <1>1. Init => IInv
    BY CursorStart, SchemaStart, IndexingStart DEF Init, IInv
  <1>2. IInv /\ [Next]_vars => IInv'
    <2> SUFFICES ASSUME IInv, [Next]_vars PROVE IInv'
      OBVIOUS
    <2>1. CASE CursorNext /\ UNCHANGED <<schemaVars, indexingVars>>
      BY <2>1, CursorOthers, CursorBegin, CursorStep, CursorBreak, SchemaStays, IndexingStays
      DEF CursorNext, IInv
    <2>2. CASE SchemaNext /\ UNCHANGED <<cursorVars, indexingVars>>
      BY <2>2, CursorStays, SchemaStep, IndexingStays DEF IInv
    <2>3. CASE IndexingNext /\ UNCHANGED <<cursorVars, schemaVars>>
      BY <2>3, CursorStays, SchemaStays, IndexingStep DEF IInv
    <2>4. CASE UNCHANGED vars
      BY <2>4, CursorStays, SchemaStays, IndexingStays DEF IInv, vars
    <2> QED
      BY <2>1, <2>2, <2>3, <2>4 DEF Next
  <1> QED
    BY <1>1, <1>2, PTL DEF Spec
-----------------------------------------------------------------------------
\* The values that the iterator, the calls of config and the wait keep have their types;
\* a page is shorter than ITERATOR_CACHE_SIZE once its first object is yielded.
THEOREM TypeCorrect == Spec => []TypeOK
  <1>1. IInv => TypeOK
    BY DEF IInv, CursorInv, SchemaInv, IndexingInv, TypeOK
  <1> QED
    BY <1>1, Inductive, PTL

\* __iter__ and __next__: a loop that has the iterator to itself gets no object twice, and
\* every object that was there all the time, however pages and changes interleave.
THEOREM GetsEachOnce == Spec => []EachOnce
  <1>1. IInv => EachOnce
    BY DEF IInv, CursorInv
  <1> QED
    BY <1>1, Inductive, PTL

\* merge_with_existing on a schema that may be out of date, sent back whole: no overlap of
\* updates enables two quantizers, nor two modules of one kind.
THEOREM NeverTwo == Spec => []OneOfAKind
  <1>1. ASSUME NEW S, AtMostOne(S)
        PROVE  Cardinality(S) <= 1
    <2>1. S = {} \/ \E x : S = {x}
      BY <1>1 DEF AtMostOne
    <2>2. Cardinality(S) = 0 \/ Cardinality(S) = 1
      BY <2>1, FS_EmptySet, FS_Singleton
    <2> QED
      BY <2>2
  <1>2. IInv => OneOfAKind
    BY <1>1 DEF IInv, SchemaInv, SingleInv, Single, OneOfAKind
  <1> QED
    BY <1>2, Inductive, PTL

\* wait_for_vector_indexing: when it returns, what the batch has put into the shards it
\* waited for is indexed, though it has read them one after another.
THEOREM WaitsForTheBatch == Spec => []IndexedOnReturn
  <1>1. IInv => IndexedOnReturn
    BY DEF IInv, IndexingInv, ReadyInv, BackoffInv, IndexedOnReturn
  <1> QED
    BY <1>1, Inductive, PTL

\* update, add_vector and add_property: what a call does to the schema that another has
\* changed is lost only if that one's request followed the call's reading of the schema.
THEOREM LosesOnlyToOverlap == Spec => LostOnlyToOverlap
  <1> DEFINE Keeps(c) ==
        /\ \A section \in DOMAIN schema \ Named(call[c]) : schema'[section] = schema[section]
        /\ schema.vectors \subseteq schema'.vectors
        /\ schema.properties \subseteq schema'.properties
        /\ \/ schema.modules \cap Reranker = schema'.modules \cap Reranker
           \/ schema.modules \cap Generative = schema'.modules \cap Generative
  <1>1. ASSUME SchemaInv, NEW c \in Client, Put(c) \/ Post(c), seen[c] = version
        PROVE  Keeps(c)
    <2> USE <1>1 DEF SchemaInv
    <2>1. CASE schema' = schema
      BY <2>1
    <2>2. CASE schema' # schema
      <3>1. /\ schema' = IF pc[c] = "put" THEN Changed(c)
                         ELSE [schema EXCEPT !.properties = @ \cup {call[c].property}]
            /\ pc[c] \in {"put", "post"} /\ call[c] \in Calls
        BY <2>2, ChangedOK DEF Put, Post, PlanInv
      <3>2. read[c] = schema
        BY <3>1 DEF SeenInv
      <3>3. schema \in SchemaType
            /\ DOMAIN schema = {"description", "modules", "quantizers", "vectors", "properties"}
        BY DEF SchemaTypeOK, SchemaType
      <3>4. CASE pc[c] = "post"
        <4>1. call[c].kind = "add_property" /\ Named(call[c]) = {"properties"}
          BY <3>4 DEF PlanInv, Named
        <4>2. schema' = [schema EXCEPT !.properties = @ \cup {call[c].property}]
          BY <3>1, <3>4
        <4> QED
          BY <3>3, <4>1, <4>2 DEF SchemaType
      <3>5. CASE pc[c] = "put" /\ call[c].kind = "update"
        <4>1. /\ schema' = Merged(c, schema, call[c].update) /\ call[c].update \in Update
          BY <3>1, <3>2, <3>5 DEF Changed, Calls
        <4> DEFINE u == call[c].update
        <4>2. Named(call[c]) = (IF u.description THEN {"description"} ELSE {})
                                 \cup (IF u.module = None THEN {} ELSE {"modules"})
                                 \cup (IF u.quantizer = None THEN {} ELSE {"quantizers"})
          BY <3>5 DEF Named
        <4>3. /\ schema'.vectors = schema.vectors /\ schema'.properties = schema.properties
              /\ ~u.description => schema'.description = schema.description
              /\ u.quantizer = None => schema'.quantizers = schema.quantizers
              /\ schema'.modules = IF u.module = None THEN schema.modules
                                   ELSE Cleared(schema.modules, u.module) \cup {u.module}
          BY <3>3, <4>1 DEF Merged, SchemaType
        <4>4. u.module \in Generative \cup Reranker \cup {None} /\ Generative \cap Reranker = {}
          BY <4>1, SchemaConstantsOK DEF Update, Module, SchemaConstantsOK
        <4> HIDE DEF u
        <4>5. \/ schema.modules \cap Reranker = schema'.modules \cap Reranker
              \/ schema.modules \cap Generative = schema'.modules \cap Generative
          BY <4>3, <4>4 DEF Cleared
        <4> QED
          BY <3>3, <4>2, <4>3, <4>5
      <3>6. CASE pc[c] = "put" /\ call[c].kind = "add_vector"
        <4>1. schema' = [schema EXCEPT !.vectors = schema.vectors \cup {call[c].vector}]
          BY <3>1, <3>2, <3>6 DEF Changed, VectorAdded
        <4>2. Named(call[c]) = {"vectors"}
          BY <3>6 DEF Named
        <4> QED
          BY <3>3, <4>1, <4>2 DEF SchemaType
      <3> QED
        BY <3>1, <3>4, <3>5, <3>6 DEF Calls, PlanInv
    <2> QED
      BY <2>1, <2>2
  <1>2. ASSUME IInv, [Next]_vars
        PROVE  [\A c \in Client :
                  pc[c] \in {"put", "post"} /\ pc'[c] = "idle" /\ seen[c] = version
                    => Keeps(c)]_schemaVars
    <2> HIDE DEF Keeps
    <2> SUFFICES ASSUME SchemaNext, NEW c \in Client, pc[c] \in {"put", "post"},
                        pc'[c] = "idle", seen[c] = version
                 PROVE  Keeps(c)
      BY <1>2 DEF Next, vars
    <2>1. SchemaInv /\ pc \in [Client -> {"idle", "get", "exists", "put", "post"}]
      BY <1>2 DEF IInv, SchemaInv, SchemaTypeOK
    <2>2. Put(c) \/ Post(c)
      <3>1. PICK d \in Client : Change(d) \/ Get(d) \/ Exists(d) \/ Put(d) \/ Post(d)
        BY DEF SchemaNext
      <3>2. \E x : pc' = [pc EXCEPT ![d] = x]
        BY <3>1 DEF Change, Get, Exists, Put, Post, Ends
      <3>3. d = c
        BY <2>1, <3>2
      <3> QED
        BY <3>1, <3>3 DEF Change, Get, Exists
    <2> QED
      BY <1>1, <2>1, <2>2
  <1> QED
    BY <1>2, Inductive, PTL DEF Spec, LostOnlyToOverlap
=============================================================================
