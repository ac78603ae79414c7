------------------------- MODULE BatchResultsProofs -------------------------
(***************************************************************************)
(* Proofs about BatchResults: for every number of objects and references,  *)
(* every limit of stored results and every order of the answers, the       *)
(* results keep the latest, overwrite no error and keep the outcomes apart.*)
(***************************************************************************)
EXTENDS BatchResults, FiniteSetTheorems, WellFoundedInduction, TLAPS

(* Induction on a set of numbers, for what the recursive Values computes. *)

LEMMA Least == ASSUME NEW T, T \subseteq Nat, T # {} PROVE \E x \in T : \A y \in T : x <= y
  <1> DEFINE less == {p \in Nat \X Nat : p[1] < p[2]}
  <1>1. IsWellFoundedOn(less, Nat)
    BY NatLessThanWellFounded DEF OpToRel
  <1>2. \E x \in T : \A y \in T : <<y, x>> \notin less
    <2> HIDE DEF less
    <2> QED
      BY <1>1, WFMin
  <1>3. \A x, y \in Nat : <<y, x>> \notin less => x <= y
    OBVIOUS
  <1> QED
    BY <1>2, <1>3

LEMMA Induction ==
    ASSUME NEW S, 0 \in S, \A n \in Nat : n \in S => n + 1 \in S
    PROVE  Nat \subseteq S
  <1> SUFFICES ASSUME Nat \ S # {} PROVE FALSE
    OBVIOUS
  <1>1. PICK x \in Nat \ S : \A y \in Nat \ S : x <= y
    BY Least
  <1>2. x # 0 /\ x - 1 \in Nat /\ x - 1 \in S
    BY <1>1
  <1> QED
    BY <1>1, <1>2

\* The function that Values defines exists, and so it obeys its definition.
ValueOf(q, S) ==
    CHOOSE value : value = [i \in 0..Len(q) |->
                               IF i = 0 THEN <<>>
                               ELSE IF q[i] \in S THEN Append(value[i - 1], q[i])
                               ELSE value[i - 1]]

LEMMA ValueOfDef ==
    ASSUME NEW X, NEW q \in Seq(X), NEW S
    PROVE  /\ Values(q, S) = ValueOf(q, S)[Len(q)]
           /\ ValueOf(q, S)[0] = <<>>
           /\ \A i \in 1..Len(q) :
                 ValueOf(q, S)[i] = IF q[i] \in S THEN Append(ValueOf(q, S)[i - 1], q[i])
                                    ELSE ValueOf(q, S)[i - 1]
  <1> DEFINE Step(value, i) == IF i = 0 THEN <<>>
                               ELSE IF q[i] \in S THEN Append(value[i - 1], q[i])
                               ELSE value[i - 1]
             P(value, n) == value = [i \in 0..n |-> Step(value, i)]
             B == {n \in Nat : \E value : P(value, n)}
  <1>1. 0 \in B
    <2>1. P([i \in 0..0 |-> <<>>], 0)
      OBVIOUS
    <2> QED
      BY <2>1
  <1>2. ASSUME NEW n \in Nat, n \in B PROVE n + 1 \in B
    <2>1. PICK value : P(value, n)
      BY <1>2
    <2> DEFINE next == [i \in 0..(n + 1) |-> IF i = n + 1 THEN Step(value, i) ELSE value[i]]
    <2>2. \A i \in 0..(n + 1) : next[i] = Step(next, i)
      <3>0. \A i \in 0..n : value[i] = Step(value, i)
        <4> HIDE DEF Step
        <4> QED
          BY <2>1
      <3>1. \A i \in 0..n : next[i] = value[i] /\ value[i] = Step(value, i)
        BY <3>0
      <3>2. \A i \in 1..(n + 1) : next[i - 1] = value[i - 1]
        BY <3>1
      <3>3. \A i \in 0..(n + 1) : Step(next, i) = Step(value, i)
        BY <3>2
      <3>4. next[n + 1] = Step(value, n + 1)
        OBVIOUS
      <3>5. \A i \in 0..(n + 1) : i = n + 1 \/ i \in 0..n
        OBVIOUS
      <3> HIDE DEF next, Step
      <3> QED
        BY <3>1, <3>3, <3>4, <3>5
    <2>3. P(next, n + 1)
      BY <2>2
    <2>4. n + 1 \in Nat /\ \E f : P(f, n + 1)
      <3> HIDE DEF P, next
      <3> QED
        BY <2>3
    <2> QED
      BY <2>4
  <1>3. Len(q) \in B
    <2> HIDE DEF B
    <2>1. Nat \subseteq B
      BY <1>1, <1>2, Induction
    <2> QED
      BY <2>1
  <1>4. P(ValueOf(q, S), Len(q))
    BY <1>3 DEF ValueOf
  <1>5. Values(q, S) = ValueOf(q, S)[Len(q)]
    BY DEF Values, ValueOf
  <1>6. \A i \in 0..Len(q) : ValueOf(q, S)[i] = Step(ValueOf(q, S), i)
    BY <1>4
  <1> QED
    BY <1>5, <1>6

Places(q, S) == {j \in DOMAIN q : q[j] \in S}

LEMMA ToSetAppend ==
    ASSUME NEW X, NEW s \in Seq(X), NEW x \in X
    PROVE  /\ Append(s, x) \in Seq(X) /\ Len(Append(s, x)) = Len(s) + 1
           /\ ToSet(Append(s, x)) = ToSet(s) \cup {x}
           /\ IsInjective(s) /\ x \notin ToSet(s) => IsInjective(Append(s, x))
  <1>1. Append(s, x) \in Seq(X) /\ Len(Append(s, x)) = Len(s) + 1
    OBVIOUS
  <1>2. \A i \in 1..(Len(s) + 1) : Append(s, x)[i] = IF i = Len(s) + 1 THEN x ELSE s[i]
    OBVIOUS
  <1>3. /\ DOMAIN s = 1..Len(s) /\ DOMAIN Append(s, x) = 1..(Len(s) + 1)
        /\ 1..(Len(s) + 1) = 1..Len(s) \cup {Len(s) + 1} /\ Len(s) \in Nat
    OBVIOUS
  <1>4. ToSet(Append(s, x)) = ToSet(s) \cup {x}
    BY <1>2, <1>3 DEF ToSet
  <1>5. IsInjective(s) /\ x \notin ToSet(s) => IsInjective(Append(s, x))
    BY <1>2, <1>3 DEF ToSet, IsInjective
  <1> QED
    BY <1>1, <1>4, <1>5

\* Values keeps the members of S, each as often as q has it.
LEMMA ValuesKeep ==
    ASSUME NEW X, NEW q \in Seq(X), NEW S
    PROVE  /\ Values(q, S) \in Seq(X)
           /\ ToSet(Values(q, S)) = ToSet(q) \cap S
           /\ IsInjective(q) => IsInjective(Values(q, S))
           /\ IsFiniteSet(Places(q, S)) /\ Len(Values(q, S)) = Cardinality(Places(q, S))
  <1> DEFINE v == ValueOf(q, S)
             Upto(n) == {j \in 1..n : q[j] \in S}
             Good(n) == /\ v[n] \in Seq(X)
                        /\ ToSet(v[n]) = {q[j] : j \in Upto(n)}
                        /\ IsInjective(q) => IsInjective(v[n])
                        /\ IsFiniteSet(Upto(n)) /\ Len(v[n]) = Cardinality(Upto(n))
             B == {n \in Nat : n <= Len(q) => Good(n)}
  <1>1. /\ Values(q, S) = v[Len(q)] /\ v[0] = <<>>
        /\ \A i \in 1..Len(q) : v[i] = IF q[i] \in S THEN Append(v[i - 1], q[i]) ELSE v[i - 1]
    BY ValueOfDef
  <1> HIDE DEF v
  <1>2. Good(0)
    <2>1. Upto(0) = {} /\ IsFiniteSet({}) /\ Cardinality({}) = 0
      BY FS_EmptySet
    <2>2. <<>> \in Seq(X) /\ ToSet(<<>>) = {} /\ IsInjective(<<>>) /\ Len(<<>>) = 0
      BY DEF ToSet, IsInjective
    <2> QED
      BY <1>1, <2>1, <2>2
  <1>3. ASSUME NEW n \in Nat, n + 1 <= Len(q), Good(n) PROVE Good(n + 1)
    <2>1. n + 1 \in 1..Len(q) /\ n + 1 \in DOMAIN q /\ q[n + 1] \in X
      BY <1>3
    <2>2. v[n + 1] = IF q[n + 1] \in S THEN Append(v[n], q[n + 1]) ELSE v[n]
      BY <1>1, <2>1
    <2>3. 1..(n + 1) = 1..n \cup {n + 1} /\ n + 1 \notin 1..n
      OBVIOUS
    <2>4. CASE q[n + 1] \in S
      <3>1. Upto(n + 1) = Upto(n) \cup {n + 1} /\ n + 1 \notin Upto(n)
        BY <2>3, <2>4
      <3>2. IsFiniteSet(Upto(n + 1)) /\ Cardinality(Upto(n + 1)) = Cardinality(Upto(n)) + 1
        <4>1. IsFiniteSet(Upto(n))
          BY <1>3
        <4> HIDE DEF Upto
        <4> QED
          BY <3>1, <4>1, FS_AddElement
      <3>3. IsInjective(q) => q[n + 1] \notin ToSet(v[n])
        <4> SUFFICES ASSUME IsInjective(q), q[n + 1] \in ToSet(v[n]) PROVE FALSE
          OBVIOUS
        <4>1. PICK j \in 1..n : q[j] = q[n + 1]
          BY <1>3
        <4>2. j \in DOMAIN q
          BY <2>1
        <4> QED
          BY <2>1, <4>1, <4>2 DEF IsInjective
      <3>4. /\ v[n + 1] \in Seq(X) /\ Len(v[n + 1]) = Len(v[n]) + 1
            /\ ToSet(v[n + 1]) = ToSet(v[n]) \cup {q[n + 1]}
            /\ IsInjective(q) => IsInjective(v[n + 1])
        BY <1>3, <2>1, <2>2, <2>4, <3>3, ToSetAppend
      <3>5. {q[j] : j \in Upto(n + 1)} = {q[j] : j \in Upto(n)} \cup {q[n + 1]}
        BY <3>1
      <3> QED
        BY <1>3, <3>2, <3>4, <3>5
    <2>5. CASE q[n + 1] \notin S
      <3>1. Upto(n + 1) = Upto(n)
        BY <2>3, <2>5
      <3> QED
        BY <1>3, <2>2, <2>5, <3>1
    <2> QED
      BY <2>4, <2>5
  <1>4. Good(Len(q))
    <2>1. 0 \in B
      BY <1>2
    <2>2. \A n \in Nat : n \in B => n + 1 \in B
      <3> HIDE DEF Good
      <3> QED
        BY <1>3
    <2>3. Nat \subseteq B
      <3> HIDE DEF B
      <3> QED
        BY <2>1, <2>2, Induction
    <2>4. Len(q) \in Nat
      OBVIOUS
    <2> HIDE DEF Good
    <2> QED
      BY <2>3, <2>4
  <1>5. Upto(Len(q)) = Places(q, S) /\ {q[j] : j \in Upto(Len(q))} = ToSet(q) \cap S
    BY DEF Places, ToSet
  <1> QED
    BY <1>1, <1>4, <1>5

LEMMA ToSetConcat ==
    ASSUME NEW X, NEW s \in Seq(X), NEW t \in Seq(X)
    PROVE  /\ s \o t \in Seq(X) /\ Len(s \o t) = Len(s) + Len(t)
           /\ ToSet(s \o t) = ToSet(s) \cup ToSet(t)
           /\ IsInjective(s) /\ IsInjective(t) /\ ToSet(s) \cap ToSet(t) = {}
                 => IsInjective(s \o t)
  <1>1. s \o t \in Seq(X) /\ Len(s \o t) = Len(s) + Len(t) /\ Len(s) \in Nat /\ Len(t) \in Nat
    OBVIOUS
  <1>2. \A i \in 1..(Len(s) + Len(t)) : (s \o t)[i] = IF i <= Len(s) THEN s[i] ELSE t[i - Len(s)]
    OBVIOUS
  <1>3. DOMAIN s = 1..Len(s) /\ DOMAIN t = 1..Len(t) /\ DOMAIN (s \o t) = 1..(Len(s) + Len(t))
    BY <1>1
  <1>4. ToSet(s \o t) = ToSet(s) \cup ToSet(t)
    <2>1. \A i \in 1..Len(s) : i \in 1..(Len(s) + Len(t)) /\ (s \o t)[i] = s[i]
      BY <1>1, <1>2
    <2>2. \A i \in 1..Len(t) : i + Len(s) \in 1..(Len(s) + Len(t)) /\ (s \o t)[i + Len(s)] = t[i]
      BY <1>1, <1>2
    <2>3. \A i \in 1..(Len(s) + Len(t)) :
             \/ i \in 1..Len(s) /\ (s \o t)[i] = s[i]
             \/ i - Len(s) \in 1..Len(t) /\ (s \o t)[i] = t[i - Len(s)]
      BY <1>1, <1>2
    <2>4. ToSet(s) \subseteq ToSet(s \o t)
      BY <1>3, <2>1 DEF ToSet
    <2>5. ToSet(t) \subseteq ToSet(s \o t)
      BY <1>3, <2>2 DEF ToSet
    <2>6. ToSet(s \o t) \subseteq ToSet(s) \cup ToSet(t)
      BY <1>3, <2>3 DEF ToSet
    <2> QED
      BY <2>4, <2>5, <2>6
  <1>5. ASSUME IsInjective(s), IsInjective(t), ToSet(s) \cap ToSet(t) = {},
               NEW i \in 1..(Len(s) + Len(t)), NEW j \in 1..(Len(s) + Len(t)),
               (s \o t)[i] = (s \o t)[j]
        PROVE  i = j
    <2>1. CASE i <= Len(s) /\ j <= Len(s)
      BY <1>1, <1>2, <1>3, <1>5, <2>1 DEF IsInjective
    <2>2. CASE i > Len(s) /\ j > Len(s)
      <3>1. i - Len(s) \in 1..Len(t) /\ j - Len(s) \in 1..Len(t)
            /\ t[i - Len(s)] = t[j - Len(s)]
        BY <1>1, <1>2, <1>5, <2>2
      <3>2. i - Len(s) = j - Len(s)
        BY <1>3, <1>5, <3>1 DEF IsInjective
      <3> QED
        BY <1>1, <3>2
    <2>3. CASE i <= Len(s) /\ j > Len(s)
      <3>1. s[i] \in ToSet(s) /\ t[j - Len(s)] \in ToSet(t) /\ s[i] = t[j - Len(s)]
        BY <1>1, <1>2, <1>3, <1>5, <2>3 DEF ToSet
      <3> QED
        BY <1>5, <3>1
    <2>4. CASE i > Len(s) /\ j <= Len(s)
      <3>1. s[j] \in ToSet(s) /\ t[i - Len(s)] \in ToSet(t) /\ s[j] = t[i - Len(s)]
        BY <1>1, <1>2, <1>3, <1>5, <2>4 DEF ToSet
      <3> QED
        BY <1>5, <3>1
    <2> QED
      BY <1>1, <2>1, <2>2, <2>3, <2>4
  <1> QED
    BY <1>1, <1>3, <1>4, <1>5 DEF IsInjective

\* What the first n items of a queue and the rest of it have.
LEMMA ToSetSplit ==
    ASSUME NEW X, NEW s \in Seq(X), NEW n \in 1..Len(s)
    PROVE  LET head == SubSeq(s, 1, n)
               tail == SubSeq(s, n + 1, Len(s))
           IN  /\ head \in Seq(X) /\ tail \in Seq(X) /\ head # <<>>
               /\ ToSet(head) \cup ToSet(tail) = ToSet(s)
               /\ IsInjective(s) => /\ IsInjective(head) /\ IsInjective(tail)
                                    /\ ToSet(head) \cap ToSet(tail) = {}
  <1> DEFINE head == SubSeq(s, 1, n)
             tail == SubSeq(s, n + 1, Len(s))
  <1>1. /\ Len(s) \in Nat /\ n \in Nat /\ n <= Len(s)
        /\ head \in Seq(X) /\ tail \in Seq(X)
        /\ Len(head) = n /\ Len(tail) = Len(s) - n
    OBVIOUS
  <1>2. \A i \in 1..n : head[i] = s[i]
    OBVIOUS
  <1>3. \A i \in 1..(Len(s) - n) : tail[i] = s[n + i]
    OBVIOUS
  <1>4. DOMAIN s = 1..Len(s) /\ DOMAIN head = 1..n /\ DOMAIN tail = 1..(Len(s) - n)
    BY <1>1
  <1> HIDE DEF head, tail
  <1>5. \A i \in 1..Len(s) : \/ i \in 1..n /\ head[i] = s[i]
                             \/ i - n \in 1..(Len(s) - n) /\ tail[i - n] = s[i]
    BY <1>1, <1>2, <1>3
  <1>6. \A i \in 1..n : i \in 1..Len(s) /\ head[i] = s[i]
    BY <1>1, <1>2
  <1>7. \A i \in 1..(Len(s) - n) : n + i \in 1..Len(s) /\ tail[i] = s[n + i]
    BY <1>1, <1>3
  <1>8. ToSet(head) \cup ToSet(tail) = ToSet(s)
    <2>1. ToSet(head) \subseteq ToSet(s)
      BY <1>4, <1>6 DEF ToSet
    <2>2. ToSet(tail) \subseteq ToSet(s)
      BY <1>4, <1>7 DEF ToSet
    <2>3. ToSet(s) \subseteq ToSet(head) \cup ToSet(tail)
      BY <1>4, <1>5 DEF ToSet
    <2> QED
      BY <2>1, <2>2, <2>3
  <1>9. ASSUME IsInjective(s)
        PROVE  IsInjective(head) /\ IsInjective(tail) /\ ToSet(head) \cap ToSet(tail) = {}
    <2>1. IsInjective(head)
      BY <1>4, <1>6, <1>9 DEF IsInjective
    <2>2. ASSUME NEW i \in 1..(Len(s) - n), NEW j \in 1..(Len(s) - n), tail[i] = tail[j]
          PROVE  i = j
      <3>1. n + i = n + j
        BY <1>4, <1>7, <1>9, <2>2 DEF IsInjective
      <3> QED
        BY <1>1, <3>1
    <2>3. ASSUME NEW i \in 1..n, NEW j \in 1..(Len(s) - n), head[i] = tail[j]
          PROVE  FALSE
      <3>1. i = n + j
        BY <1>4, <1>6, <1>7, <1>9, <2>3 DEF IsInjective
      <3> QED
        BY <1>1, <3>1
    <2> QED
      BY <1>4, <2>1, <2>2, <2>3 DEF IsInjective, ToSet
  <1>10. head # <<>>
    BY <1>1
  <1> QED
    BY <1>1, <1>8, <1>9, <1>10 DEF head, tail
-----------------------------------------------------------------------------
(* Types.  Record's part of a step is stated once for both kinds of answer. *)

USE ConstantsOK

\* What is left of the errors when the objects in again are tried again.
Kept(errors, again) == {k \in DOMAIN errors : errors[k] \notin again}

Recorded(q, response, failed, again) ==
    /\ batch_objects' = Values(q, again) \o batch_objects
    /\ failed_objects' = failed_objects \o Values(q, failed \ again)
    /\ objs'.uuids = Trimmed(objs.uuids \cup response.uuids)
    /\ DOMAIN objs'.errors = DOMAIN objs.errors \cup Kept(response.errors, again)
    /\ \A k \in Kept(response.errors, again) : objs'.errors[k] = response.errors[k]
    /\ \A k \in DOMAIN objs.errors \ Kept(response.errors, again) :
          objs'.errors[k] = objs.errors[k]
    /\ objs'.has_errors <=>
          objs.has_errors \/ (IF again = {} THEN response.has_errors
                              ELSE Kept(response.errors, again) # {})

LEMMA RecordDoes ==
    ASSUME NEW q, NEW response, NEW failed, Record(q, response, failed)
    PROVE  \E again \in SUBSET failed : Recorded(q, response, failed, again)
  <1>1. PICK again \in SUBSET failed :
           /\ batch_objects' = Values(q, again) \o batch_objects
           /\ failed_objects' = failed_objects \o Values(q, failed \ again)
           /\ objs' = AddObjs(objs, IF again = {} THEN response ELSE Without(response, again))
    BY DEF Record
  <1>2. CASE again = {}
    <2>1. Kept(response.errors, again) = DOMAIN response.errors
      BY <1>2 DEF Kept
    <2>2. objs' = AddObjs(objs, response)
      BY <1>1, <1>2
    <2>3. /\ objs'.uuids = Trimmed(objs.uuids \cup response.uuids)
          /\ objs'.errors = Update(objs.errors, response.errors)
          /\ objs'.has_errors = (objs.has_errors \/ response.has_errors)
      BY <2>2 DEF AddObjs
    <2>4. Recorded(q, response, failed, again)
      BY <1>1, <1>2, <2>1, <2>3 DEF Recorded, Update
    <2> QED
      BY <2>4
  <1>3. CASE again # {}
    <2> DEFINE final == Without(response, again)
    <2>1. /\ DOMAIN final.errors = Kept(response.errors, again)
          /\ \A k \in Kept(response.errors, again) : final.errors[k] = response.errors[k]
          /\ final.has_errors <=> Kept(response.errors, again) # {}
          /\ final.uuids = response.uuids
      BY DEF Without, Restrict, Kept
    <2>2. objs' = AddObjs(objs, final)
      BY <1>1, <1>3
    <2> HIDE DEF final
    <2>3. /\ objs'.uuids = Trimmed(objs.uuids \cup final.uuids)
          /\ objs'.errors = Update(objs.errors, final.errors)
          /\ objs'.has_errors = (objs.has_errors \/ final.has_errors)
      BY <2>2 DEF AddObjs
    <2>4. Recorded(q, response, failed, again)
      BY <1>1, <1>3, <2>1, <2>3 DEF Recorded, Update
    <2> QED
      BY <2>4
  <1> QED
    BY <1>2, <1>3

TypeInv ==
    /\ batch_objects \in Seq(Index) /\ batch_references \in Seq(RefIndex)
    /\ \A q \in sent : q \in Seq(Index) /\ q # <<>>
    /\ sent_refs \subseteq Seq(RefIndex)
    /\ failed_objects \in Seq(Index) /\ failed_references \in Seq(RefIndex)
    /\ imported \subseteq Index /\ objs.uuids \subseteq imported

LEMMA TypeInit == Init => TypeInv
  BY DEF Init, TypeInv, NoObjs, Index, RefIndex

LEMMA TrimmedPart == \A uuids : Trimmed(uuids) \subseteq uuids
  BY DEF Trimmed

\* Both answers to a request for objects: what is refused is part of the request,
\* and the uuids are those of the rest or none.
ObjectsStep(q, refused, response) ==
    /\ q \in sent /\ refused \subseteq ToSet(q)
    /\ sent' = sent \ {q}
    /\ Record(q, response, refused)
    /\ UNCHANGED referenceFrame
    /\ \/ /\ refused # ToSet(q) /\ response = Answer(q, refused)
          /\ imported' = imported \cup (ToSet(q) \ refused) /\ rejected' = rejected
       \/ /\ refused = ToSet(q) /\ response = AllErrors(q)
          /\ imported' = imported /\ rejected' = TRUE

LEMMA ObjectsSteps ==
    ASSUME ObjectsAnswered \/ ObjectsRejected
    PROVE  \E q, refused, response : ObjectsStep(q, refused, response)
  <1>1. CASE ObjectsAnswered
    <2>1. PICK q \in sent, refused \in SUBSET Index :
             /\ refused \subseteq ToSet(q) /\ refused # ToSet(q)
             /\ sent' = sent \ {q}
             /\ imported' = imported \cup (ToSet(q) \ refused)
             /\ Record(q, Answer(q, refused), refused)
      BY <1>1 DEF ObjectsAnswered
    <2>2. ObjectsStep(q, refused, Answer(q, refused))
      BY <1>1, <2>1 DEF ObjectsStep, ObjectsAnswered
    <2> QED
      BY <2>2
  <1>2. CASE ObjectsRejected
    <2>1. PICK q \in sent : sent' = sent \ {q} /\ Record(q, AllErrors(q), ToSet(q))
      BY <1>2 DEF ObjectsRejected
    <2>2. ObjectsStep(q, ToSet(q), AllErrors(q))
      BY <1>2, <2>1 DEF ObjectsStep, ObjectsRejected
    <2> QED
      BY <2>2
  <1> QED
    BY <1>1, <1>2

LEMMA TypeNext == TypeInv /\ [Next]_vars => TypeInv'
  <1> SUFFICES ASSUME TypeInv, [Next]_vars PROVE TypeInv'
    OBVIOUS
  <1> USE DEF TypeInv
  <1>1. CASE SendObjects
    <2>1. PICK n \in 1..Len(batch_objects) :
             /\ sent' = sent \cup {SubSeq(batch_objects, 1, n)}
             /\ batch_objects' = SubSeq(batch_objects, n + 1, Len(batch_objects))
      BY <1>1 DEF SendObjects
    <2>2. /\ SubSeq(batch_objects, 1, n) \in Seq(Index) /\ SubSeq(batch_objects, 1, n) # <<>>
          /\ SubSeq(batch_objects, n + 1, Len(batch_objects)) \in Seq(Index)
      BY ToSetSplit
    <2>3. UNCHANGED <<objs, failed_objects, imported, referenceFrame>>
      BY <1>1 DEF SendObjects
    <2> QED
      BY <2>1, <2>2, <2>3 DEF referenceFrame
  <1>2. CASE SendReferences
    <2>1. PICK n \in 1..Len(batch_references) :
             /\ sent_refs' = sent_refs \cup {SubSeq(batch_references, 1, n)}
             /\ batch_references' = SubSeq(batch_references, n + 1, Len(batch_references))
      BY <1>2 DEF SendReferences
    <2>2. /\ SubSeq(batch_references, 1, n) \in Seq(RefIndex)
          /\ SubSeq(batch_references, n + 1, Len(batch_references)) \in Seq(RefIndex)
      BY ToSetSplit
    <2>3. UNCHANGED <<failed_references, objectFrame>>
      BY <1>2 DEF SendReferences
    <2> QED
      BY <2>1, <2>2, <2>3 DEF objectFrame
  <1>3. ASSUME NEW q, NEW refused, NEW response, ObjectsStep(q, refused, response) PROVE TypeInv'
    <2>1. /\ q \in Seq(Index) /\ ToSet(q) \subseteq Index /\ sent' = sent \ {q}
          /\ UNCHANGED referenceFrame
      BY <1>3 DEF ObjectsStep, ToSet
    <2>2. PICK again \in SUBSET refused : Recorded(q, response, refused, again)
      BY <1>3, RecordDoes DEF ObjectsStep
    <2>3. batch_objects' \in Seq(Index) /\ failed_objects' \in Seq(Index)
      BY <2>1, <2>2, ValuesKeep, ToSetConcat DEF Recorded
    <2>4. imported' \subseteq Index /\ imported \cup response.uuids \subseteq imported'
      BY <1>3, <2>1 DEF ObjectsStep, Answer, AllErrors
    <2>5. objs'.uuids \subseteq imported'
      BY <2>2, <2>4, TrimmedPart DEF Recorded
    <2> QED
      BY <2>1, <2>3, <2>4, <2>5 DEF referenceFrame
  <1>4. CASE ReferencesAnswered
    <2>1. PICK q \in sent_refs, refused \in SUBSET RefIndex :
             /\ sent_refs' = sent_refs \ {q}
             /\ failed_references' = failed_references \o Values(q, refused)
      BY <1>4 DEF ReferencesAnswered
    <2>2. failed_references' \in Seq(RefIndex)
      BY <2>1, ValuesKeep, ToSetConcat
    <2>3. UNCHANGED <<batch_references, objectFrame>>
      BY <1>4 DEF ReferencesAnswered
    <2> QED
      BY <2>1, <2>2, <2>3 DEF objectFrame
  <1>5. CASE UNCHANGED vars
    BY <1>5 DEF vars
  <1> QED
    BY <1>1, <1>2, <1>3, <1>4, <1>5, ObjectsSteps DEF Next
-----------------------------------------------------------------------------
(* The latest results are kept. *)

LEMMA MaxIs ==
    ASSUME NEW I \in SUBSET Index, I # {}
    PROVE  MaxOf(I) \in I /\ \A y \in I : y <= MaxOf(I)
  <1> DEFINE T == {n \in Nat : \E x \in I : x + n = Objects}
  <1>1. \A x \in I : x \in Nat /\ Objects - x \in Nat /\ x + (Objects - x) = Objects
    BY DEF Index
  <1>2. T \subseteq Nat /\ T # {}
    BY <1>1
  <1>3. PICK n \in T : \A m \in T : n <= m
    <2> HIDE DEF T
    <2> QED
      BY <1>2, Least
  <1>4. PICK x \in I : x + n = Objects
    BY <1>3
  <1>5. \A y \in I : y <= x
    BY <1>1, <1>3, <1>4
  <1> QED
    BY <1>4, <1>5 DEF MaxOf

LEMMA MinIs ==
    ASSUME NEW I \in SUBSET Index, I # {}
    PROVE  MinOf(I) \in I /\ \A y \in I : MinOf(I) <= y
  <1>1. I \subseteq Nat
    BY DEF Index
  <1>2. \E x \in I : \A y \in I : x <= y
    BY <1>1, Least
  <1> QED
    BY <1>2 DEF MinOf

LEMMA IndexFinite == \A I \in SUBSET Index : IsFiniteSet(I) /\ Cardinality(I) \in Nat
  <1>1. IsFiniteSet(Index)
    BY FS_Interval DEF Index
  <1> QED
    BY <1>1, FS_Subset, FS_CardinalityType

Latest(uuids, all) ==
    uuids \subseteq all /\ \A i \in all : i > MaxOf(all) - MAX_STORED_RESULTS => i \in uuids

\* The loop over range(...) keeps what is less than MAX_STORED_RESULTS behind the latest,
\* and leaves no more than MAX_STORED_RESULTS.
LEMMA TrimmedLatest ==
    ASSUME NEW all \in SUBSET Index, NEW uuids, Latest(uuids, all)
    PROVE  /\ Latest(Trimmed(uuids), all)
           /\ Cardinality(Trimmed(uuids)) <= MAX_STORED_RESULTS
  <1>1. uuids \in SUBSET Index /\ all \subseteq Nat /\ uuids \subseteq Nat
    BY DEF Latest, Index
  <1>2. CASE Cardinality(uuids) < MAX_STORED_RESULTS
    <2>1. Trimmed(uuids) = uuids /\ Cardinality(uuids) \in Nat
      BY <1>1, <1>2, IndexFinite DEF Trimmed
    <2> QED
      BY <1>2, <2>1
  <1>3. CASE ~(Cardinality(uuids) < MAX_STORED_RESULTS)
    <2>1. uuids # {} /\ all # {}
      BY <1>3, FS_EmptySet DEF Latest
    <2> DEFINE max == MaxOf(uuids)
               kept == uuids \ (MinOf(uuids)..(max - MAX_STORED_RESULTS))
    <2>2. Trimmed(uuids) = kept
      BY <1>3 DEF Trimmed
    <2>3. /\ max \in uuids /\ \A y \in uuids : MinOf(uuids) <= y /\ y <= max
          /\ MinOf(uuids) \in uuids /\ max \in Nat /\ MinOf(uuids) \in Nat
      BY <1>1, <2>1, MaxIs, MinIs
    <2>4. MaxOf(all) \in all /\ \A y \in all : y <= MaxOf(all)
      BY <2>1, MaxIs
    <2>5. MaxOf(all) = max
      <3>1. MaxOf(all) \in Nat /\ MaxOf(all) > MaxOf(all) - MAX_STORED_RESULTS
        <4>1. MaxOf(all) \in Nat
          BY <1>1, <2>4
        <4>2. MAX_STORED_RESULTS \in Nat /\ MAX_STORED_RESULTS > 0
          OBVIOUS
        <4> QED
          BY <4>1, <4>2
      <3>2. MaxOf(all) \in uuids
        BY <2>4, <3>1 DEF Latest
      <3>3. max \in all
        BY <2>3 DEF Latest
      <3>4. max <= MaxOf(all) /\ MaxOf(all) <= max
        BY <2>3, <2>4, <3>2, <3>3
      <3> HIDE DEF max
      <3> QED
        BY <2>3, <3>1, <3>4
    <2> HIDE DEF max
    <2>6. \A i \in uuids : i \in kept <=> i > max - MAX_STORED_RESULTS
      BY <1>1, <2>3
    <2>7. Latest(kept, all)
      BY <2>5, <2>6 DEF Latest
    <2>8. kept \subseteq (max - MAX_STORED_RESULTS + 1)..max
      <3>1. \A i \in kept : i \in uuids /\ i \in Nat /\ i <= max /\ i > max - MAX_STORED_RESULTS
        BY <1>1, <2>3, <2>6
      <3> HIDE DEF kept
      <3> QED
        BY <2>3, <3>1
    <2>9. /\ IsFiniteSet((max - MAX_STORED_RESULTS + 1)..max)
          /\ Cardinality((max - MAX_STORED_RESULTS + 1)..max) = MAX_STORED_RESULTS
      <3>1. max \in Int /\ max - MAX_STORED_RESULTS + 1 \in Int
        BY <2>3
      <3>2. /\ ~(max - MAX_STORED_RESULTS + 1 > max)
            /\ max - (max - MAX_STORED_RESULTS + 1) + 1 = MAX_STORED_RESULTS
        BY <2>3
      <3> QED
        BY <3>1, <3>2, FS_Interval
    <2>10. Cardinality(kept) <= MAX_STORED_RESULTS
      <3> HIDE DEF kept
      <3> QED
        BY <2>8, <2>9, FS_Subset
    <2> QED
      BY <2>2, <2>7, <2>10
  <1> QED
    BY <1>2, <1>3

LEMMA LatestGrows ==
    ASSUME NEW all \in SUBSET Index, NEW uuids, Latest(uuids, all), NEW new \in SUBSET Index
    PROVE  Latest(uuids \cup new, all \cup new)
  <1>1. all \subseteq Nat /\ new \subseteq Nat
    BY DEF Index
  <1>2. ASSUME NEW i \in all, i > MaxOf(all \cup new) - MAX_STORED_RESULTS PROVE i \in uuids
    <2>1. MaxOf(all) \in all
      BY MaxIs
    <2>2. MaxOf(all \cup new) \in all \cup new /\ MaxOf(all) <= MaxOf(all \cup new)
      BY <2>1, MaxIs
    <2>3. i > MaxOf(all) - MAX_STORED_RESULTS
      <3>1. i \in Nat /\ MaxOf(all) \in Nat /\ MaxOf(all \cup new) \in Nat
        BY <1>1, <2>1, <2>2
      <3> QED
        BY <1>2, <2>2, <3>1
    <2> QED
      BY <2>3 DEF Latest
  <1> QED
    BY <1>2 DEF Latest

LatestInv == Latest(objs.uuids, imported) /\ Cardinality(objs.uuids) <= MAX_STORED_RESULTS

LEMMA LatestInit == Init => LatestInv
  BY FS_EmptySet DEF Init, LatestInv, Latest, NoObjs

LEMMA LatestNext == TypeInv /\ LatestInv /\ [Next]_vars => LatestInv'
  <1> SUFFICES ASSUME TypeInv, LatestInv, [Next]_vars PROVE LatestInv'
    OBVIOUS
  <1>1. CASE UNCHANGED <<objs, imported>>
    BY <1>1 DEF LatestInv
  <1>2. ASSUME NEW q, NEW refused, NEW response, ObjectsStep(q, refused, response)
        PROVE  LatestInv'
    <2>1. ToSet(q) \subseteq Index /\ imported \in SUBSET Index
      BY <1>2 DEF ObjectsStep, ToSet, TypeInv
    <2>2. /\ objs'.uuids = Trimmed(objs.uuids \cup response.uuids)
          /\ response.uuids \in SUBSET Index /\ imported' = imported \cup response.uuids
      <3>1. objs'.uuids = Trimmed(objs.uuids \cup response.uuids)
        BY <1>2, RecordDoes DEF ObjectsStep, Recorded
      <3>2. \/ /\ response.uuids = ToSet(q) \ refused
               /\ imported' = imported \cup (ToSet(q) \ refused)
            \/ response.uuids = {} /\ imported' = imported
        BY <1>2 DEF ObjectsStep, Answer, AllErrors
      <3> QED
        BY <2>1, <3>1, <3>2
    <2>3. Latest(objs.uuids \cup response.uuids, imported')
      BY <2>1, <2>2, LatestGrows DEF LatestInv
    <2>4. imported' \in SUBSET Index
      BY <2>1, <2>2
    <2> QED
      BY <2>2, <2>3, <2>4, TrimmedLatest DEF LatestInv
  <1> QED
    BY <1>1, <1>2, ObjectsSteps
       DEF Next, vars, SendObjects, SendReferences, ReferencesAnswered, objectFrame

\* LatestKept: whatever the order of the answers, results.objs holds no more than
\* MAX_STORED_RESULTS uuids and lacks none of the latest.
THEOREM KeepsLatest == Spec => []LatestKept
  <1>1. LatestInv => LatestKept
    BY DEF LatestInv, Latest, LatestKept
  <1> QED
    BY <1>1, TypeInit, TypeNext, LatestInit, LatestNext, PTL DEF Spec
-----------------------------------------------------------------------------
(* The errors of references: numbered on, none is overwritten. *)

Numbered(errors) == /\ errors = [k \in DOMAIN errors |-> errors[k]]
                    /\ \E n \in Nat : DOMAIN errors \subseteq 0..n

\* The first number that __add__ gives is above all those in use.
FirstFree(errors) == IF errors = <<>> THEN 0 ELSE MaxOf(DOMAIN errors) + 1

LEMMA FreeAbove ==
    ASSUME NEW errors, Numbered(errors)
    PROVE  FirstFree(errors) \in Nat /\ \A k \in DOMAIN errors : k < FirstFree(errors)
  <1>1. CASE DOMAIN errors = {}
    <2>1. errors = <<>>
      BY <1>1 DEF Numbered
    <2> QED
      BY <1>1, <2>1 DEF FirstFree
  <1>2. CASE DOMAIN errors # {}
    <2> DEFINE D == DOMAIN errors
               T == {n \in Nat : D \subseteq 0..n}
    <2>1. T \subseteq Nat /\ T # {}
      BY DEF Numbered
    <2>2. PICK n \in T : \A m \in T : n <= m
      <3> HIDE DEF T
      <3> QED
        BY <2>1, Least
    <2>3. n \in Nat /\ D \subseteq 0..n
      BY <2>2
    <2>4. n \in D
      <3> SUFFICES ASSUME n \notin D PROVE FALSE
        OBVIOUS
      <3>1. n # 0 /\ D \subseteq 0..(n - 1)
        BY <1>2, <2>3
      <3>2. n - 1 \in T
        BY <2>3, <3>1
      <3> QED
        BY <2>2, <2>3, <3>2
    <2>5. \A k \in D : k <= n /\ k \in Nat
      BY <2>3
    <2>6. MaxOf(D) \in D /\ \A k \in D : k <= MaxOf(D)
      <3> HIDE DEF D
      <3> QED
        BY <2>4, <2>5 DEF MaxOf
    <2>7. errors # <<>>
      BY <1>2
    <2> QED
      BY <2>5, <2>6, <2>7 DEF FirstFree
  <1> QED
    BY <1>1, <1>2

LEMMA RenumberedAway ==
    ASSUME NEW errors, Numbered(errors), NEW X, NEW q \in Seq(X), NEW S,
           NEW more, more = Renumbered(errors, ByPlace(q, S))
    PROVE  /\ DOMAIN more \cap DOMAIN errors = {}
           /\ IsFiniteSet(DOMAIN more) /\ Cardinality(DOMAIN more) = Cardinality(Places(q, S))
           /\ \E n \in Nat : DOMAIN more \subseteq 0..n
           /\ Range(more) = ToSet(q) \cap S
  <1> DEFINE first == FirstFree(errors)
             P == Places(q, S)
             b == ByPlace(q, S)
             place == [j \in P |-> first + (j - 1)]
  <1>1. first \in Nat /\ \A k \in DOMAIN errors : k < first
    BY FreeAbove
  <1>2. P \subseteq 1..Len(q) /\ Len(q) \in Nat /\ \A j \in P : j - 1 \in Nat /\ j \in Nat
    BY DEF Places
  <1>3. /\ DOMAIN b = {i - 1 : i \in P}
        /\ \A k \in DOMAIN b : b[k] = q[k + 1]
    BY DEF ByPlace, Places
  <1>4. more = [k \in {first + i : i \in DOMAIN b} |-> b[k - first]]
    BY DEF Renumbered, RenumberedFrom, FirstFree
  <1> HIDE DEF first, b
  <1>5. DOMAIN more = {first + i : i \in DOMAIN b}
    BY <1>4
  <1>6. \A j \in P : /\ place[j] = first + (j - 1) /\ place[j] \in DOMAIN more
                     /\ more[place[j]] = q[j]
    <2> SUFFICES ASSUME NEW j \in P
                 PROVE  first + (j - 1) \in DOMAIN more /\ more[first + (j - 1)] = q[j]
      OBVIOUS
    <2>1. j - 1 \in DOMAIN b /\ b[j - 1] = q[j]
      BY <1>2, <1>3
    <2>2. first + (j - 1) \in DOMAIN more /\ (first + (j - 1)) - first = j - 1
      BY <1>1, <1>2, <1>5, <2>1
    <2> QED
      BY <1>4, <1>5, <2>1, <2>2
  <1>7. \A k \in DOMAIN more : \E j \in P : place[j] = k
    BY <1>3, <1>5
  <1>8. place \in Bijection(P, DOMAIN more)
    <2>1. place \in [P -> DOMAIN more]
      BY <1>6
    <2>2. \A i, j \in P : place[i] = place[j] => i = j
      BY <1>1, <1>2
    <2>3. DOMAIN place = P
      OBVIOUS
    <2> HIDE DEF place, P
    <2> QED
      BY <1>7, <2>1, <2>2, <2>3 DEF Bijection, Injection, Surjection, IsInjective
  <1>9. IsFiniteSet(P)
    BY ValuesKeep
  <1>10. IsFiniteSet(DOMAIN more) /\ Cardinality(DOMAIN more) = Cardinality(P)
    <2> HIDE DEF place, P
    <2> QED
      BY <1>8, <1>9, FS_Bijection DEF ExistsBijection
  <1>11. DOMAIN more \cap DOMAIN errors = {}
    BY <1>1, <1>2, <1>3, <1>5
  <1>12. DOMAIN more \subseteq 0..(first + Len(q))
    BY <1>1, <1>2, <1>3, <1>5
  <1>13. Range(more) = ToSet(q) \cap S
    <2>1. \A k \in DOMAIN more : more[k] \in ToSet(q) \cap S
      <3>1. \A j \in P : q[j] \in ToSet(q) \cap S
        BY DEF ToSet, Places
      <3> HIDE DEF place, P
      <3> QED
        BY <1>6, <1>7, <3>1
    <2>2. \A x \in ToSet(q) \cap S : \E j \in P : x = q[j]
      BY DEF ToSet, Places
    <2>3. \A x \in ToSet(q) \cap S : \E k \in DOMAIN more : x = more[k]
      <3> HIDE DEF place, P
      <3> QED
        BY <1>6, <2>2
    <2> QED
      BY <2>1, <2>3 DEF Range
  <1> QED
    BY <1>1, <1>2, <1>10, <1>11, <1>12, <1>13

ReferencesInv ==
    /\ Numbered(refs.errors)
    /\ Len(failed_references) = Cardinality(DOMAIN refs.errors)
    /\ Range(refs.errors) = ToSet(failed_references)
    /\ refs.has_errors <=> failed_references # <<>>

LEMMA ReferencesInit == Init => ReferencesInv
  <1> SUFFICES ASSUME Init PROVE ReferencesInv
    OBVIOUS
  <1>1. refs.errors = <<>> /\ DOMAIN refs.errors = {} /\ refs.has_errors = FALSE
        /\ failed_references = <<>>
    BY DEF Init, NoRefs
  <1>2. Numbered(refs.errors)
    BY <1>1 DEF Numbered
  <1> QED
    BY <1>1, <1>2, FS_EmptySet DEF ReferencesInv, Range, ToSet

LEMMA ReferencesNext == TypeInv /\ ReferencesInv /\ [Next]_vars => ReferencesInv'
  <1> SUFFICES ASSUME TypeInv, ReferencesInv, [Next]_vars PROVE ReferencesInv'
    OBVIOUS
  <1>1. CASE UNCHANGED <<refs, failed_references>>
    BY <1>1 DEF ReferencesInv, Numbered
  <1>2. CASE ReferencesAnswered
    <2>1. PICK q \in sent_refs, refused \in SUBSET RefIndex :
             /\ refused \subseteq ToSet(q)
             /\ refs' = AddRefs(refs, [errors     |-> ByPlace(q, refused),
                                       has_errors |-> refused # {}])
             /\ failed_references' = failed_references \o Values(q, refused)
      BY <1>2 DEF ReferencesAnswered
    <2> DEFINE more == Renumbered(refs.errors, ByPlace(q, refused))
               lost == Values(q, refused)
    <2>2. q \in Seq(RefIndex) /\ failed_references \in Seq(RefIndex)
      BY DEF TypeInv
    <2>3. /\ lost \in Seq(RefIndex) /\ ToSet(lost) = refused
          /\ IsFiniteSet(Places(q, refused)) /\ Len(lost) = Cardinality(Places(q, refused))
      <3>1. /\ Values(q, refused) \in Seq(RefIndex)
            /\ ToSet(Values(q, refused)) = ToSet(q) \cap refused
            /\ IsFiniteSet(Places(q, refused))
            /\ Len(Values(q, refused)) = Cardinality(Places(q, refused))
        BY <2>2, ValuesKeep
      <3>2. ToSet(q) \cap refused = refused
        BY <2>1
      <3> QED
        BY <3>1, <3>2
    <2>4. /\ DOMAIN more \cap DOMAIN refs.errors = {}
          /\ IsFiniteSet(DOMAIN more) /\ Cardinality(DOMAIN more) = Len(lost)
          /\ \E n \in Nat : DOMAIN more \subseteq 0..n
          /\ Range(more) = refused
      <3>1. Numbered(refs.errors) /\ ToSet(q) \cap refused = refused
        BY <2>1 DEF ReferencesInv
      <3> HIDE DEF more, lost
      <3>2. more = Renumbered(refs.errors, ByPlace(q, refused))
        BY DEF more
      <3>3. /\ DOMAIN more \cap DOMAIN refs.errors = {} /\ IsFiniteSet(DOMAIN more)
            /\ Cardinality(DOMAIN more) = Cardinality(Places(q, refused))
            /\ \E n \in Nat : DOMAIN more \subseteq 0..n
            /\ Range(more) = ToSet(q) \cap refused
        BY <2>2, <3>1, <3>2, RenumberedAway
      <3> QED
        BY <2>3, <3>1, <3>3
    <2>5. /\ refs'.errors = Update(refs.errors, more)
          /\ refs'.has_errors = (refs.has_errors \/ refused # {})
      BY <2>1 DEF AddRefs
    <2> HIDE DEF more, lost
    <2>6. /\ DOMAIN refs'.errors = DOMAIN refs.errors \cup DOMAIN more
          /\ \A k \in DOMAIN more : refs'.errors[k] = more[k]
          /\ \A k \in DOMAIN refs.errors : refs'.errors[k] = refs.errors[k]
          /\ refs'.errors = [k \in DOMAIN refs'.errors |-> refs'.errors[k]]
      BY <2>4, <2>5 DEF Update
    <2>7. /\ failed_references' = failed_references \o lost
          /\ Len(failed_references') = Len(failed_references) + Len(lost)
          /\ ToSet(failed_references') = ToSet(failed_references) \cup refused
      <3>1. failed_references' = failed_references \o lost
        BY <2>1 DEF lost
      <3>2. /\ Len(failed_references \o lost) = Len(failed_references) + Len(lost)
            /\ ToSet(failed_references \o lost) = ToSet(failed_references) \cup ToSet(lost)
        BY <2>2, <2>3, ToSetConcat
      <3> QED
        BY <2>3, <3>1, <3>2
    <2>8. Numbered(refs'.errors)
      <3>1. PICK n, m : n \in Nat /\ m \in Nat /\ DOMAIN refs.errors \subseteq 0..n
                        /\ DOMAIN more \subseteq 0..m
        BY <2>4 DEF ReferencesInv, Numbered
      <3>2. DOMAIN refs'.errors \subseteq 0..(n + m) /\ n + m \in Nat
        BY <2>6, <3>1
      <3> QED
        BY <2>6, <3>2 DEF Numbered
    <2>9. Len(failed_references') = Cardinality(DOMAIN refs'.errors)
      <3>1. IsFiniteSet(DOMAIN refs.errors)
        <4>1. PICK n \in Nat : DOMAIN refs.errors \subseteq 0..n
          BY DEF ReferencesInv, Numbered
        <4>2. IsFiniteSet(0..n)
          BY FS_Interval
        <4> QED
          BY <4>1, <4>2, FS_Subset
      <3>2. Cardinality(DOMAIN refs.errors \cup DOMAIN more)
               = Cardinality(DOMAIN refs.errors) + Cardinality(DOMAIN more) - Cardinality({})
        BY <2>4, <3>1, FS_Union
      <3>3. Cardinality({}) = 0 /\ Cardinality(DOMAIN refs.errors) \in Nat /\ Len(lost) \in Nat
        BY <2>3, <3>1, FS_EmptySet, FS_CardinalityType
      <3> QED
        BY <2>4, <2>6, <2>7, <3>2, <3>3 DEF ReferencesInv
    <2>10. Range(refs'.errors) = ToSet(failed_references')
      <3>1. Range(refs'.errors) = Range(refs.errors) \cup Range(more)
        BY <2>6 DEF Range
      <3> QED
        BY <2>4, <2>7, <3>1 DEF ReferencesInv
    <2>11. refs'.has_errors <=> failed_references' # <<>>
      <3>1. refused # {} <=> lost # <<>>
        BY <2>3 DEF ToSet
      <3>2. failed_references' # <<>> <=> failed_references # <<>> \/ lost # <<>>
        BY <2>2, <2>3, <2>7
      <3> QED
        BY <2>5, <3>1, <3>2 DEF ReferencesInv
    <2> QED
      BY <2>8, <2>9, <2>10, <2>11 DEF ReferencesInv
  <1>3. CASE \E q, refused, response : ObjectsStep(q, refused, response)
    BY <1>1, <1>3 DEF ObjectsStep, referenceFrame
  <1> QED
    BY <1>1, <1>2, <1>3, ObjectsSteps
       DEF Next, vars, SendObjects, SendReferences, objectFrame, referenceFrame
-----------------------------------------------------------------------------
(* The errors of objects, and where every object is. *)

ErrorsInv ==
    /\ ~rejected => /\ \A k \in DOMAIN objs.errors : objs.errors[k] = k
                    /\ DOMAIN objs.errors = ToSet(failed_objects)
    /\ \A k \in DOMAIN objs.errors : objs.errors[k] \in ToSet(failed_objects)
    /\ objs.has_errors <=> ToSet(failed_objects) # {}

Waits(i) == i \in ToSet(batch_objects) \/ \E q \in sent : i \in ToSet(q)

ApartInv ==
    /\ IsInjective(batch_objects) /\ IsInjective(failed_objects)
    /\ \A q \in sent : IsInjective(q) /\ ToSet(q) \cap ToSet(batch_objects) = {}
    /\ \A p, q \in sent : p # q => ToSet(p) \cap ToSet(q) = {}
    /\ \A i \in Index : Waits(i) => i \notin ToSet(failed_objects) /\ i \notin imported
    /\ \A i \in Index : Waits(i) \/ i \in ToSet(failed_objects) \/ i \in imported
    /\ ToSet(failed_objects) \cap imported = {}

LEMMA ObjectsInit == Init => ErrorsInv /\ ApartInv
  <1> SUFFICES ASSUME Init PROVE ErrorsInv /\ ApartInv
    OBVIOUS
  <1>1. /\ objs.errors = <<>> /\ DOMAIN objs.errors = {} /\ objs.has_errors = FALSE
        /\ failed_objects = <<>> /\ ToSet(failed_objects) = {} /\ IsInjective(failed_objects)
        /\ sent = {} /\ imported = {}
    BY DEF Init, NoObjs, ToSet, IsInjective
  <1>2. ToSet(batch_objects) = Index /\ IsInjective(batch_objects)
    <2>1. batch_objects = [i \in 1..Objects |-> i - 1]
      BY DEF Init
    <2>2. \A i \in Index : i + 1 \in 1..Objects /\ (i + 1) - 1 = i
      BY DEF Index
    <2>3. \A i \in 1..Objects : i - 1 \in Index
      BY DEF Index
    <2>4. IsInjective(batch_objects)
      BY <2>1 DEF IsInjective
    <2>5. Index \subseteq ToSet(batch_objects)
      BY <2>1, <2>2 DEF ToSet
    <2>6. ToSet(batch_objects) \subseteq Index
      BY <2>1, <2>3 DEF ToSet
    <2> QED
      BY <2>4, <2>5, <2>6
  <1> QED
    BY <1>1, <1>2 DEF ErrorsInv, ApartInv, Waits

\* What an answer says of the objects that are not tried again.
LEMMA KeptErrors ==
    ASSUME TypeInv, NEW q, NEW refused, NEW response, ObjectsStep(q, refused, response),
           NEW again \in SUBSET refused
    PROVE  LET kept == Kept(response.errors, again)
           IN  /\ \A k \in kept : response.errors[k] \in refused \ again
               /\ kept # {} <=> refused \ again # {}
               /\ response.has_errors <=> refused # {}
               /\ ~rejected' => kept = refused \ again /\ \A k \in kept : response.errors[k] = k
  <1>1. q \in Seq(Index) /\ q # <<>> /\ refused \subseteq ToSet(q)
    BY DEF ObjectsStep, TypeInv
  <1>2. CASE response = Answer(q, refused) /\ rejected' = rejected
    <2>1. response.errors = [i \in refused |-> i] /\ response.has_errors = (refused # {})
      BY <1>2 DEF Answer
    <2>2. DOMAIN response.errors = refused /\ \A k \in refused : response.errors[k] = k
      BY <2>1
    <2>3. Kept(response.errors, again) = refused \ again
      BY <2>2 DEF Kept
    <2>4. response.has_errors <=> refused # {}
      BY <2>1
    <2> QED
      BY <2>2, <2>3, <2>4
  <1>3. CASE refused = ToSet(q) /\ response = AllErrors(q) /\ rejected' = TRUE
    <2>1. response.errors = ByPlace(q, ToSet(q)) /\ response.has_errors = TRUE
      BY <1>3 DEF AllErrors
    <2>2. \A j \in DOMAIN q : q[j] \in ToSet(q) /\ j - 1 \in Int /\ (j - 1) + 1 = j
      BY <1>1 DEF ToSet
    <2>3. /\ \A k \in DOMAIN response.errors :
                k + 1 \in DOMAIN q /\ response.errors[k] = q[k + 1]
          /\ \A j \in DOMAIN q : j - 1 \in DOMAIN response.errors
      BY <2>1, <2>2 DEF ByPlace
    <2>4. \A k \in Kept(response.errors, again) : response.errors[k] \in refused \ again
      BY <1>3, <2>2, <2>3 DEF Kept
    <2>5. ASSUME NEW x \in refused \ again PROVE Kept(response.errors, again) # {}
      <3>1. PICK j \in DOMAIN q : x = q[j]
        BY <1>3, <2>5 DEF ToSet
      <3>2. j - 1 \in DOMAIN response.errors /\ response.errors[j - 1] = q[j]
        BY <2>2, <2>3
      <3> QED
        BY <2>5, <3>1, <3>2 DEF Kept
    <2>6. refused # {}
      BY <1>1, <1>3 DEF ToSet
    <2> QED
      BY <1>3, <2>1, <2>4, <2>5, <2>6
  <1> QED
    BY <1>2, <1>3 DEF ObjectsStep

LEMMA ErrorsNext == TypeInv /\ ErrorsInv /\ [Next]_vars => ErrorsInv'
  <1> SUFFICES ASSUME TypeInv, ErrorsInv, [Next]_vars PROVE ErrorsInv'
    OBVIOUS
  <1>1. CASE UNCHANGED <<objs, failed_objects, rejected>>
    BY <1>1 DEF ErrorsInv
  <1>2. ASSUME NEW q, NEW refused, NEW response, ObjectsStep(q, refused, response)
        PROVE  ErrorsInv'
    <2>1. PICK again \in SUBSET refused : Recorded(q, response, refused, again)
      BY <1>2, RecordDoes DEF ObjectsStep
    <2> DEFINE kept == Kept(response.errors, again)
    <2>2. /\ \A k \in kept : response.errors[k] \in refused \ again
          /\ kept # {} <=> refused \ again # {}
          /\ response.has_errors <=> refused # {}
          /\ ~rejected' => kept = refused \ again /\ \A k \in kept : response.errors[k] = k
      BY <1>2, KeptErrors
    <2>3. ToSet(failed_objects') = ToSet(failed_objects) \cup (refused \ again)
      <3>1. q \in Seq(Index) /\ failed_objects \in Seq(Index) /\ refused \subseteq ToSet(q)
        BY <1>2 DEF ObjectsStep, TypeInv
      <3>2. /\ Values(q, refused \ again) \in Seq(Index)
            /\ ToSet(Values(q, refused \ again)) = ToSet(q) \cap (refused \ again)
        BY <3>1, ValuesKeep
      <3>3. failed_objects' = failed_objects \o Values(q, refused \ again)
        BY <2>1 DEF Recorded
      <3>4. ToSet(failed_objects') = ToSet(failed_objects) \cup ToSet(Values(q, refused \ again))
        BY <3>1, <3>2, <3>3, ToSetConcat
      <3> QED
        BY <3>1, <3>2, <3>4
    <2>4. /\ DOMAIN objs'.errors = DOMAIN objs.errors \cup kept
          /\ \A k \in kept : objs'.errors[k] = response.errors[k]
          /\ \A k \in DOMAIN objs.errors \ kept : objs'.errors[k] = objs.errors[k]
          /\ objs'.has_errors <=>
                objs.has_errors \/ (IF again = {} THEN response.has_errors ELSE kept # {})
      BY <2>1 DEF Recorded
    <2> HIDE DEF kept
    <2>5. ~rejected' => ~rejected
      BY <1>2 DEF ObjectsStep
    <2>6. objs'.has_errors <=> ToSet(failed_objects') # {}
      BY <2>2, <2>3, <2>4 DEF ErrorsInv
    <2>7. \A k \in DOMAIN objs'.errors : objs'.errors[k] \in ToSet(failed_objects')
      BY <2>2, <2>3, <2>4 DEF ErrorsInv
    <2>8. ~rejected' => /\ \A k \in DOMAIN objs'.errors : objs'.errors[k] = k
                        /\ DOMAIN objs'.errors = ToSet(failed_objects')
      BY <2>2, <2>3, <2>4, <2>5 DEF ErrorsInv
    <2> QED
      BY <2>6, <2>7, <2>8 DEF ErrorsInv
  <1> QED
    BY <1>1, <1>2, ObjectsSteps
       DEF Next, vars, SendObjects, SendReferences, ReferencesAnswered, objectFrame

\* NoErrorOverwritten: the errors of references are all kept, those of objects as long
\* as no request fails as a whole.
THEOREM OverwritesNoError == Spec => []NoErrorOverwritten
  <1>1. ErrorsInv /\ ReferencesInv => NoErrorOverwritten
    BY DEF ErrorsInv, ReferencesInv, NoErrorOverwritten
  <1>2. Init => ErrorsInv
    BY ObjectsInit
  <1> QED
    BY <1>1, <1>2, TypeInit, TypeNext, ErrorsNext, ReferencesInit, ReferencesNext, PTL DEF Spec

LEMMA ApartNext == TypeInv /\ ApartInv /\ [Next]_vars => ApartInv'
  <1> SUFFICES ASSUME TypeInv, ApartInv, [Next]_vars PROVE ApartInv'
    OBVIOUS
  <1>1. CASE UNCHANGED <<batch_objects, failed_objects, sent, imported>>
    BY <1>1 DEF ApartInv, Waits
  <1>2. CASE SendObjects
    <2>1. PICK n \in 1..Len(batch_objects) :
             /\ sent' = sent \cup {SubSeq(batch_objects, 1, n)}
             /\ batch_objects' = SubSeq(batch_objects, n + 1, Len(batch_objects))
      BY <1>2 DEF SendObjects
    <2> DEFINE head == SubSeq(batch_objects, 1, n)
    <2>2. batch_objects \in Seq(Index) /\ IsInjective(batch_objects)
      BY DEF TypeInv, ApartInv
    <2>3. /\ ToSet(head) \cup ToSet(batch_objects') = ToSet(batch_objects)
          /\ IsInjective(head) /\ IsInjective(batch_objects')
          /\ ToSet(head) \cap ToSet(batch_objects') = {}
      BY <2>1, <2>2, ToSetSplit
    <2>4. sent' = sent \cup {head} /\ UNCHANGED <<failed_objects, imported>>
      BY <1>2, <2>1 DEF SendObjects
    <2> HIDE DEF head
    <2>5. \A q \in sent' : IsInjective(q) /\ ToSet(q) \cap ToSet(batch_objects') = {}
      BY <2>3, <2>4 DEF ApartInv
    <2>6. \A p, q \in sent' : p # q => ToSet(p) \cap ToSet(q) = {}
      BY <2>3, <2>4 DEF ApartInv
    <2>7. \A i \in Index : Waits(i)' <=> Waits(i)
      BY <2>3, <2>4 DEF Waits
    <2> QED
      BY <2>3, <2>4, <2>5, <2>6, <2>7 DEF ApartInv
  <1>3. ASSUME NEW q, NEW refused, NEW response, ObjectsStep(q, refused, response)
        PROVE  ApartInv'
    <2>1. PICK again \in SUBSET refused : Recorded(q, response, refused, again)
      BY <1>3, RecordDoes DEF ObjectsStep
    <2>2. /\ q \in sent /\ q \in Seq(Index) /\ IsInjective(q) /\ sent' = sent \ {q}
          /\ refused \subseteq ToSet(q) /\ again \subseteq ToSet(q)
          /\ imported' = imported \cup (ToSet(q) \ refused)
          /\ ToSet(q) \subseteq Index
      BY <1>3, <2>1 DEF ObjectsStep, TypeInv, ApartInv, ToSet
    <2>3. /\ \A i \in ToSet(q) : /\ Waits(i) /\ i \notin ToSet(batch_objects)
                                 /\ i \notin ToSet(failed_objects) /\ i \notin imported
          /\ \A p \in sent' : ToSet(p) \cap ToSet(q) = {}
      BY <2>2 DEF ApartInv, Waits
    <2>4. /\ ToSet(batch_objects') = again \cup ToSet(batch_objects)
          /\ IsInjective(batch_objects')
      <3>1. /\ Values(q, again) \in Seq(Index) /\ IsInjective(Values(q, again))
            /\ ToSet(Values(q, again)) = ToSet(q) \cap again
        BY <2>2, ValuesKeep
      <3>2. ToSet(Values(q, again)) = again
        BY <2>2, <3>1
      <3>3. again \cap ToSet(batch_objects) = {}
        BY <2>2, <2>3
      <3>4. /\ batch_objects' = Values(q, again) \o batch_objects
            /\ batch_objects \in Seq(Index) /\ IsInjective(batch_objects)
        BY <2>1 DEF Recorded, TypeInv, ApartInv
      <3> QED
        BY <3>1, <3>2, <3>3, <3>4, ToSetConcat
    <2>5. /\ ToSet(failed_objects') = ToSet(failed_objects) \cup (refused \ again)
          /\ IsInjective(failed_objects')
      <3>1. /\ Values(q, refused \ again) \in Seq(Index)
            /\ IsInjective(Values(q, refused \ again))
            /\ ToSet(Values(q, refused \ again)) = ToSet(q) \cap (refused \ again)
        BY <2>2, ValuesKeep
      <3>2. ToSet(Values(q, refused \ again)) = refused \ again
        BY <2>2, <3>1
      <3>3. ToSet(failed_objects) \cap (refused \ again) = {}
        BY <2>2, <2>3
      <3>4. /\ failed_objects' = failed_objects \o Values(q, refused \ again)
            /\ failed_objects \in Seq(Index) /\ IsInjective(failed_objects)
        BY <2>1 DEF Recorded, TypeInv, ApartInv
      <3>5. ToSet(failed_objects') = ToSet(failed_objects) \cup ToSet(Values(q, refused \ again))
        BY <3>1, <3>4, ToSetConcat
      <3>6. ToSet(failed_objects) \cap ToSet(Values(q, refused \ again)) = {}
        BY <3>2, <3>3
      <3>7. IsInjective(failed_objects')
        BY <3>1, <3>4, <3>6, ToSetConcat
      <3> QED
        BY <3>2, <3>5, <3>7
    <2>6. \A p \in sent' : IsInjective(p) /\ ToSet(p) \cap ToSet(batch_objects') = {}
      BY <2>2, <2>3, <2>4 DEF ApartInv
    <2>7. \A i \in Index : Waits(i)' <=> i \in again \/ (Waits(i) /\ i \notin ToSet(q))
      BY <2>2, <2>3, <2>4 DEF Waits
    <2>8. \A i \in Index : Waits(i)' => i \notin ToSet(failed_objects') /\ i \notin imported'
      BY <2>1, <2>2, <2>3, <2>5, <2>7 DEF ApartInv
    <2>9. \A i \in Index : Waits(i)' \/ i \in ToSet(failed_objects') \/ i \in imported'
      BY <2>1, <2>2, <2>3, <2>5, <2>7 DEF ApartInv
    <2>10. ToSet(failed_objects') \cap imported' = {}
      BY <2>2, <2>3, <2>5 DEF ApartInv
    <2>11. \A p, r \in sent' : p # r => ToSet(p) \cap ToSet(r) = {}
      BY <2>2 DEF ApartInv
    <2> QED
      BY <2>4, <2>5, <2>6, <2>8, <2>9, <2>10, <2>11 DEF ApartInv
  <1> QED
    BY <1>1, <1>2, <1>3, ObjectsSteps
       DEF Next, vars, SendReferences, ReferencesAnswered, objectFrame

\* OutcomesApart: every object is waiting, failed or imported, and never two of them.
THEOREM KeepsOutcomesApart == Spec => []OutcomesApart
  <1>1. TypeInv /\ ErrorsInv /\ ReferencesInv /\ ApartInv => OutcomesApart
    <2> SUFFICES ASSUME TypeInv, ErrorsInv, ReferencesInv, ApartInv PROVE OutcomesApart
      OBVIOUS
    <2> DEFINE pending == ToSet(batch_objects) \cup UNION {ToSet(q) : q \in sent}
               failed  == ToSet(failed_objects)
    <2>1. \A i : i \in pending <=> Waits(i)
      BY DEF Waits
    <2>2. pending \subseteq Index /\ failed \subseteq Index /\ imported \subseteq Index
      BY DEF TypeInv, ToSet
    <2>3. Range(objs.errors) \subseteq failed
      BY DEF ErrorsInv, Range
    <2> HIDE DEF pending
    <2>4. /\ pending \cap (failed \cup imported) = {} /\ failed \cap imported = {}
          /\ pending \cup failed \cup imported = Index
      BY <2>1, <2>2 DEF ApartInv
    <2> QED
      BY <2>3, <2>4 DEF OutcomesApart, ErrorsInv, ReferencesInv, ApartInv, pending
  <1>2. Init => ErrorsInv /\ ApartInv
    BY ObjectsInit
  <1> QED
    BY <1>1, <1>2, TypeInit, TypeNext, ErrorsNext, ReferencesInit, ReferencesNext, ApartNext, PTL
       DEF Spec
=============================================================================
