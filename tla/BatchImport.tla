---------------------------- MODULE BatchImport ----------------------------
(***************************************************************************)
(* What a batch promises its user, whatever algorithm carries it out: an   *)
(* object the user submits is settled at most once, either as imported or  *)
(* as failed, and a cross-reference leaves the client only after the       *)
(* objects at its two ends have been settled (or even imported).           *)
(***************************************************************************)

CONSTANTS Obj,        \* the objects of one import
          Ref,        \* the cross-references of one import
          Endpoints,  \* Endpoints[r]: the objects of the import r connects
          Enough      \* the outcomes of its objects a reference waits for

VARIABLES status,     \* status[o] \in {"new", "pending", "imported", "failed"}
          released    \* the references that have left the client

vars == <<status, released>>

Init == /\ status = [o \in Obj |-> "new"]
        /\ released = {}

Submit(o) == /\ status[o] = "new"
             /\ status' = [status EXCEPT ![o] = "pending"]
             /\ UNCHANGED released

\* One answer may settle several objects.
Settle(ok, bad) == /\ \A o \in ok \cup bad : status[o] = "pending"
                   /\ ok \cap bad = {}
                   /\ status' = [o \in Obj |-> IF o \in ok THEN "imported"
                                              ELSE IF o \in bad THEN "failed" ELSE status[o]]
                   /\ UNCHANGED released

\* One request may carry several references.
Release(rs) == /\ \A r \in rs, o \in Obj : o \in Endpoints[r] => status[o] \in Enough
               /\ released' = released \cup rs
               /\ UNCHANGED status

Next == \/ \E o \in Obj : Submit(o)
        \/ \E ok, bad \in SUBSET Obj : Settle(ok, bad)
        \/ \E rs \in SUBSET Ref : Release(rs)

Spec == Init /\ [][Next]_vars
=============================================================================
