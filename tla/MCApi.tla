------------------------------- MODULE MCApi --------------------------------
(***************************************************************************)
(* An instance of Api: two tenants, one with a viewer and an operator, the *)
(* other with an admin who is created on the way. An int64 has 4 bits and  *)
(* a second is 4, so that 2 seconds overflow to a negative duration, 4 to  *)
(* zero and -3 to a positive one, and 8 do not fit at all.                 *)
(***************************************************************************)
EXTENDS Api, TLC

Tenant == [u \in {"vera", "otto", "ada"} |-> IF u = "ada" THEN "t2" ELSE "t1"]
Role   == [u \in {"vera", "otto", "ada"} |->
             CASE u = "vera" -> "viewer" [] u = "otto" -> "operator" [] u = "ada" -> "admin"]

\* Names, texts and lists around their limits (1 each), and a patch of nothing but views.
D(n, t, v) == [name |-> n, description |-> t, views |-> v]
DraftsAtLimits == {D(1, 1, 1), D(0, 0, 0), D(2, 0, 0), D(1, 2, 0), D(1, 0, 2), D(Keep, Keep, 1)}

N(s, l, b, i) == [scope |-> s, scopeID |-> l, body |-> b, at |-> i]
NotesAtLimits == {N("pop", 1, 1, 1), N("test", 1, 0, 2), N("slo", 1, 0, 1), N("pop", 0, 0, 1),
                  N("pop", 2, 0, 1), N("pop", 1, 2, 1), N("pop", 1, 0, NoInstant)}

SecondsSent == {0, 2, 4, -3, 8}

Symmetry == Permutations(Requests) \cup Permutations(Sids) \cup Permutations(Slugs)
              \cup Permutations(AnnIds)

\* answer is read by no step: states that differ only in it are one state.
View == <<now, dbVars, req, dataVars>>
=============================================================================
