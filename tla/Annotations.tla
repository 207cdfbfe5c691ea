---------------------------- MODULE Annotations -----------------------------
(***************************************************************************)
(* Annotations (pkg/annotations): notes pinned to a time of a canary, POP  *)
(* or test. They are created, listed and deleted and never changed.        *)
(***************************************************************************)
EXTENDS Integers, FiniteSets

CONSTANTS
    AnnIds,             \* ids defaultIDGen can return
    Instants,           \* the times notes are pinned to; NoInstant is the zero time
    MaxScopeIDLen, MaxBodyLen,
    DefaultListLimit, MaxListLimit

NoInstant == 0

ASSUME AnnotationsAssumption ==
    /\ IsFiniteSet(AnnIds)     \* ann- and eight hex digits
    /\ Instants \subseteq Nat \ {NoInstant}
    /\ {MaxScopeIDLen, MaxBodyLen, DefaultListLimit, MaxListLimit} \subseteq Nat \ {0}
    /\ DefaultListLimit <= MaxListLimit

VARIABLE annotations    \* id -> its row, or NoAnnotation

Scopes == {"canary", "pop", "test"}
Note   == [scope : Scopes \cup {"slo"}, scopeID : Nat, body : Nat, at : Instants \cup {NoInstant}]
NoAnnotation == [tenant |-> "none", author |-> "none", at |-> NoInstant]

-----------------------------------------------------------------------------
ValidateScope(s)   == s \in Scopes
ValidateScopeID(n) == 0 < n /\ n <= MaxScopeIDLen
ValidateBody(n)    == n <= MaxBodyLen
ValidAnnotation(n) ==
    ValidateScope(n.scope) /\ ValidateScopeID(n.scopeID) /\ ValidateBody(n.body) /\ n.at # NoInstant

InsertAnnotation(t, u, id, at) ==
    /\ annotations[id] = NoAnnotation
    /\ annotations' = [annotations EXCEPT ![id] =
           [tenant |-> t, author |-> u, at |-> at]]

DeleteAnnotation(t, id) ==
    /\ annotations[id].tenant = t /\ annotations[id] # NoAnnotation
    /\ annotations' = [annotations EXCEPT ![id] = NoAnnotation]

\* The limit a caller gets.
Limit(n) == IF n <= 0 THEN DefaultListLimit ELSE IF n > MaxListLimit THEN MaxListLimit ELSE n

\* A plausible mistake: the window leaves out its first instant.
Matching_After(t, from) ==
    {id \in AnnIds : annotations[id].tenant = t /\ annotations[id].at > from}

\* at >= from; the other filters narrow it in the same way.
Matching(t, from) ==
    {id \in AnnIds : annotations[id].tenant = t /\ annotations[id].at >= from}

\* What List asks for: the oldest of the matching rows, equal instants in any order.
Listings(t, from, limit) ==
    {page \in SUBSET Matching(t, from) :
       /\ \/ Cardinality(page) = Limit(limit)
          \/ Cardinality(page) <= Limit(limit) /\ page = Matching(t, from)
       /\ \A a \in page, b \in Matching(t, from) \ page : annotations[a].at <= annotations[b].at}

\* List does not ask rows.Err() once rows.Next() is false: a read that fails on the way
\* answers with the rows it has, be it none, as if they were all.
CutShort(page) ==
    {read \in SUBSET page : \A a \in read, b \in page \ read : annotations[a].at <= annotations[b].at}

AnnotationsInit == annotations = [id \in AnnIds |-> NoAnnotation]

-----------------------------------------------------------------------------
\* List truncates at its limit and has no cursor (types.go:209-223, store.go:78-135). A
\* client that asks again from the instant of the last row it got still misses nothing:
\* what an answer leaves out is at or after its last row, even where the read failed on
\* the way, and where it did not that row is later than the instant asked for, unless as
\* many notes as the limit share that instant. An answer of fewer rows than the limit is
\* not claimed to be the last one: store.go:126-134 does not tell a failed read from the end.
PagingMissesNothing ==
    \A t \in {annotations[id].tenant : id \in AnnIds}, from \in Instants, limit \in 1 .. MaxListLimit :
      \A page \in Listings(t, from, limit) : \A read \in CutShort(page) :
        LET Of(i)   == {id \in AnnIds : annotations[id].tenant = t /\ annotations[id].at = i}
            LeftOut == (UNION {Of(i) : i \in {j \in Instants : j >= from}}) \ read
        IN  /\ \A id \in LeftOut, last \in read : annotations[id].at >= annotations[last].at
            /\ read = page /\ LeftOut # {} =>
                 \E last \in read : annotations[last].at > from \/ Cardinality(Of(from)) >= limit
=============================================================================
