----------------------------- MODULE Workspaces -----------------------------
(***************************************************************************)
(* Workspaces and their public share links (pkg/workspaces): the service's *)
(* validation and the store's single SQL statements, each scoped by the    *)
(* tenant of the caller except the lookup by slug.                         *)
(***************************************************************************)
EXTENDS Integers, FiniteSets

CONSTANTS
    WsIds,              \* ids defaultIDGen can return
    Slugs, NoSlug,      \* slugs defaultSlugGen can return
    MaxNameLen, MaxDescriptionLen, MaxViews,
    DefaultShareTTL,    \* 7 days
    Second,             \* time.Second, in nanoseconds
    Int64Half,          \* 2^63: a time.Duration is below it
    Horizon             \* bound: history tells times apart up to here

Keep == -1              \* a field an update leaves out

ASSUME WorkspacesAssumption ==
    /\ NoSlug \notin Slugs
    /\ {MaxNameLen, MaxDescriptionLen, MaxViews} \subseteq Nat \ {0}
    /\ {DefaultShareTTL, Second, Int64Half} \subseteq Nat \ {0}
    /\ DefaultShareTTL < Int64Half
    /\ Horizon \in Nat

VARIABLES
    workspaces, \* id -> its row, or NoWorkspace
    grants      \* slug -> until when it was to be valid and whether that was taken back

wsVars == <<workspaces, grants>>

\* Texts are their lengths, the list of views is its length. What a client sends:
Draft == [name : Int, description : Int, views : Int]
NoWorkspace == [tenant |-> "none", owner |-> "none", name |-> 0, slug |-> NoSlug, expires |-> 0]
NoGrant     == [until |-> 0, over |-> TRUE]
issuedSlugs == {g \in Slugs : grants[g] # NoGrant}
IsWs(t, id) == workspaces[id] # NoWorkspace /\ workspaces[id].tenant = t

-----------------------------------------------------------------------------
ValidateName(n)        == 0 < n /\ n <= MaxNameLen
ValidateDescription(n) == n <= MaxDescriptionLen
ValidateViews(n)       == n <= MaxViews
ValidWorkspace(d) ==
    ValidateName(d.name) /\ ValidateDescription(d.description) /\ ValidateViews(d.views)

\* The patch's fields that are there are validated, the others keep their value.
ValidPatch(d) ==
    /\ d.name = Keep \/ ValidateName(d.name)
    /\ d.description = Keep \/ ValidateDescription(d.description)
    /\ d.views = Keep \/ ValidateViews(d.views)

InsertWorkspace(t, u, id, name) ==
    /\ workspaces[id] = NoWorkspace
    /\ workspaces' = [workspaces EXCEPT ![id] =
           [tenant |-> t, owner |-> u, name |-> name, slug |-> NoSlug, expires |-> 0]]
    /\ UNCHANGED grants

\* COALESCE: a NULL argument keeps the column. The share is not touched.
UpdateWorkspace(t, id, name) ==
    /\ IsWs(t, id)
    /\ workspaces' = [workspaces EXCEPT ![id].name = IF name = Keep THEN @ ELSE name]
    /\ UNCHANGED grants

\* History: the slug the row carries, if any, is taken back from now on.
Revoked(id) == [g \in Slugs |-> IF g = workspaces[id].slug THEN [grants[g] EXCEPT !.over = TRUE]
                                                          ELSE grants[g]]

\* A plausible mistake: the DELETE forgets the tenant.
DeleteWorkspace_AnyTenant(t, id) ==
    /\ workspaces[id] # NoWorkspace
    /\ workspaces' = [workspaces EXCEPT ![id] = NoWorkspace]
    /\ grants' = Revoked(id)

DeleteWorkspace(t, id) ==
    /\ IsWs(t, id)
    /\ workspaces' = [workspaces EXCEPT ![id] = NoWorkspace]
    /\ grants' = Revoked(id)

\* The handler ignores what the decoder says: a ttl_seconds beyond an int64 is left zero.
TTLSeconds(seconds) == IF seconds \in -Int64Half .. Int64Half - 1 THEN seconds ELSE 0

\* time.Duration(TTLSeconds) * time.Second in 64 bits.
Duration(seconds) == ((TTLSeconds(seconds) * Second + Int64Half) % (2 * Int64Half)) - Int64Half

ShareTTL(seconds) == IF Duration(seconds) = 0 THEN DefaultShareTTL ELSE Duration(seconds)
ValidShare(seconds) == Duration(seconds) >= 0

\* History: for how long a caller asked, in exact numbers. A negative time should have
\* been refused; where it wraps to a positive one instead, nothing is asked of its end.
Asked(seconds) == IF seconds < 0 THEN Horizon
                  ELSE IF seconds = 0 THEN DefaultShareTTL ELSE seconds * Second
Grant(seconds, at) ==
    [until |-> IF at + Asked(seconds) < Horizon THEN at + Asked(seconds) ELSE Horizon, over |-> FALSE]

\* A plausible mistake: an existing link is kept and only gets the new expiry.
Share_KeepsSlug(t, id, slug, seconds, at) ==
    /\ IsWs(t, id) /\ slug \notin issuedSlugs
    /\ workspaces' = [workspaces EXCEPT ![id].slug = IF @ = NoSlug THEN slug ELSE @,
                                        ![id].expires = at + ShareTTL(seconds)]
    /\ grants' = [Revoked(id) EXCEPT ![slug] = Grant(seconds, at)]

\* Share and SetShare: a fresh slug replaces the one before.
Share(t, id, slug, seconds, at) ==
    /\ IsWs(t, id) /\ slug \notin issuedSlugs
    /\ workspaces' = [workspaces EXCEPT ![id].slug = slug,
                                        ![id].expires = at + ShareTTL(seconds)]
    /\ grants' = [Revoked(id) EXCEPT ![slug] = Grant(seconds, at)]

Unshare(t, id) ==
    /\ IsWs(t, id)
    /\ workspaces' = [workspaces EXCEPT ![id].slug = NoSlug, ![id].expires = 0]
    /\ grants' = Revoked(id)

\* GetByShareSlug: the workspaces the slug opens at a time.
Resolved(slug, at) ==
    {id \in WsIds : slug # NoSlug /\ workspaces[id].slug = slug /\ workspaces[id].expires > at}

WorkspacesInit ==
    /\ workspaces = [id \in WsIds |-> NoWorkspace]
    /\ grants = [g \in Slugs |-> NoGrant]
=============================================================================
