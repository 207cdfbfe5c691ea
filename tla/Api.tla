-------------------------------- MODULE Api ---------------------------------
(***************************************************************************)
(* The HTTP API of the control plane (pkg/api) composed with what it       *)
(* serves: authentication, workspaces, annotations and the catalog of      *)
(* tests and POPs. Requests run concurrently. Each passes Authenticate     *)
(* (one read of the session), then Authorize and its handler, which        *)
(* executes one SQL statement with the tenant it got from the session.     *)
(***************************************************************************)
EXTENDS Auth, Workspaces, Annotations

CONSTANTS
    TestIds,    \* ids newPrefixedID can return
    PopIds,     \* ids operators choose for their POPs
    Drafts, Notes, Seconds,     \* workspaces, annotations and ttl_seconds clients send
    MaxRows, MaxTables  \* bounds: rows of all tables together, tables that hold some

ASSUME ApiAssumption ==
    /\ Drafts \subseteq Draft /\ Notes \subseteq Note
    /\ Seconds \subseteq Int
    /\ Horizon > MaxTime
    /\ MaxRows \in Nat /\ MaxTables \in Nat
    /\ "none" \notin Tenants       \* the tenant of no row
    /\ WsIds \cap AnnIds = {} /\ WsIds \cap TestIds = {} /\ WsIds \cap PopIds = {}
    /\ AnnIds \cap TestIds = {} /\ AnnIds \cap PopIds = {} /\ TestIds \cap PopIds = {}
    /\ Slugs \cap (WsIds \cup AnnIds \cup TestIds \cup PopIds) = {}

VARIABLES
    tests, pops     \* id -> the tenant of the row, or NoTenant

catalogVars == <<tests, pops>>
dataVars    == <<wsVars, annotations, catalogVars>>
vars        == <<authVars, dataVars>>

NoTenant == "none"
Ids      == WsIds \cup AnnIds \cup TestIds \cup PopIds

Row(id) ==
    CASE id \in WsIds   -> workspaces[id]
      [] id \in AnnIds  -> annotations[id]
      [] id \in TestIds -> [tenant |-> tests[id]]
      [] id \in PopIds  -> [tenant |-> pops[id]]

T(r) == TenantOf[req[r].user]
Rows == {id \in Ids : Row(id).tenant # NoTenant}
Tables    == {WsIds, AnnIds, TestIds, PopIds}
Room(ids) == /\ Cardinality(Rows) < MaxRows
             /\ Cardinality({t \in Tables : t = ids \/ t \cap Rows # {}}) <= MaxTables

\* A handler leaves the users and the sessions alone.
Handler == UNCHANGED <<now, dbVars>>

\* A handler that rejects its input, finds no row or gets an error changes nothing.
Rejects(r, verb) ==
    /\ Permitted(r, verb)
    /\ Answer(r, "error", {})
    /\ Handler /\ UNCHANGED dataVars

\* Authorize turns the request down.
Denied(r, verb) == Refused(r, verb) /\ Handler /\ UNCHANGED dataVars

-----------------------------------------------------------------------------
(***************************************************************************)
(* Reads. A list shows the tenant's rows, a get one of them. No list asks  *)
(* rows.Err(): one that fails on the way shows what it has read so far.    *)
(***************************************************************************)
OfTenant(t, ids) == {id \in ids : Row(id).tenant = t}

\* WHERE tenant_id = $1 AND id = $2.
loadRow(r, ids) == {{id} : id \in OfTenant(T(r), ids)}

getHandler(r, ids) ==
    /\ Permitted(r, "read")
    /\ \E row \in loadRow(r, ids) : Answer(r, "ok", row)
    /\ Handler /\ UNCHANGED dataVars

listHandler(r, ids) ==
    /\ Permitted(r, "read")
    /\ \E rows \in SUBSET OfTenant(T(r), ids) :
         /\ rows = OfTenant(T(r), ids) \/ "db" \in AuthFaults
         /\ Answer(r, "ok", rows)
    /\ Handler /\ UNCHANGED dataVars

listWorkspacesHandler(r) == listHandler(r, WsIds)
getWorkspaceHandler(r)   == getHandler(r, WsIds)
listTestsHandler(r)      == listHandler(r, TestIds)
getTestHandler(r)        == getHandler(r, TestIds)
listPopsHandler(r)       == listHandler(r, PopIds)
getPopHandler(r)         == getHandler(r, PopIds)
getAnnotationHandler(r)  == getHandler(r, AnnIds)

\* from and limit are the client's; one that does not parse is turned down.
listAnnotationsHandler(r, from, limit) ==
    /\ Permitted(r, "read")
    /\ \E page \in Listings(T(r), from, limit) : \E read \in CutShort(page) :
         /\ read = page \/ "db" \in AuthFaults
         /\ Answer(r, "ok", read)
    /\ Handler /\ UNCHANGED dataVars

\* The public link: no user needed. The answer leaves out tenant and owner.
resolveShareHandler(r, slug) ==
    /\ req[r].pc = "open"
    /\ IF Resolved(slug, now) = {} THEN Answer(r, "error", {}) ELSE Answer(r, "ok", {slug})
    /\ Handler /\ UNCHANGED dataVars

-----------------------------------------------------------------------------
(***************************************************************************)
(* Writes.                                                                 *)
(***************************************************************************)
createWorkspaceHandler(r, id, d) ==
    /\ Permitted(r, "write")
    /\ ValidWorkspace(d)
    /\ Room(WsIds)
    /\ InsertWorkspace(T(r), req[r].user, id, d.name)
    /\ Applied(r) /\ Handler /\ UNCHANGED <<annotations, tests, pops>>

\* A plausible mistake: the patch is not validated.
updateWorkspaceHandler_Unchecked(r, id, d) ==
    /\ Permitted(r, "write")
    /\ UpdateWorkspace(T(r), id, d.name)
    /\ Applied(r) /\ Handler /\ UNCHANGED <<annotations, tests, pops>>

updateWorkspaceHandler(r, id, d) ==
    /\ Permitted(r, "write")
    /\ ValidPatch(d)
    /\ UpdateWorkspace(T(r), id, d.name)
    /\ Applied(r) /\ Handler /\ UNCHANGED <<annotations, tests, pops>>

deleteWorkspaceHandler(r, id) ==
    /\ Permitted(r, "write")
    /\ DeleteWorkspace(T(r), id)
    /\ Applied(r) /\ Handler /\ UNCHANGED <<annotations, tests, pops>>

shareWorkspaceHandler(r, id, slug, seconds) ==
    /\ Permitted(r, "write")
    /\ ValidShare(seconds)
    /\ Share(T(r), id, slug, seconds, now)
    /\ Applied(r) /\ Handler /\ UNCHANGED <<annotations, tests, pops>>

unshareWorkspaceHandler(r, id) ==
    /\ Permitted(r, "write")
    /\ Unshare(T(r), id)
    /\ Applied(r) /\ Handler /\ UNCHANGED <<annotations, tests, pops>>

createAnnotationHandler(r, id, n) ==
    /\ Permitted(r, "write")
    /\ ValidAnnotation(n)
    /\ Room(AnnIds)
    /\ InsertAnnotation(T(r), req[r].user, id, n.at)
    /\ Applied(r) /\ Handler /\ UNCHANGED <<wsVars, catalogVars>>

deleteAnnotationHandler(r, id) ==
    /\ Permitted(r, "write")
    /\ DeleteAnnotation(T(r), id)
    /\ Applied(r) /\ Handler /\ UNCHANGED <<wsVars, catalogVars>>

validKind(kind) == kind \in {"dns", "http", "tls"}

createTestHandler(r, id, kind) ==
    /\ Permitted(r, "write")
    /\ validKind(kind)
    /\ Room(TestIds)
    /\ tests[id] = NoTenant
    /\ tests' = [tests EXCEPT ![id] = T(r)]
    /\ Applied(r) /\ Handler /\ UNCHANGED <<wsVars, annotations, pops>>

deleteTestHandler(r, id) ==
    /\ Permitted(r, "write")
    /\ tests[id] = T(r)
    /\ tests' = [tests EXCEPT ![id] = NoTenant]
    /\ Applied(r) /\ Handler /\ UNCHANGED <<wsVars, annotations, pops>>

\* The id is the primary key of all tenants' POPs: one that is taken is an error.
createPopHandler(r, id) ==
    /\ Permitted(r, "write")
    /\ IF pops[id] = NoTenant
         THEN Room(PopIds) /\ pops' = [pops EXCEPT ![id] = T(r)] /\ Applied(r)
         ELSE Answer(r, "error", {}) /\ UNCHANGED pops
    /\ Handler /\ UNCHANGED <<wsVars, annotations, tests>>

deletePopHandler(r, id) ==
    /\ Permitted(r, "write")
    /\ pops[id] = T(r)
    /\ pops' = [pops EXCEPT ![id] = NoTenant]
    /\ Applied(r) /\ Handler /\ UNCHANGED <<wsVars, annotations, tests>>

\* POST /v1/netql/execute asks for the verb "execute".
netqlExecuteHandler(r) ==
    /\ req[r].pc = "open" /\ req[r].user # NoUser
    /\ Answer(r, IF Authorize(RoleOf[req[r].user], "execute") THEN "ok" ELSE "forbidden", {})
    /\ Handler /\ UNCHANGED dataVars

-----------------------------------------------------------------------------
Init ==
    /\ AuthInit /\ WorkspacesInit /\ AnnotationsInit
    /\ tests = [id \in TestIds |-> NoTenant]
    /\ pops = [id \in PopIds |-> NoTenant]

Reads(r) ==
    \/ listWorkspacesHandler(r) \/ getWorkspaceHandler(r)
    \/ listTestsHandler(r) \/ getTestHandler(r)
    \/ listPopsHandler(r) \/ getPopHandler(r)
    \/ getAnnotationHandler(r)
    \/ \E from \in Instants, limit \in 0 .. MaxListLimit + 1 : listAnnotationsHandler(r, from, limit)
    \/ \E g \in Slugs : resolveShareHandler(r, g)
    \/ netqlExecuteHandler(r)

Writes(r) ==
    \/ \E id \in WsIds :
         \/ \E d \in Drafts : createWorkspaceHandler(r, id, d) \/ updateWorkspaceHandler(r, id, d)
         \/ deleteWorkspaceHandler(r, id)
         \/ \E g \in Slugs, s \in Seconds : shareWorkspaceHandler(r, id, g, s)
         \/ unshareWorkspaceHandler(r, id)
    \/ \E id \in AnnIds :
         \/ \E n \in Notes : createAnnotationHandler(r, id, n)
         \/ deleteAnnotationHandler(r, id)
    \/ \E id \in TestIds :
         \/ \E k \in {"http", "icmp"} : createTestHandler(r, id, k)
         \/ deleteTestHandler(r, id)
    \/ \E id \in PopIds : createPopHandler(r, id) \/ deletePopHandler(r, id)

Next ==
    \/ AuthNext /\ UNCHANGED dataVars
    \/ \E r \in Requests :
         \/ Reads(r)
         \/ Writes(r)
         \/ \E verb \in {"read", "write"} : Rejects(r, verb) \/ Denied(r, verb)

Spec == Init /\ [][Next]_vars

-----------------------------------------------------------------------------
TypeOK ==
    /\ AuthTypeOK
    /\ \A id \in WsIds : workspaces[id] = NoWorkspace
         \/ /\ workspaces[id].tenant \in Tenants
            /\ workspaces[id].owner \in Users
            /\ workspaces[id].name \in 1 .. MaxNameLen
            /\ workspaces[id].slug \in issuedSlugs \cup {NoSlug}
    /\ \A id \in AnnIds : annotations[id] = NoAnnotation
         \/ /\ annotations[id].tenant \in Tenants /\ annotations[id].author \in Users
            /\ annotations[id].at \in Instants
    /\ tests \in [TestIds -> Tenants \cup {NoTenant}]
    /\ pops \in [PopIds -> Tenants \cup {NoTenant}]
    /\ answer.shows \subseteq Ids \cup Slugs

\* The request that is answered in this step.
Answered(r) == req[r].pc # "idle" /\ req'[r].pc = "idle"

\* Every statement is scoped by the tenant of the session: a row is created, changed or
\* deleted only in the name of a user of the row's own tenant whose role may write, and
\* an answer shows a user only rows of their tenant, whatever else goes on between the
\* session's lookup and the statement (middleware/rbac.go:63-117 and the handlers).
TenantsStayApart ==
    [][ /\ \A id \in Ids : Row(id)' # Row(id) =>
             \E r \in Requests :
               /\ Answered(r)
               /\ {Row(id).tenant, Row(id).tenant'} \subseteq {TenantOf[req[r].user], NoTenant}
               /\ RoleOf[req[r].user] \in {"operator", "admin"}
        /\ \A r \in Requests : Answered(r) =>
             \A id \in answer'.shows \ Slugs : Row(id).tenant = TenantOf[req[r].user] ]_vars

\* A public link opens its workspace only while it is meant to: after a later Share, an
\* Unshare or a Delete of the workspace it stays closed for ever, and it never lives
\* longer than its creator asked for, although ttl_seconds may overflow on its way to a
\* time.Duration (workspaces/service.go:170-205, api/workspaces.go:223). Only a negative
\* ttl_seconds that overflows to a positive duration has no end to compare with.
LinkOpensOnlyWhileGranted ==
    [][\A r \in Requests : Answered(r) =>
         \A g \in answer'.shows \cap Slugs :
           grants[g] # NoGrant /\ ~grants[g].over /\ now < grants[g].until]_vars

\* rbac.go documents the order of roles ("admin -> can read, write, admin"), the route
\* table and openapi.yaml give execute the action netql:execute: the highest role may
\* do what a route asks for.
AdminIsNeverForbidden ==
    [][\A r \in Requests : Answered(r) /\ answer'.status = "forbidden" =>
         RoleOf[req[r].user] # "admin"]_vars
=============================================================================
