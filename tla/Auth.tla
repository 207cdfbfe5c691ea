-------------------------------- MODULE Auth --------------------------------
(***************************************************************************)
(* Authentication and authorisation (pkg/auth and the RBAC middleware of   *)
(* pkg/api): tenants, users, sessions, and the requests that are served    *)
(* concurrently. A request reads its session once and acts on what it read *)
(* later; a login verifies first and writes in a second statement.         *)
(***************************************************************************)
EXTENDS Integers, FiniteSets

CONSTANTS
    Tenants,
    Users, NoUser,      \* (tenant, email) pairs; nobody
    TenantOf, RoleOf,   \* user -> its tenant, its role
    Seeded,             \* the users that are there in the beginning
    MinPasswordLength,  \* 12
    Sids, NoSid,        \* session ids newPrefixedID can return; no cookie
    SessionTTL,         \* Config.SessionTTL (12h)
    Requests,           \* the requests that can be served at one time
    AuthFaults,         \* {"db"}: a statement may fail, before or after it took effect
    MaxTime             \* bound: the clock stops here

Roles == {"viewer", "operator", "admin"}

ASSUME AuthAssumption ==
    /\ TenantOf \in [Users -> Tenants]
    /\ RoleOf \in [Users -> Roles]
    /\ NoUser \notin Users /\ NoSid \notin Sids
    /\ Seeded \subseteq Users
    /\ MinPasswordLength \in Nat \ {0}
    /\ SessionTTL \in Nat \ {0}
    /\ AuthFaults \subseteq {"db"}
    /\ MaxTime \in Nat

VARIABLES
    now,        \* the clock of the services
    \* Postgres
    tenants,    \* the ids in the table tenants
    users,      \* the users in the table users
    sessions,   \* session id -> its row, or NoSession
    minted,     \* the session ids handed out so far: random ones never repeat
    \* requests
    req,        \* request -> how far it is and what it knows
    answer      \* the answer sent in the last step, or NoAnswer

dbVars   == <<tenants, users, sessions, minted>>
authVars == <<now, dbVars, req, answer>>

NoSession == [user |-> NoUser, expires |-> 0]
Session   == [user : Users, expires : Nat]

(***************************************************************************)
(* A request is idle, about to insert its session ("login") or past the    *)
(* Authenticate middleware ("open"). Every 2xx is "ok", every 4xx and 5xx  *)
(* but 401 and 403 an "error".                                             *)
(***************************************************************************)
Idle     == [pc |-> "idle", user |-> NoUser, sid |-> NoSid]
Request  == [pc : {"idle", "login", "open"}, user : Users \cup {NoUser}, sid : Sids \cup {NoSid}]
Statuses == {"ok", "unauthorized", "forbidden", "error"}
NoAnswer == [status |-> "none", shows |-> {}]

\* The answer goes out with the rows it shows, and the request's locals are gone.
Answer(r, status, rows) ==
    /\ req' = [req EXCEPT ![r] = Idle]
    /\ answer' = [status |-> status, shows |-> rows]

\* The statement took effect; its caller may see an error all the same.
Applied(r) == \/ Answer(r, "ok", {})
              \/ "db" \in AuthFaults /\ Answer(r, "error", {})

Tick ==
    /\ now < MaxTime
    /\ now' = now + 1
    /\ answer' = NoAnswer
    /\ UNCHANGED <<dbVars, req>>

-----------------------------------------------------------------------------
(***************************************************************************)
(* Authorize: a role's level against a verb's, both of them known.         *)
(***************************************************************************)
verbLevel(verb) ==
    CASE verb = "read" -> 1 [] verb = "write" -> 2 [] verb = "admin" -> 3 [] OTHER -> 0

roleLevel(role) ==
    CASE role = "viewer" -> 1 [] role = "operator" -> 2 [] role = "admin" -> 3 [] OTHER -> 0

Authorize(role, verb) ==
    /\ roleLevel(role) >= verbLevel(verb)
    /\ roleLevel(role) > 0 /\ verbLevel(verb) > 0

\* The middleware before a handler: 401 without a user, 403 without the role.
Permitted(r, verb) ==
    /\ req[r].pc = "open"
    /\ req[r].user # NoUser
    /\ Authorize(RoleOf[req[r].user], verb)

Refused(r, verb) ==
    /\ req[r].pc = "open"
    /\ \/ req[r].user = NoUser /\ Answer(r, "unauthorized", {})
       \/ /\ req[r].user # NoUser /\ ~Authorize(RoleOf[req[r].user], verb)
          /\ Answer(r, "forbidden", {})

-----------------------------------------------------------------------------
(***************************************************************************)
(* ns seed admin: EnsureTenant, then CreateUser, two statements. A tenant  *)
(* or user that is there already stays as it is.                           *)
(***************************************************************************)
EnsureTenant(t) ==
    /\ t \notin tenants
    /\ tenants' = tenants \cup {t}
    /\ answer' = NoAnswer
    /\ UNCHANGED <<now, users, sessions, minted, req>>

\* A password is its length; a short one is refused.
HashPassword(length) == length >= MinPasswordLength

CreateUser(u, length) ==
    /\ HashPassword(length)
    /\ TenantOf[u] \in tenants
    /\ u \notin users
    /\ users' = users \cup {u}
    /\ answer' = NoAnswer
    /\ UNCHANGED <<now, tenants, sessions, minted, req>>

-----------------------------------------------------------------------------
(***************************************************************************)
(* Login and Logout.                                                       *)
(***************************************************************************)

\* GetUserForLogin and VerifyPassword: no such user and a wrong password look alike; a
\* failing lookup is a 500.
LoginVerify(r, u, matches) ==
    /\ req[r].pc = "idle"
    /\ \/ /\ u \in users /\ matches
          /\ req' = [req EXCEPT ![r] = [Idle EXCEPT !.pc = "login", !.user = u]] /\ answer' = NoAnswer
       \/ ~(u \in users /\ matches) /\ Answer(r, "unauthorized", {})
       \/ "db" \in AuthFaults /\ Answer(r, "error", {})
    /\ UNCHANGED <<now, dbVars>>

\* A plausible mistake: the session is stored under the id the client came with.
LoginCreate_KeepsSid(r, s) ==
    /\ req[r].pc = "login"
    /\ sessions' = [sessions EXCEPT ![s] = [user |-> req[r].user, expires |-> now + SessionTTL]]
    /\ minted' = minted \cup {s}
    /\ Applied(r)
    /\ UNCHANGED <<now, tenants, users>>

\* A fresh id and CreateSession; then Whoami, whose failure leaves the row.
LoginCreate(r, s) ==
    /\ req[r].pc = "login"
    /\ s \notin minted
    /\ sessions' = [sessions EXCEPT ![s] = [user |-> req[r].user, expires |-> now + SessionTTL]]
    /\ minted' = minted \cup {s}
    /\ Applied(r)
    /\ UNCHANGED <<now, tenants, users>>

CreateSessionFails(r) ==
    /\ "db" \in AuthFaults
    /\ req[r].pc = "login"
    /\ Answer(r, "error", {})
    /\ UNCHANGED <<now, dbVars>>

\* Logout deletes the row and clears the cookie; an error of the delete is ignored.
Logout(r, s) ==
    /\ req[r].pc = "idle"
    /\ \/ sessions' = [sessions EXCEPT ![s] = NoSession]
       \/ "db" \in AuthFaults /\ UNCHANGED sessions
    /\ Answer(r, "ok", {})
    /\ UNCHANGED <<now, tenants, users, minted>>

-----------------------------------------------------------------------------
(***************************************************************************)
(* The Authenticate middleware: Whoami over GetSession, read once at the   *)
(* start of a request. Any error makes the request anonymous.              *)
(***************************************************************************)

GetSession(s) ==
    IF s \in Sids /\ sessions[s].user # NoUser /\ sessions[s].expires > now
      THEN sessions[s].user ELSE NoUser

Authenticate(r, s) ==
    /\ req[r].pc = "idle"
    /\ \/ /\ GetSession(s) # NoUser
          /\ req' = [req EXCEPT ![r] = [pc |-> "open", user |-> GetSession(s), sid |-> s]]
       \/ /\ GetSession(s) = NoUser \/ "db" \in AuthFaults
          /\ req' = [req EXCEPT ![r] = [Idle EXCEPT !.pc = "open"]]
    /\ answer' = NoAnswer
    /\ UNCHANGED <<now, dbVars>>

whoamiHandler(r) ==
    /\ req[r].pc = "open"
    /\ Answer(r, IF req[r].user = NoUser THEN "unauthorized" ELSE "ok", {})
    /\ UNCHANGED <<now, dbVars>>

-----------------------------------------------------------------------------
AuthInit ==
    /\ now = 0
    /\ tenants = {TenantOf[u] : u \in Seeded}
    /\ users = Seeded
    /\ sessions = [s \in Sids |-> NoSession]
    /\ minted = {}
    /\ req = [r \in Requests |-> Idle]
    /\ answer = NoAnswer

AuthNext ==
    \/ Tick
    \/ \E t \in Tenants : EnsureTenant(t)
    \/ \E u \in Users, n \in {MinPasswordLength - 1, MinPasswordLength} : CreateUser(u, n)
    \/ \E r \in Requests :
         \/ \E u \in Users, matches \in BOOLEAN : LoginVerify(r, u, matches)
         \/ \E s \in Sids : LoginCreate(r, s)
         \/ CreateSessionFails(r)
         \/ \E s \in Sids : Logout(r, s)
         \/ \E s \in Sids \cup {NoSid} : Authenticate(r, s)
         \/ whoamiHandler(r)

AuthTypeOK ==
    /\ now \in Nat
    /\ tenants \subseteq Tenants
    /\ users \subseteq Users
    /\ sessions \in [Sids -> Session \cup {NoSession}]
    /\ minted \subseteq Sids
    /\ \A s \in Sids \ minted : sessions[s] = NoSession
    /\ req \in [Requests -> Request]
    /\ \A r \in Requests : /\ req[r].pc = "login" => req[r].user # NoUser
                           /\ req[r].user # NoUser => req[r].user \in users
    /\ answer.status \in Statuses \cup {"none"}

Live(s) == sessions[s].user # NoUser /\ sessions[s].expires > now

\* A session that was deleted or has expired (GetSession's expires_at > now, repo.go:169)
\* never comes back, however logins, logouts and failing statements interleave, and no
\* request that arrives later is served in its name. A request that read it before goes on.
EndedSessionsStayEnded ==
    [][\A s \in minted : ~Live(s) =>
         /\ ~Live(s)'
         /\ \A r \in Requests : req'[r].sid = s /\ req'[r].user # NoUser => req'[r] = req[r]]_authVars
=============================================================================
