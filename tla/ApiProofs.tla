----------------------------- MODULE ApiProofs ------------------------------
(***************************************************************************)
(* The safety properties of the API, for any tenants, users, requests,     *)
(* tables and clocks: sessions that ended stay ended, tenants stay apart,  *)
(* and a public link opens only while it is granted.                       *)
(***************************************************************************)
EXTENDS Api, FiniteSetTheorems, WellFoundedInduction, TLAPS

(***************************************************************************)
(* The strengthening. DataOK gives the tables their types; LinkOK ties     *)
(* the slug of a row to the grant it was given: the grant is not over, the *)
(* row expires no later than it, and no two rows carry one slug.           *)
(***************************************************************************)
WsRow == [tenant : Tenants, owner : Users, name : 1 .. MaxNameLen,
          slug : Slugs \cup {NoSlug}, expires : Int]

DataOK ==
    /\ workspaces \in [WsIds -> WsRow \cup {NoWorkspace}]
    /\ grants \in [Slugs -> [until : Int, over : BOOLEAN]]
    /\ annotations \in [AnnIds -> [tenant : Tenants, author : Users, at : Instants] \cup {NoAnnotation}]
    /\ tests \in [TestIds -> Tenants \cup {NoTenant}]
    /\ pops \in [PopIds -> Tenants \cup {NoTenant}]

LinkOK ==
    /\ \A id \in WsIds : LET g == workspaces[id].slug IN
         g # NoSlug => /\ ~grants[g].over
                       /\ workspaces[id].expires <= grants[g].until \/ Horizon <= grants[g].until
    /\ \A a, b \in WsIds :
         a # b /\ workspaces[a].slug = workspaces[b].slug => workspaces[a].slug = NoSlug

AnswerOK == answer.status \in Statuses \cup {"none"} /\ answer.shows \subseteq Ids \cup Slugs

\* Sessions are of users in the table.
SessionsOK == \A s \in Sids : sessions[s].user # NoUser => sessions[s].user \in users

AuthOK == AuthTypeOK /\ SessionsOK /\ now <= MaxTime

IInv == AuthOK /\ DataOK /\ LinkOK /\ AnswerOK

-----------------------------------------------------------------------------
(***************************************************************************)
(* Time to live: what overflows is never longer than what was asked for.   *)
(***************************************************************************)

\* Remainders of naturals.
LEMMA Remainder ==
    ASSUME NEW a \in Nat, NEW b \in Nat \ {0}
    PROVE  a % b \in Nat /\ a % b <= a /\ (a < b => a % b = a)
  OBVIOUS

\* An accepted share lives no longer than was asked, whatever the multiplication did.
LEMMA NoLongerThanAsked ==
    ASSUME NEW seconds \in Int, ValidShare(seconds), seconds >= 0
    PROVE  ShareTTL(seconds) <= Asked(seconds)
  <1> DEFINE x == seconds * Second
  <1> DEFINE H == Int64Half
  <1> DEFINE y == TTLSeconds(seconds) * Second
  <1>1. H \in Nat \ {0} /\ DefaultShareTTL \in Nat \ {0} /\ DefaultShareTTL < H /\ Second \in Nat \ {0}
    BY WorkspacesAssumption
  <1>2. x \in Nat /\ (seconds = 0 => x = 0) /\ (seconds > 0 => x > 0)
    BY <1>1
  <1>3. Duration(seconds) = ((y + H) % (2 * H)) - H  BY DEF Duration
  <1>a. \/ y = x
        \/ y = 0 /\ x >= H
    <2>1. CASE TTLSeconds(seconds) = seconds
      BY <2>1
    <2>2. CASE TTLSeconds(seconds) # seconds
      <3>1. seconds >= H /\ TTLSeconds(seconds) = 0
        BY <1>1, <2>2 DEF TTLSeconds
      <3>2. x >= seconds
        BY <1>1
      <3> QED  BY <1>1, <1>2, <3>1, <3>2
    <2> QED  BY <2>1, <2>2
  <1> HIDE DEF x, y, H
  <1>b. CASE y = 0 /\ x >= H
    <2>1. Duration(seconds) = 0
      BY <1>1, <1>3, <1>b, Remainder
    <2>2. Asked(seconds) \in {DefaultShareTTL, x} /\ ShareTTL(seconds) = DefaultShareTTL
      BY <2>1 DEF Asked, ShareTTL, x
    <2> QED  BY <1>1, <1>2, <1>b, <2>2
  <1> SUFFICES ASSUME y = x PROVE ShareTTL(seconds) <= Asked(seconds)
    BY <1>a, <1>b
  <1>4. /\ (x + H) % (2 * H) \in Nat
        /\ (x + H) % (2 * H) <= x + H
        /\ x + H < 2 * H => (x + H) % (2 * H) = x + H
    <2>1. x + H \in Nat /\ 2 * H \in Nat \ {0}  BY <1>1, <1>2
    <2> QED  BY <2>1, Remainder
  <1>5. Asked(seconds) = IF seconds = 0 THEN DefaultShareTTL ELSE x  BY DEF Asked, x
  <1>6. CASE Duration(seconds) = 0
    <2>1. ShareTTL(seconds) = DefaultShareTTL  BY <1>6 DEF ShareTTL
    <2>2. seconds > 0 => x >= H  BY <1>1, <1>2, <1>3, <1>4, <1>6
    <2> QED  BY <1>1, <1>2, <1>5, <2>1, <2>2
  <1>7. CASE Duration(seconds) # 0
    <2>1. ShareTTL(seconds) = Duration(seconds) /\ Duration(seconds) >= 0
      BY <1>7 DEF ShareTTL, ValidShare
    <2> QED  BY <1>1, <1>2, <1>3, <1>4, <1>5, <1>7, <2>1
  <1> QED  BY <1>6, <1>7

-----------------------------------------------------------------------------
(***************************************************************************)
(* Authentication.                                                         *)
(***************************************************************************)

\* What EndedSessionsStayEnded says of one step.
Ended ==
    \A s \in minted : ~Live(s) =>
        /\ ~Live(s)'
        /\ \A r \in Requests : req'[r].sid = s /\ req'[r].user # NoUser => req'[r] = req[r]

\* The end of a request touches no session.
LEMMA AnswerStep ==
    ASSUME AuthOK, NEW r \in Requests, NEW status \in Statuses, NEW rows,
           Answer(r, status, rows), UNCHANGED <<now, dbVars>>
    PROVE  /\ AuthOK'
           /\ Ended
           /\ answer' = [status |-> status, shows |-> rows]
           /\ req' = [req EXCEPT ![r] = Idle]
  <1>1. Idle \in Request  BY DEF Idle, Request
  <1>2. req' = [req EXCEPT ![r] = Idle] /\ answer' = [status |-> status, shows |-> rows]
    BY DEF Answer
  <1>3. UNCHANGED <<now, tenants, users, sessions, minted>>  BY DEF dbVars
  <1>4. AuthOK'
    BY <1>1, <1>2, <1>3 DEF AuthOK, AuthTypeOK, SessionsOK, Idle
  <1>5. Ended
    <2>1. \A s \in minted : Live(s)' = Live(s)  BY <1>3 DEF Live
    <2>2. minted \subseteq Sids /\ NoSid \notin Sids  BY AuthAssumption DEF AuthOK, AuthTypeOK
    <2>3. \A q \in Requests : req'[q] = req[q] \/ req'[q].sid = NoSid
      BY <1>2 DEF AuthOK, AuthTypeOK, Idle
    <2> QED  BY <2>1, <2>2, <2>3 DEF Ended
  <1> QED  BY <1>2, <1>4, <1>5

\* What a step of authentication has to leave behind.
AuthDone == AuthOK' /\ Ended /\ answer'.shows = {} /\ answer'.status \in Statuses \cup {"none"}

\* No step of authentication revives a session, and none shows a row.
LEMMA AuthStep ==
    ASSUME AuthOK, AuthNext
    PROVE  AuthDone
  <1>0. /\ minted \subseteq Sids /\ NoSid \notin Sids /\ NoUser \notin Users
        /\ sessions \in [Sids -> Session \cup {NoSession}]
        /\ req \in [Requests -> Request]
        /\ SessionTTL \in Nat \ {0} /\ MaxTime \in Nat /\ now \in Nat
        /\ TenantOf \in [Users -> Tenants]
        /\ AuthTypeOK /\ SessionsOK /\ now <= MaxTime
    BY AuthAssumption DEF AuthOK, AuthTypeOK
  <1>i. Idle \in Request /\ Idle.pc = "idle" /\ Idle.user = NoUser /\ Idle.sid = NoSid
    BY DEF Idle, Request
  <1>1. CASE Tick
    <2>1. now' = now + 1 /\ now' \in Nat /\ now' <= MaxTime /\ answer' = NoAnswer
          /\ UNCHANGED <<tenants, users, sessions, minted, req>>
      BY <1>0, <1>1 DEF Tick, dbVars
    <2>2. AuthOK'  BY <2>1 DEF AuthOK, AuthTypeOK, SessionsOK, NoAnswer
    <2>3. Ended
      <3>1. \A s \in minted : sessions[s].user # NoUser => sessions[s].expires \in Nat
        BY <1>0 DEF Session, NoSession
      <3> QED  BY <1>0, <2>1, <3>1 DEF Ended, Live
    <2> QED  BY <2>1, <2>2, <2>3 DEF AuthDone, NoAnswer
  <1>2. ASSUME NEW t \in Tenants, EnsureTenant(t)
        PROVE  AuthDone
    <2>1. AuthOK'  BY <1>2 DEF EnsureTenant, AuthOK, AuthTypeOK, SessionsOK, NoAnswer
    <2>2. Ended  BY <1>2 DEF EnsureTenant, Ended, Live
    <2> QED  BY <1>2, <2>1, <2>2 DEF AuthDone, EnsureTenant, NoAnswer
  <1>3. ASSUME NEW u \in Users, NEW n, CreateUser(u, n)
        PROVE  AuthDone
    <2>1. AuthOK'  BY <1>3 DEF CreateUser, AuthOK, AuthTypeOK, SessionsOK, NoAnswer
    <2>2. Ended  BY <1>3 DEF CreateUser, Ended, Live
    <2> QED  BY <1>3, <2>1, <2>2 DEF AuthDone, CreateUser, NoAnswer
  <1>4. ASSUME NEW r \in Requests, NEW u \in Users, NEW matches \in BOOLEAN, LoginVerify(r, u, matches)
        PROVE  AuthDone
    <2>0. UNCHANGED <<now, dbVars>>  BY <1>4 DEF LoginVerify
    <2>1. CASE Answer(r, "unauthorized", {}) \/ Answer(r, "error", {})
      BY <2>0, <2>1, AnswerStep DEF AuthDone, Statuses
    <2>2. CASE /\ u \in users
               /\ req' = [req EXCEPT ![r] = [Idle EXCEPT !.pc = "login", !.user = u]]
               /\ answer' = NoAnswer
      <3> DEFINE in == [Idle EXCEPT !.pc = "login", !.user = u]
      <3>1. in \in Request /\ in.sid = NoSid /\ in.user = u /\ in.pc = "login"  BY DEF Idle, Request
      <3> HIDE DEF in
      <3>2. req' = [req EXCEPT ![r] = in]  BY <2>2 DEF in
      <3>3. AuthOK'  BY <1>0, <2>0, <2>2, <3>1, <3>2 DEF AuthOK, AuthTypeOK, SessionsOK, NoAnswer, dbVars
      <3>4. Ended
        <4>1. \A s \in minted : Live(s)' = Live(s)  BY <2>0 DEF Live, dbVars
        <4>2. \A q \in Requests : req'[q] = req[q] \/ req'[q].sid = NoSid  BY <1>0, <3>1, <3>2
        <4> QED  BY <1>0, <4>1, <4>2 DEF Ended
      <3> QED  BY <2>0, <2>2, <3>3, <3>4 DEF AuthDone, NoAnswer
    <2> QED  BY <1>4, <2>1, <2>2 DEF LoginVerify
  <1>5. ASSUME NEW r \in Requests, NEW s \in Sids, LoginCreate(r, s)
        PROVE  AuthDone
    <2> DEFINE new == [user |-> req[r].user, expires |-> now + SessionTTL]
    <2>1. new \in Session /\ new.user \in users
      <3>1. req[r].user \in Users /\ req[r].user \in users
        BY <1>0, <1>5 DEF LoginCreate, AuthTypeOK, Request
      <3> QED  BY <1>0, <3>1 DEF Session
    <2> HIDE DEF new
    <2>2. /\ s \notin minted /\ sessions' = [sessions EXCEPT ![s] = new] /\ minted' = minted \cup {s}
          /\ UNCHANGED <<now, tenants, users>>
      BY <1>5 DEF LoginCreate, new
    <2>3. PICK st \in Statuses : /\ req' = [req EXCEPT ![r] = Idle]
                                 /\ answer' = [status |-> st, shows |-> {}]
      BY <1>5 DEF LoginCreate, Applied, Answer, Statuses
    <2>4. AuthOK'
      BY <1>0, <1>i, <2>1, <2>2, <2>3 DEF AuthOK, AuthTypeOK, SessionsOK
    <2>5. Ended
      <3>1. \A q \in minted : Live(q)' = Live(q)  BY <1>0, <2>2 DEF Live
      <3>2. \A q \in Requests : req'[q] = req[q] \/ req'[q].sid = NoSid  BY <1>0, <1>i, <2>3
      <3> QED  BY <1>0, <3>1, <3>2 DEF Ended
    <2> QED  BY <2>3, <2>4, <2>5 DEF AuthDone
  <1>6. ASSUME NEW r \in Requests, CreateSessionFails(r) \/ whoamiHandler(r)
        PROVE  AuthDone
    <2>1. /\ UNCHANGED <<now, dbVars>>
          /\ \E st \in Statuses : Answer(r, st, {})
      BY <1>6 DEF CreateSessionFails, whoamiHandler, Statuses
    <2>2. PICK st \in Statuses : Answer(r, st, {})  BY <2>1
    <2> QED  BY <2>1, <2>2, AnswerStep DEF AuthDone
  <1>7. ASSUME NEW r \in Requests, NEW s \in Sids, Logout(r, s)
        PROVE  AuthDone
    <2>1. /\ sessions' = [sessions EXCEPT ![s] = NoSession] \/ sessions' = sessions
          /\ UNCHANGED <<now, tenants, users, minted>>
          /\ req' = [req EXCEPT ![r] = Idle]
          /\ answer' = [status |-> "ok", shows |-> {}]
      BY <1>7 DEF Logout, Answer
    <2>2. AuthOK'
      BY <1>0, <1>i, <2>1 DEF AuthOK, AuthTypeOK, SessionsOK, NoSession, Statuses
    <2>3. Ended
      <3>1. \A q \in minted : Live(q)' => Live(q)  BY <1>0, <2>1 DEF Live, NoSession
      <3>2. \A q \in Requests : req'[q] = req[q] \/ req'[q].sid = NoSid  BY <1>0, <1>i, <2>1
      <3> QED  BY <1>0, <3>1, <3>2 DEF Ended
    <2> QED  BY <2>1, <2>2, <2>3 DEF AuthDone, Statuses
  <1>8. ASSUME NEW r \in Requests, NEW s \in Sids \cup {NoSid}, Authenticate(r, s)
        PROVE  AuthDone
    <2>0. UNCHANGED <<now, tenants, users, sessions, minted>> /\ answer' = NoAnswer
      BY <1>8 DEF Authenticate, dbVars
    <2>1. \A q \in minted : Live(q)' = Live(q)  BY <2>0 DEF Live
    <2>2. CASE req' = [req EXCEPT ![r] = [Idle EXCEPT !.pc = "open"]]
      <3> DEFINE in == [Idle EXCEPT !.pc = "open"]
      <3>1. in \in Request /\ in.sid = NoSid /\ in.user = NoUser /\ in.pc = "open"  BY DEF Idle, Request
      <3> HIDE DEF in
      <3>2. req' = [req EXCEPT ![r] = in]  BY <2>2 DEF in
      <3>3. AuthOK'  BY <1>0, <2>0, <3>1, <3>2 DEF AuthOK, AuthTypeOK, SessionsOK, NoAnswer
      <3>4. Ended
        <4>1. \A q \in Requests : req'[q] = req[q] \/ req'[q].sid = NoSid  BY <1>0, <3>1, <3>2
        <4> QED  BY <1>0, <2>1, <4>1 DEF Ended
      <3> QED  BY <2>0, <3>3, <3>4 DEF AuthDone, NoAnswer
    <2>3. CASE /\ GetSession(s) # NoUser
               /\ req' = [req EXCEPT ![r] = [pc |-> "open", user |-> GetSession(s), sid |-> s]]
      <3>1. s \in Sids /\ Live(s) /\ GetSession(s) = sessions[s].user /\ s \in minted
        BY <1>0, <2>3 DEF GetSession, Live, AuthTypeOK, NoSession
      <3>2. sessions[s].user \in Users /\ sessions[s].user \in users
        BY <1>0, <2>3, <3>1 DEF SessionsOK, AuthTypeOK
      <3> DEFINE in == [pc |-> "open", user |-> GetSession(s), sid |-> s]
      <3>3. in \in Request /\ in.sid = s /\ in.pc = "open" /\ in.user = sessions[s].user
        BY <3>1, <3>2 DEF Request
      <3> HIDE DEF in
      <3>4. req' = [req EXCEPT ![r] = in]  BY <2>3 DEF in
      <3>5. AuthOK'  BY <1>0, <2>0, <3>2, <3>3, <3>4 DEF AuthOK, AuthTypeOK, SessionsOK, NoAnswer
      <3>6. Ended
        <4>1. \A q \in Requests : req'[q] = req[q] \/ req'[q].sid = s  BY <1>0, <3>3, <3>4
        <4> QED  BY <2>1, <3>1, <4>1 DEF Ended
      <3> QED  BY <2>0, <3>5, <3>6 DEF AuthDone, NoAnswer
    <2> QED  BY <1>8, <2>2, <2>3 DEF Authenticate
  <1> QED  BY <1>1, <1>2, <1>3, <1>4, <1>5, <1>6, <1>7, <1>8 DEF AuthNext

-----------------------------------------------------------------------------
(***************************************************************************)
(* The tables.                                                             *)
(***************************************************************************)
WsOK ==
    /\ workspaces \in [WsIds -> WsRow \cup {NoWorkspace}]
    /\ grants \in [Slugs -> [until : Int, over : BOOLEAN]]

\* Taking back the slug of a row leaves the other grants alone.
LEMMA RevokedFacts ==
    ASSUME WsOK, NEW id \in WsIds
    PROVE  /\ Revoked(id) \in [Slugs -> [until : Int, over : BOOLEAN]]
           /\ \A g \in Slugs : g # workspaces[id].slug => Revoked(id)[g] = grants[g]
  BY DEF WsOK, Revoked

\* A row that loses its slug, or never had one, leaves every other link as it was.
LEMMA LinkRevoke ==
    ASSUME WsOK, LinkOK, NEW id \in WsIds, NEW row \in WsRow \cup {NoWorkspace}, row.slug = NoSlug,
           workspaces' = [workspaces EXCEPT ![id] = row],
           grants' = Revoked(id) \/ grants' = grants
    PROVE  WsOK' /\ LinkOK'
  <1>1. WsOK'  BY RevokedFacts DEF WsOK
  <1>2. /\ workspaces'[id].slug = NoSlug
        /\ \A b \in WsIds : b # id => workspaces'[b] = workspaces[b]
    BY DEF WsOK
  <1>3. ASSUME NEW b \in WsIds, b # id, workspaces[b].slug # NoSlug
        PROVE  grants'[workspaces[b].slug] = grants[workspaces[b].slug]
    <2>1. workspaces[b].slug \in Slugs  BY <1>3 DEF WsOK, WsRow, NoWorkspace
    <2>2. workspaces[b].slug # workspaces[id].slug  BY <1>3 DEF LinkOK
    <2> QED  BY <2>1, <2>2, RevokedFacts
  <1>4. ASSUME NEW b \in WsIds, workspaces'[b].slug # NoSlug
        PROVE  /\ ~grants'[workspaces'[b].slug].over
               /\ \/ workspaces'[b].expires <= grants'[workspaces'[b].slug].until
                  \/ Horizon <= grants'[workspaces'[b].slug].until
    BY <1>2, <1>3, <1>4 DEF LinkOK
  <1>5. ASSUME NEW a \in WsIds, NEW b \in WsIds, a # b, workspaces'[a].slug = workspaces'[b].slug
        PROVE  workspaces'[a].slug = NoSlug
    BY <1>2, <1>5 DEF LinkOK
  <1> QED  BY <1>1, <1>4, <1>5 DEF LinkOK

\* A row with another slug and expiry.
WithShare(old, g, e) == [old EXCEPT !.slug = g, !.expires = e]

\* It is a row, of the same tenant.
LEMMA RowWithShare ==
    ASSUME NEW old \in WsRow, NEW g \in Slugs \cup {NoSlug}, NEW e \in Int,
           NEW row, row = WithShare(old, g, e)
    PROVE  row \in WsRow /\ row.slug = g /\ row.expires = e /\ row.tenant = old.tenant
  <1> DEFINE one == [old EXCEPT !.slug = g]
  <1> DEFINE two == [one EXCEPT !.expires = e]
  <1>1. one \in WsRow /\ one.slug = g /\ one.tenant = old.tenant  BY DEF WsRow
  <1>2. WithShare(old, g, e) = two  BY DEF WithShare
  <1> HIDE DEF one
  <1>3. two \in WsRow /\ two.slug = g /\ two.expires = e /\ two.tenant = old.tenant
    BY <1>1 DEF WsRow
  <1> QED  BY <1>2, <1>3

\* Create.
LEMMA InsertWorkspaceOK ==
    ASSUME WsOK, LinkOK, NEW t \in Tenants, NEW u \in Users, NEW id \in WsIds,
           NEW name \in 1 .. MaxNameLen, InsertWorkspace(t, u, id, name)
    PROVE  /\ WsOK' /\ LinkOK'
           /\ workspaces[id].tenant = NoTenant /\ workspaces'[id].tenant = t
           /\ \A b \in WsIds : b # id => workspaces'[b] = workspaces[b]
  <1> DEFINE row == [tenant |-> t, owner |-> u, name |-> name, slug |-> NoSlug, expires |-> 0]
  <1>1. row \in WsRow /\ row.slug = NoSlug /\ row.tenant = t  BY DEF WsRow
  <1>2. workspaces' = [workspaces EXCEPT ![id] = row] /\ grants' = grants
    BY DEF InsertWorkspace
  <1> HIDE DEF row
  <1>3. WsOK' /\ LinkOK'  BY <1>1, <1>2, LinkRevoke
  <1> QED  BY <1>1, <1>2, <1>3 DEF InsertWorkspace, NoWorkspace, NoTenant, WsOK

\* Delete.
LEMMA DeleteWorkspaceOK ==
    ASSUME WsOK, LinkOK, NEW t \in Tenants, NEW id \in WsIds, DeleteWorkspace(t, id)
    PROVE  /\ WsOK' /\ LinkOK'
           /\ workspaces[id].tenant = t /\ workspaces'[id].tenant = NoTenant
           /\ \A b \in WsIds : b # id => workspaces'[b] = workspaces[b]
  <1>1. NoWorkspace.slug = NoSlug /\ NoWorkspace.tenant = NoTenant  BY DEF NoWorkspace, NoTenant
  <1>2. WsOK' /\ LinkOK'  BY <1>1, LinkRevoke DEF DeleteWorkspace
  <1> QED  BY <1>1, <1>2 DEF DeleteWorkspace, IsWs, WsOK

\* Unshare.
LEMMA UnshareOK ==
    ASSUME WsOK, LinkOK, NEW t \in Tenants, NEW id \in WsIds, Unshare(t, id)
    PROVE  /\ WsOK' /\ LinkOK'
           /\ workspaces[id].tenant = t /\ workspaces'[id].tenant = t
           /\ \A b \in WsIds : b # id => workspaces'[b] = workspaces[b]
  <1> DEFINE old == workspaces[id]
  <1> DEFINE row == WithShare(old, NoSlug, 0)
  <1>0. old \in WsRow /\ old.tenant = t  BY DEF Unshare, IsWs, WsOK
  <1>1. row \in WsRow /\ row.slug = NoSlug /\ row.tenant = t
    <2>1. NoSlug \in Slugs \cup {NoSlug} /\ 0 \in Int  OBVIOUS
    <2>2. row = WithShare(old, NoSlug, 0)  OBVIOUS
    <2> HIDE DEF old, row
    <2>3. row \in WsRow  BY <1>0, <2>1, <2>2, RowWithShare
    <2>4. row.slug = NoSlug  BY <1>0, <2>2 DEF WithShare, WsRow
    <2>5. row.tenant = t  BY <1>0, <2>2 DEF WithShare, WsRow
    <2> QED  BY <2>3, <2>4, <2>5
  <1>2. workspaces' = [workspaces EXCEPT ![id] = row] /\ grants' = Revoked(id)
    BY DEF Unshare, WsOK, WithShare
  <1> HIDE DEF row
  <1>3. WsOK' /\ LinkOK'  BY <1>1, <1>2, LinkRevoke
  <1> QED  BY <1>0, <1>1, <1>2, <1>3 DEF WsOK

\* Update touches neither slug nor expiry.
LEMMA UpdateWorkspaceOK ==
    ASSUME WsOK, LinkOK, NEW t \in Tenants, NEW id \in WsIds,
           NEW name \in (1 .. MaxNameLen) \cup {Keep}, UpdateWorkspace(t, id, name)
    PROVE  /\ WsOK' /\ LinkOK'
           /\ workspaces[id].tenant = t /\ workspaces'[id].tenant = t
           /\ \A b \in WsIds : b # id => workspaces'[b] = workspaces[b]
  <1> DEFINE old == workspaces[id]
  <1> DEFINE row == [old EXCEPT !.name = IF name = Keep THEN old.name ELSE name]
  <1>0. old \in WsRow /\ old.tenant = t  BY DEF UpdateWorkspace, IsWs, WsOK
  <1>1. row \in WsRow /\ row.slug = old.slug /\ row.expires = old.expires /\ row.tenant = t
    BY <1>0 DEF WsRow
  <1>2. workspaces' = [workspaces EXCEPT ![id] = row] /\ grants' = grants
    BY DEF UpdateWorkspace, WsOK
  <1> HIDE DEF row
  <1>3. WsOK'  BY <1>1, <1>2 DEF WsOK
  <1>4. \A b \in WsIds : /\ workspaces'[b].slug = workspaces[b].slug
                         /\ workspaces'[b].expires = workspaces[b].expires
    BY <1>1, <1>2 DEF WsOK
  <1>5. LinkOK'  BY <1>2, <1>4 DEF LinkOK
  <1> QED  BY <1>0, <1>1, <1>2, <1>3, <1>5 DEF WsOK

\* Share: the new slug is nobody's, and the row expires no later than its grant.
LEMMA ShareOK ==
    ASSUME WsOK, LinkOK, NEW t \in Tenants, NEW id \in WsIds, NEW slug \in Slugs, NEW seconds \in Int,
           NEW at \in Nat, ValidShare(seconds), Share(t, id, slug, seconds, at)
    PROVE  /\ WsOK' /\ LinkOK'
           /\ workspaces[id].tenant = t /\ workspaces'[id].tenant = t
           /\ \A b \in WsIds : b # id => workspaces'[b] = workspaces[b]
  <1> DEFINE old == workspaces[id]
  <1> DEFINE end == at + ShareTTL(seconds)
  <1> DEFINE row == WithShare(old, slug, end)
  <1> DEFINE gr == Grant(seconds, at)
  <1>0. /\ old \in WsRow /\ old.tenant = t /\ NoSlug \notin Slugs
        /\ grants[slug] = NoGrant
    BY WorkspacesAssumption DEF Share, IsWs, WsOK, issuedSlugs
  <1>1. /\ Duration(seconds) \in Int /\ ShareTTL(seconds) \in Int
        /\ Asked(seconds) \in Int /\ Horizon \in Nat
    <2> DEFINE held == TTLSeconds(seconds)
    <2>1. /\ held * Second \in Int /\ Int64Half \in Nat \ {0} /\ DefaultShareTTL \in Nat
          /\ seconds * Second \in Int /\ Horizon \in Nat
      BY WorkspacesAssumption DEF TTLSeconds
    <2>2. held * Second + Int64Half \in Int /\ 2 * Int64Half \in Nat \ {0}  BY <2>1
    <2>3. (held * Second + Int64Half) % (2 * Int64Half) \in Int  BY <2>2
    <2>4. Duration(seconds) \in Int  BY <2>1, <2>3 DEF Duration
    <2> QED  BY <2>1, <2>4 DEF ShareTTL, Asked
  <1>2. /\ gr \in [until : Int, over : BOOLEAN] /\ gr.over = FALSE
        /\ end <= gr.until \/ Horizon <= gr.until
    <2>1. gr = [until |-> IF at + Asked(seconds) < Horizon THEN at + Asked(seconds) ELSE Horizon,
                over |-> FALSE]
      BY DEF Grant
    <2>2. seconds >= 0 => end <= at + Asked(seconds)  BY <1>1, NoLongerThanAsked
    <2>3. seconds < 0 => Asked(seconds) = Horizon  BY DEF Asked
    <2> QED  BY <1>1, <2>1, <2>2, <2>3
  <1>3. row \in WsRow /\ row.slug = slug /\ row.expires = end /\ row.tenant = t
    <2>1. slug \in Slugs \cup {NoSlug} /\ end \in Int  BY <1>1
    <2>2. row = WithShare(old, slug, end)  OBVIOUS
    <2> HIDE DEF old, end, row
    <2>3. row \in WsRow  BY <1>0, <2>1, <2>2, RowWithShare
    <2>4. row.slug = slug  BY <1>0, <2>2 DEF WithShare, WsRow
    <2>5. row.expires = end  BY <1>0, <2>2 DEF WithShare, WsRow
    <2>6. row.tenant = t  BY <1>0, <2>2 DEF WithShare, WsRow
    <2> QED  BY <2>3, <2>4, <2>5, <2>6
  <1>4. workspaces' = [workspaces EXCEPT ![id] = row] /\ grants' = [Revoked(id) EXCEPT ![slug] = gr]
    BY DEF Share, WsOK, WithShare
  <1> HIDE DEF row, gr, end
  <1>5. WsOK'  BY <1>2, <1>3, <1>4, RevokedFacts DEF WsOK
  <1>6. /\ workspaces'[id] = row /\ grants'[slug] = gr
        /\ \A b \in WsIds : b # id => workspaces'[b] = workspaces[b]
    BY <1>4, RevokedFacts DEF WsOK
  <1>7. ASSUME NEW b \in WsIds, b # id, workspaces[b].slug # NoSlug
        PROVE  /\ workspaces[b].slug # slug
               /\ grants'[workspaces[b].slug] = grants[workspaces[b].slug]
    <2>1. workspaces[b].slug \in Slugs  BY <1>7 DEF WsOK, WsRow, NoWorkspace
    <2>2. workspaces[b].slug # old.slug  BY <1>7 DEF LinkOK
    <2>3. workspaces[b].slug # slug  BY <1>0, <1>7 DEF LinkOK, NoGrant
    <2> QED  BY <1>4, <2>1, <2>2, <2>3, RevokedFacts
  <1>8. ASSUME NEW b \in WsIds, workspaces'[b].slug # NoSlug
        PROVE  /\ ~grants'[workspaces'[b].slug].over
               /\ \/ workspaces'[b].expires <= grants'[workspaces'[b].slug].until
                  \/ Horizon <= grants'[workspaces'[b].slug].until
    <2>1. CASE b = id  BY <1>2, <1>3, <1>6, <2>1
    <2>2. CASE b # id  BY <1>6, <1>7, <1>8, <2>2 DEF LinkOK
    <2> QED  BY <2>1, <2>2
  <1>9. ASSUME NEW a \in WsIds, NEW b \in WsIds, a # b, workspaces'[a].slug = workspaces'[b].slug
        PROVE  workspaces'[a].slug = NoSlug
    BY <1>0, <1>3, <1>6, <1>7, <1>9 DEF LinkOK
  <1>10. LinkOK'  BY <1>8, <1>9 DEF LinkOK
  <1> QED  BY <1>0, <1>3, <1>5, <1>6, <1>10

-----------------------------------------------------------------------------
(***************************************************************************)
(* A request is answered: what the answer and the statement may do.        *)
(***************************************************************************)

\* What TenantsStayApart and LinkOpensOnlyWhileGranted say of one step.
RowsApart ==
    \A id \in Ids : Row(id)' # Row(id) =>
        \E r \in Requests :
            /\ Answered(r)
            /\ {Row(id).tenant, Row(id).tenant'} \subseteq {TenantOf[req[r].user], NoTenant}
            /\ RoleOf[req[r].user] \in {"operator", "admin"}

ShowsOwn ==
    \A r \in Requests : Answered(r) =>
        \A id \in answer'.shows \ Slugs : Row(id).tenant = TenantOf[req[r].user]

OpensGranted ==
    \A r \in Requests : Answered(r) =>
        \A g \in answer'.shows \cap Slugs :
            grants[g] # NoGrant /\ ~grants[g].over /\ now < grants[g].until

StepOK == IInv' /\ Ended /\ RowsApart /\ ShowsOwn /\ OpensGranted

\* A row is that of its table.
LEMMA RowOf ==
    /\ \A id \in WsIds : Row(id) = workspaces[id] /\ Row(id)' = workspaces'[id]
    /\ \A id \in AnnIds : Row(id) = annotations[id] /\ Row(id)' = annotations'[id]
    /\ \A id \in TestIds : Row(id) = [tenant |-> tests[id]] /\ Row(id)' = [tenant |-> tests'[id]]
    /\ \A id \in PopIds : Row(id) = [tenant |-> pops[id]] /\ Row(id)' = [tenant |-> pops'[id]]
  BY ApiAssumption DEF Row

\* Tables that are left alone.
LEMMA SameData ==
    ASSUME IInv, UNCHANGED dataVars
    PROVE  DataOK' /\ LinkOK' /\ RowsApart
  <1>1. UNCHANGED <<workspaces, grants, annotations, tests, pops>>
    BY DEF dataVars, wsVars, catalogVars
  <1>2. DataOK'  BY <1>1 DEF IInv, DataOK
  <1>3. LinkOK'  BY <1>1 DEF IInv, LinkOK
  <1>4. \A id \in Ids : Row(id)' = Row(id)  BY <1>1, RowOf DEF Ids
  <1> QED  BY <1>2, <1>3, <1>4 DEF RowsApart

\* An answer that shows only what it may, from a handler that writes nothing.
LEMMA ReadStep ==
    ASSUME IInv, NEW r \in Requests, NEW st \in Statuses, NEW rows \in SUBSET (Ids \cup Slugs),
           Answer(r, st, rows), Handler, UNCHANGED dataVars,
           \A id \in rows \ Slugs : Row(id).tenant = T(r),
           \A g \in rows \cap Slugs : grants[g] # NoGrant /\ ~grants[g].over /\ now < grants[g].until
    PROVE  StepOK
  <1>1. /\ AuthOK' /\ Ended
        /\ answer' = [status |-> st, shows |-> rows]
        /\ req' = [req EXCEPT ![r] = Idle]
    BY AnswerStep DEF IInv, Handler
  <1>2. DataOK' /\ LinkOK' /\ RowsApart  BY SameData
  <1>3. AnswerOK'  BY <1>1 DEF AnswerOK, Ids
  <1>4. \A q \in Requests : Answered(q) => q = r
    BY <1>1 DEF Answered, IInv, AuthOK, AuthTypeOK
  <1>5. ShowsOwn  BY <1>1, <1>4 DEF ShowsOwn, T
  <1>6. OpensGranted  BY <1>1, <1>4 DEF OpensGranted
  <1> QED  BY <1>1, <1>2, <1>3, <1>5, <1>6 DEF StepOK, IInv

\* An answer that shows nothing.
LEMMA EmptyAnswer ==
    ASSUME IInv, NEW r \in Requests, NEW st \in Statuses, Answer(r, st, {}), Handler, UNCHANGED dataVars
    PROVE  StepOK
  BY ReadStep

\* A statement of a user whose role may write, on rows of the user's tenant.
LEMMA WriteStep ==
    ASSUME IInv, NEW r \in Requests, Permitted(r, "write"), Applied(r), Handler,
           DataOK', LinkOK',
           \A id \in Ids : Row(id)' # Row(id) =>
               /\ Row(id).tenant \in {T(r), NoTenant}
               /\ Row(id)'.tenant \in {T(r), NoTenant}
    PROVE  StepOK
  <1>1. PICK st \in Statuses : Answer(r, st, {})  BY DEF Applied, Statuses
  <1>2. /\ AuthOK' /\ Ended
        /\ answer' = [status |-> st, shows |-> {}]
        /\ req' = [req EXCEPT ![r] = Idle]
    BY <1>1, AnswerStep DEF IInv, Handler
  <1>3. AnswerOK'  BY <1>2 DEF AnswerOK
  <1>4. Answered(r)
    BY <1>2 DEF Answered, Permitted, Idle, IInv, AuthOK, AuthTypeOK
  <1>5. RoleOf[req[r].user] \in {"operator", "admin"}
    <2>1. req[r].user \in Users
      BY DEF Permitted, IInv, AuthOK, AuthTypeOK, Request
    <2>2. RoleOf[req[r].user] \in Roles  BY <2>1, AuthAssumption
    <2> QED  BY <2>2 DEF Permitted, Authorize, roleLevel, verbLevel, Roles
  <1>6. RowsApart
    <2>1. \A id \in Ids : Row(id)'.tenant = Row(id).tenant'  OBVIOUS
    <2> QED  BY <1>4, <1>5, <2>1 DEF RowsApart, T
  <1>7. ShowsOwn /\ OpensGranted  BY <1>2 DEF ShowsOwn, OpensGranted
  <1> QED  BY <1>2, <1>3, <1>6, <1>7 DEF StepOK, IInv

-----------------------------------------------------------------------------
\* The handlers that read.
LEMMA ReadsOK ==
    ASSUME IInv, NEW r \in Requests, Reads(r)
    PROVE  StepOK
  <1>0. WsIds \subseteq Ids /\ AnnIds \subseteq Ids /\ TestIds \subseteq Ids /\ PopIds \subseteq Ids
    BY DEF Ids
  <1>d. Slugs \cap Ids = {}  BY ApiAssumption DEF Ids
  <1>1. ASSUME NEW ids \in SUBSET Ids, listHandler(r, ids) \/ getHandler(r, ids)
        PROVE  StepOK
    <2>1. PICK rows \in SUBSET OfTenant(T(r), ids) : Answer(r, "ok", rows)
      BY <1>1 DEF listHandler, getHandler, loadRow
    <2>2. rows \in SUBSET (Ids \cup Slugs) /\ rows \cap Slugs = {}
      BY <1>d, <2>1 DEF OfTenant
    <2>3. \A id \in rows : Row(id).tenant = T(r)  BY <2>1 DEF OfTenant
    <2>4. Handler /\ UNCHANGED dataVars  BY <1>1 DEF listHandler, getHandler
    <2> QED  BY <2>1, <2>2, <2>3, <2>4, ReadStep DEF Statuses
  <1>2. ASSUME NEW from \in Instants, NEW limit, listAnnotationsHandler(r, from, limit)
        PROVE  StepOK
    <2>1. PICK page \in Listings(T(r), from, limit) : \E rows \in CutShort(page) : Answer(r, "ok", rows)
      BY <1>2 DEF listAnnotationsHandler
    <2>a. PICK rows \in CutShort(page) : Answer(r, "ok", rows)
      BY <2>1
    <2>2. rows \subseteq AnnIds /\ \A id \in rows : annotations[id].tenant = T(r)
      BY <2>1 DEF Listings, Matching, CutShort
    <2>3. rows \in SUBSET (Ids \cup Slugs) /\ rows \cap Slugs = {}
      BY <1>0, <1>d, <2>2
    <2>4. \A id \in rows : Row(id).tenant = T(r)  BY <2>2, RowOf
    <2>5. Handler /\ UNCHANGED dataVars  BY <1>2 DEF listAnnotationsHandler
    <2> QED  BY <2>a, <2>3, <2>4, <2>5, ReadStep DEF Statuses
  <1>3. ASSUME NEW g \in Slugs, resolveShareHandler(r, g)
        PROVE  StepOK
    <2>0. Handler /\ UNCHANGED dataVars  BY <1>3 DEF resolveShareHandler
    <2>1. CASE Answer(r, "error", {})  BY <2>0, <2>1, EmptyAnswer DEF Statuses
    <2>2. CASE Resolved(g, now) # {} /\ Answer(r, "ok", {g})
      <3>1. PICK id \in WsIds : g # NoSlug /\ workspaces[id].slug = g /\ workspaces[id].expires > now
        BY <2>2 DEF Resolved
      <3>2. /\ workspaces[id].expires \in Int /\ grants[g].until \in Int
            /\ now \in Nat /\ now <= MaxTime /\ MaxTime \in Nat /\ Horizon > MaxTime /\ Horizon \in Nat
        BY <3>1, AuthAssumption, ApiAssumption, WorkspacesAssumption
           DEF IInv, AuthOK, AuthTypeOK, DataOK, WsRow, NoWorkspace
      <3>3. ~grants[g].over /\ (workspaces[id].expires <= grants[g].until \/ Horizon <= grants[g].until)
        BY <3>1 DEF IInv, LinkOK
      <3>4. grants[g] # NoGrant /\ now < grants[g].until  BY <3>1, <3>2, <3>3 DEF NoGrant
      <3> QED  BY <2>0, <2>2, <3>3, <3>4, ReadStep DEF Statuses
    <2> QED  BY <1>3, <2>1, <2>2 DEF resolveShareHandler
  <1>4. CASE netqlExecuteHandler(r)
    <2>1. PICK st \in Statuses : Answer(r, st, {})  BY <1>4 DEF netqlExecuteHandler, Statuses
    <2> QED  BY <1>4, <2>1, EmptyAnswer DEF netqlExecuteHandler
  <1> QED
    BY <1>0, <1>1, <1>2, <1>3, <1>4
       DEF Reads, listWorkspacesHandler, getWorkspaceHandler, listTestsHandler, getTestHandler,
           listPopsHandler, getPopHandler, getAnnotationHandler

\* Whoever may write belongs to a tenant.
LEMMA WriterHasTenant ==
    ASSUME IInv, NEW r \in Requests, NEW verb, Permitted(r, verb)
    PROVE  req[r].user \in Users /\ T(r) \in Tenants
  <1>1. req[r].user \in Users  BY DEF Permitted, IInv, AuthOK, AuthTypeOK, Request
  <1> QED  BY <1>1, AuthAssumption DEF T

\* A statement on one workspace.
LEMMA WorkspaceWrite ==
    ASSUME IInv, NEW r \in Requests, Permitted(r, "write"), Applied(r), Handler,
           UNCHANGED <<annotations, tests, pops>>, WsOK', LinkOK',
           NEW id \in WsIds,
           workspaces[id].tenant \in {T(r), NoTenant}, workspaces'[id].tenant \in {T(r), NoTenant},
           \A b \in WsIds : b # id => workspaces'[b] = workspaces[b]
    PROVE  StepOK
  <1>1. DataOK'  BY DEF IInv, DataOK, WsOK
  <1>2. \A b \in Ids : Row(b)' # Row(b) => b = id  BY RowOf DEF Ids
  <1>3. Row(id) = workspaces[id] /\ Row(id)' = workspaces'[id]  BY RowOf
  <1> QED  BY <1>1, <1>2, <1>3, WriteStep

\* The handlers that write.
LEMMA WritesOK ==
    ASSUME IInv, NEW r \in Requests, Writes(r)
    PROVE  StepOK
  <1>0. WsOK /\ LinkOK /\ DataOK /\ now \in Nat
    BY DEF IInv, DataOK, WsOK, AuthOK, AuthTypeOK
  <1>m. MaxNameLen \in Nat \ {0}  BY WorkspacesAssumption
  <1>1. ASSUME NEW id \in WsIds, NEW d \in Drafts, createWorkspaceHandler(r, id, d)
        PROVE  StepOK
    <2>1. T(r) \in Tenants /\ req[r].user \in Users  BY <1>1, WriterHasTenant DEF createWorkspaceHandler
    <2>2. d.name \in 1 .. MaxNameLen
      BY <1>1, <1>m, ApiAssumption DEF createWorkspaceHandler, ValidWorkspace, ValidateName, Draft
    <2>3. /\ WsOK' /\ LinkOK'
          /\ workspaces[id].tenant = NoTenant /\ workspaces'[id].tenant = T(r)
          /\ \A b \in WsIds : b # id => workspaces'[b] = workspaces[b]
      BY <1>0, <1>1, <2>1, <2>2, InsertWorkspaceOK DEF createWorkspaceHandler
    <2> QED  BY <1>1, <2>3, WorkspaceWrite DEF createWorkspaceHandler
  <1>2. ASSUME NEW id \in WsIds, NEW d \in Drafts, updateWorkspaceHandler(r, id, d)
        PROVE  StepOK
    <2>1. T(r) \in Tenants  BY <1>2, WriterHasTenant DEF updateWorkspaceHandler
    <2>2. d.name \in (1 .. MaxNameLen) \cup {Keep}
      BY <1>2, <1>m, ApiAssumption DEF updateWorkspaceHandler, ValidPatch, ValidateName, Draft
    <2>3. /\ WsOK' /\ LinkOK'
          /\ workspaces[id].tenant = T(r) /\ workspaces'[id].tenant = T(r)
          /\ \A b \in WsIds : b # id => workspaces'[b] = workspaces[b]
      BY <1>0, <1>2, <2>1, <2>2, UpdateWorkspaceOK DEF updateWorkspaceHandler
    <2> QED  BY <1>2, <2>3, WorkspaceWrite DEF updateWorkspaceHandler
  <1>3. ASSUME NEW id \in WsIds, deleteWorkspaceHandler(r, id)
        PROVE  StepOK
    <2>1. T(r) \in Tenants  BY <1>3, WriterHasTenant DEF deleteWorkspaceHandler
    <2>2. /\ WsOK' /\ LinkOK'
          /\ workspaces[id].tenant = T(r) /\ workspaces'[id].tenant = NoTenant
          /\ \A b \in WsIds : b # id => workspaces'[b] = workspaces[b]
      BY <1>0, <1>3, <2>1, DeleteWorkspaceOK DEF deleteWorkspaceHandler
    <2> QED  BY <1>3, <2>2, WorkspaceWrite DEF deleteWorkspaceHandler
  <1>4. ASSUME NEW id \in WsIds, NEW g \in Slugs, NEW s \in Seconds, shareWorkspaceHandler(r, id, g, s)
        PROVE  StepOK
    <2>1. T(r) \in Tenants  BY <1>4, WriterHasTenant DEF shareWorkspaceHandler
    <2>2. s \in Int  BY ApiAssumption
    <2>3. /\ WsOK' /\ LinkOK'
          /\ workspaces[id].tenant = T(r) /\ workspaces'[id].tenant = T(r)
          /\ \A b \in WsIds : b # id => workspaces'[b] = workspaces[b]
      BY <1>0, <1>4, <2>1, <2>2, ShareOK DEF shareWorkspaceHandler
    <2> QED  BY <1>4, <2>3, WorkspaceWrite DEF shareWorkspaceHandler
  <1>5. ASSUME NEW id \in WsIds, unshareWorkspaceHandler(r, id)
        PROVE  StepOK
    <2>1. T(r) \in Tenants  BY <1>5, WriterHasTenant DEF unshareWorkspaceHandler
    <2>2. /\ WsOK' /\ LinkOK'
          /\ workspaces[id].tenant = T(r) /\ workspaces'[id].tenant = T(r)
          /\ \A b \in WsIds : b # id => workspaces'[b] = workspaces[b]
      BY <1>0, <1>5, <2>1, UnshareOK DEF unshareWorkspaceHandler
    <2> QED  BY <1>5, <2>2, WorkspaceWrite DEF unshareWorkspaceHandler
  <1>6. ASSUME NEW id \in AnnIds, NEW n \in Notes, createAnnotationHandler(r, id, n)
        PROVE  StepOK
    <2> DEFINE row == [tenant |-> T(r), author |-> req[r].user, at |-> n.at]
    <2>1. T(r) \in Tenants /\ req[r].user \in Users  BY <1>6, WriterHasTenant DEF createAnnotationHandler
    <2>2. n.at \in Instants
      BY <1>6, ApiAssumption DEF createAnnotationHandler, ValidAnnotation, Note
    <2>3. /\ annotations[id] = NoAnnotation /\ annotations' = [annotations EXCEPT ![id] = row]
          /\ UNCHANGED <<workspaces, grants, tests, pops>>
      BY <1>6 DEF createAnnotationHandler, InsertAnnotation, wsVars, catalogVars
    <2>4. row \in [tenant : Tenants, author : Users, at : Instants] /\ row.tenant = T(r)  BY <2>1, <2>2
    <2> HIDE DEF row
    <2>5. DataOK'  BY <1>0, <2>3, <2>4 DEF DataOK
    <2>6. LinkOK'  BY <1>0, <2>3 DEF LinkOK
    <2>7. \A b \in Ids : Row(b)' # Row(b) => b = id  BY <1>0, <2>3, RowOf DEF Ids, DataOK
    <2>8. Row(id).tenant = NoTenant /\ Row(id)'.tenant = T(r)
      BY <1>0, <2>3, <2>4, RowOf DEF DataOK, NoAnnotation, NoTenant
    <2> QED  BY <1>6, <2>5, <2>6, <2>7, <2>8, WriteStep DEF createAnnotationHandler
  <1>7. ASSUME NEW id \in AnnIds, deleteAnnotationHandler(r, id)
        PROVE  StepOK
    <2>1. /\ annotations[id].tenant = T(r) /\ annotations' = [annotations EXCEPT ![id] = NoAnnotation]
          /\ UNCHANGED <<workspaces, grants, tests, pops>>
      BY <1>7 DEF deleteAnnotationHandler, DeleteAnnotation, wsVars, catalogVars
    <2>2. DataOK'  BY <1>0, <2>1 DEF DataOK
    <2>3. LinkOK'  BY <1>0, <2>1 DEF LinkOK
    <2>4. \A b \in Ids : Row(b)' # Row(b) => b = id  BY <1>0, <2>1, RowOf DEF Ids, DataOK
    <2>5. Row(id).tenant = T(r) /\ Row(id)'.tenant = NoTenant
      BY <1>0, <2>1, RowOf DEF DataOK, NoAnnotation, NoTenant
    <2> QED  BY <1>7, <2>2, <2>3, <2>4, <2>5, WriteStep DEF deleteAnnotationHandler
  <1>8. ASSUME NEW id \in TestIds, NEW k, createTestHandler(r, id, k) \/ deleteTestHandler(r, id)
        PROVE  StepOK
    <2>1. T(r) \in Tenants  BY <1>8, WriterHasTenant DEF createTestHandler, deleteTestHandler
    <2>2. /\ tests[id] \in {T(r), NoTenant}
          /\ \E t \in {T(r), NoTenant} : tests' = [tests EXCEPT ![id] = t]
          /\ UNCHANGED <<workspaces, grants, annotations, pops>>
      BY <1>8 DEF createTestHandler, deleteTestHandler, wsVars
    <2>3. PICK t \in {T(r), NoTenant} : tests' = [tests EXCEPT ![id] = t]  BY <2>2
    <2>4. DataOK'  BY <1>0, <2>1, <2>2, <2>3 DEF DataOK
    <2>5. LinkOK'  BY <1>0, <2>2 DEF LinkOK
    <2>6. \A b \in Ids : Row(b)' # Row(b) => b = id  BY <1>0, <2>2, <2>3, RowOf DEF Ids, DataOK
    <2>7. Row(id).tenant \in {T(r), NoTenant} /\ Row(id)'.tenant \in {T(r), NoTenant}
      BY <1>0, <2>2, <2>3, RowOf DEF DataOK
    <2> QED  BY <1>8, <2>4, <2>5, <2>6, <2>7, WriteStep DEF createTestHandler, deleteTestHandler
  <1>9. ASSUME NEW id \in PopIds, createPopHandler(r, id) \/ deletePopHandler(r, id)
        PROVE  StepOK
    <2>0. /\ Permitted(r, "write") /\ Handler
          /\ UNCHANGED <<workspaces, grants, annotations, tests>>
      BY <1>9 DEF createPopHandler, deletePopHandler, wsVars
    <2>1. T(r) \in Tenants  BY <2>0, WriterHasTenant
    <2>2. CASE Answer(r, "error", {}) /\ UNCHANGED pops
      BY <2>0, <2>2, EmptyAnswer DEF Statuses, dataVars, wsVars, catalogVars
    <2>3. CASE /\ pops[id] \in {T(r), NoTenant} /\ Applied(r)
               /\ \E t \in {T(r), NoTenant} : pops' = [pops EXCEPT ![id] = t]
      <3>1. PICK t \in {T(r), NoTenant} : pops' = [pops EXCEPT ![id] = t]  BY <2>3
      <3>2. DataOK'  BY <1>0, <2>0, <2>1, <3>1 DEF DataOK
      <3>3. LinkOK'  BY <1>0, <2>0 DEF LinkOK
      <3>4. \A b \in Ids : Row(b)' # Row(b) => b = id  BY <1>0, <2>0, <3>1, RowOf DEF Ids, DataOK
      <3>5. Row(id).tenant \in {T(r), NoTenant} /\ Row(id)'.tenant \in {T(r), NoTenant}
        BY <1>0, <2>3, <3>1, RowOf DEF DataOK
      <3> QED  BY <2>0, <2>3, <3>2, <3>3, <3>4, <3>5, WriteStep
    <2> QED  BY <1>9, <2>2, <2>3 DEF createPopHandler, deletePopHandler
  <1> QED  BY <1>1, <1>2, <1>3, <1>4, <1>5, <1>6, <1>7, <1>8, <1>9 DEF Writes

-----------------------------------------------------------------------------
\* The invariant holds at the start.
LEMMA InitIInv == Init => IInv
  <1> SUFFICES ASSUME Init PROVE IInv  OBVIOUS
  <1>1. AuthOK
    <2>1. Idle \in Request /\ Idle.pc = "idle" /\ Idle.user = NoUser  BY DEF Idle, Request
    <2>2. NoSession.user = NoUser  BY DEF NoSession
    <2> QED  BY <2>1, <2>2, AuthAssumption
             DEF Init, AuthInit, AuthOK, AuthTypeOK, SessionsOK, NoAnswer
  <1>2. DataOK
    BY DEF Init, WorkspacesInit, AnnotationsInit, DataOK, NoGrant
  <1>3. LinkOK
    BY DEF Init, WorkspacesInit, LinkOK, NoWorkspace
  <1>4. AnswerOK  BY DEF Init, AuthInit, AnswerOK, NoAnswer
  <1> QED  BY <1>1, <1>2, <1>3, <1>4 DEF IInv

\* Every step keeps it and does what the action properties ask for.
LEMMA NextOK == IInv /\ Next => StepOK
  <1> SUFFICES ASSUME IInv, Next PROVE StepOK  OBVIOUS
  <1>1. CASE AuthNext /\ UNCHANGED dataVars
    <2>1. AuthDone  BY <1>1, AuthStep DEF IInv
    <2>2. DataOK' /\ LinkOK' /\ RowsApart  BY <1>1, SameData
    <2>3. AnswerOK'  BY <2>1 DEF AuthDone, AnswerOK
    <2>4. ShowsOwn /\ OpensGranted  BY <2>1 DEF AuthDone, ShowsOwn, OpensGranted
    <2> QED  BY <2>1, <2>2, <2>3, <2>4 DEF AuthDone, StepOK, IInv
  <1>2. ASSUME NEW r \in Requests, NEW verb, Rejects(r, verb) \/ Denied(r, verb)
        PROVE  StepOK
    <2>1. PICK st \in Statuses : Answer(r, st, {})
      BY <1>2 DEF Rejects, Denied, Refused, Statuses
    <2> QED  BY <1>2, <2>1, EmptyAnswer DEF Rejects, Denied
  <1> QED  BY <1>1, <1>2, ReadsOK, WritesOK DEF Next

\* A step that changes nothing.
LEMMA StutterOK == IInv /\ UNCHANGED vars => IInv'
  BY DEF IInv, AuthOK, AuthTypeOK, SessionsOK, DataOK, LinkOK, AnswerOK, issuedSlugs,
         vars, authVars, dbVars, dataVars, wsVars, catalogVars

\* The invariant.
LEMMA Invariant == Spec => []IInv
  <1>1. IInv /\ [Next]_vars => IInv'  BY NextOK, StutterOK DEF StepOK
  <1> QED  BY <1>1, InitIInv, PTL DEF Spec

-----------------------------------------------------------------------------
\* The API is type correct: in particular the slug of a row is always one that was issued.
THEOREM TypeCorrect == Spec => []TypeOK
  <1>1. IInv => TypeOK
    <2> SUFFICES ASSUME IInv PROVE TypeOK  OBVIOUS
    <2>1. ASSUME NEW id \in WsIds, workspaces[id] # NoWorkspace
          PROVE  workspaces[id].slug \in issuedSlugs \cup {NoSlug}
      <3>1. workspaces[id].slug \in Slugs \cup {NoSlug}  BY <2>1 DEF IInv, DataOK, WsRow
      <3> QED  BY <3>1 DEF IInv, LinkOK, issuedSlugs, NoGrant
    <2> QED  BY <2>1 DEF IInv, AuthOK, DataOK, WsRow, AnswerOK, TypeOK
  <1> QED  BY <1>1, Invariant, PTL

\* A session that ended stays ended, for any number of requests under way.
THEOREM SessionsEnd == Spec => EndedSessionsStayEnded
  <1>1. IInv /\ [Next]_vars => [Ended]_authVars
    BY NextOK DEF StepOK, vars
  <1>2. Ended <=> \A s \in minted : ~Live(s) =>
          /\ ~Live(s)'
          /\ \A r \in Requests : req'[r].sid = s /\ req'[r].user # NoUser => req'[r] = req[r]
    BY DEF Ended
  <1> QED  BY <1>1, <1>2, Invariant, PTL DEF Spec, EndedSessionsStayEnded

\* Tenants stay apart, for any tenants, users and roles, and any interleaving.
THEOREM TenantIsolation == Spec => TenantsStayApart
  <1>1. IInv /\ [Next]_vars => [RowsApart /\ ShowsOwn]_vars
    BY NextOK DEF StepOK
  <1> QED  BY <1>1, Invariant, PTL DEF Spec, TenantsStayApart, RowsApart, ShowsOwn

\* A link opens only while it is granted, for every ttl_seconds and width of Duration.
THEOREM LinksHold == Spec => LinkOpensOnlyWhileGranted
  <1>1. IInv /\ [Next]_vars => [OpensGranted]_vars
    BY NextOK DEF StepOK
  <1> QED  BY <1>1, Invariant, PTL DEF Spec, LinkOpensOnlyWhileGranted, OpensGranted
-----------------------------------------------------------------------------
(***************************************************************************)
(* Paging.                                                                 *)
(***************************************************************************)

\* A set of naturals has a least element.
LEMMA LeastOf ==
    ASSUME NEW S \in SUBSET Nat, S # {}
    PROVE  \E x \in S : \A y \in S : x <= y
  <1> DEFINE R == OpToRel(<, Nat)
  <1>1. IsWellFoundedOn(R, Nat)  BY NatLessThanWellFounded
  <1>2. R = {ss \in Nat \X Nat : ss[1] < ss[2]}  BY DEF OpToRel
  <1> HIDE DEF R
  <1>3. PICK x \in S : \A y \in S : ~(<<y, x>> \in R)  BY <1>1, WFMin
  <1>4. ASSUME NEW y \in S PROVE x <= y
    <2>1. x \in Nat /\ y \in Nat  OBVIOUS
    <2>2. <<y, x>> \in Nat \X Nat /\ <<y, x>>[1] = y /\ <<y, x>>[2] = x  BY <2>1
    <2> QED  BY <1>2, <1>3, <2>1, <2>2
  <1> QED  BY <1>4

\* A page that is followed by a row has a latest row.
LEMMA LatestOfPage ==
    ASSUME NEW page, page # {}, NEW at, NEW b \in Nat,
           \A a \in page : at[a] \in Nat /\ at[a] <= b
    PROVE  \E last \in page : \A a \in page : at[a] <= at[last]
  <1> DEFINE S == {b - at[a] : a \in page}
  <1>1. S \in SUBSET Nat /\ S # {}  OBVIOUS
  <1>2. PICK x \in S : \A y \in S : x <= y
    <2> HIDE DEF S
    <2> QED  BY <1>1, LeastOf
  <1>3. PICK last \in page : x = b - at[last]  BY <1>2
  <1>4. ASSUME NEW a \in page PROVE at[a] <= at[last]
    <2>1. b - at[last] <= b - at[a]  BY <1>2, <1>3
    <2> QED  BY <2>1
  <1> QED  BY <1>4

\* The rows of a tenant at an instant, and from one on those that are not on a page.
PinnedAt(t, i) == {id \in AnnIds : annotations[id].tenant = t /\ annotations[id].at = i}
LeftOut(t, from, page) == (UNION {PinnedAt(t, i) : i \in {j \in Instants : j >= from}}) \ page

\* A page and what it leaves out: it is of the tenant, and no later than what it leaves out.
LEMMA PageFacts ==
    ASSUME DataOK, NEW t, NEW from \in Instants, NEW limit \in 1 .. MaxListLimit,
           NEW page \in Listings(t, from, limit)
    PROVE  /\ \A id \in AnnIds : annotations[id].at \in Nat
           /\ from \in Nat /\ limit \in Nat /\ limit >= 1 /\ limit <= MaxListLimit /\ MaxListLimit \in Nat
           /\ page \subseteq AnnIds
           /\ \A a \in page : annotations[a].tenant = t /\ annotations[a].at >= from
           /\ \A out : \A c \in LeftOut(t, from, out) :
                c \in Matching(t, from) /\ c \in AnnIds /\ c \notin out
           /\ \A a \in page, c \in LeftOut(t, from, page) : annotations[a].at <= annotations[c].at
  <1>1. Instants \subseteq Nat /\ MaxListLimit \in Nat
    BY AnnotationsAssumption
  <1>2. ASSUME NEW id \in AnnIds PROVE annotations[id].at \in Nat
    <2>1. CASE annotations[id] = NoAnnotation
      BY <2>1 DEF NoAnnotation, NoInstant
    <2>2. CASE annotations[id] \in [tenant : Tenants, author : Users, at : Instants]
      BY <1>1, <2>2
    <2> QED  BY <2>1, <2>2 DEF DataOK
  <1>3. ASSUME NEW out, NEW c \in LeftOut(t, from, out)
        PROVE  c \in Matching(t, from) /\ c \in AnnIds /\ c \notin out
    <2>1. c \notin out
      BY DEF LeftOut
    <2>2. PICK S \in {PinnedAt(t, i) : i \in {j \in Instants : j >= from}} : c \in S
      BY DEF LeftOut
    <2>3. PICK i \in Instants : i >= from /\ S = PinnedAt(t, i)
      BY <2>2
    <2>4. c \in AnnIds /\ annotations[c].tenant = t /\ annotations[c].at >= from
      BY <2>2, <2>3 DEF PinnedAt
    <2> QED  BY <2>1, <2>4 DEF Matching
  <1>4. /\ page \subseteq AnnIds
        /\ \A a \in page : annotations[a].tenant = t /\ annotations[a].at >= from
    BY DEF Listings, Matching
  <1>5. \A a \in page, c \in LeftOut(t, from, page) : annotations[a].at <= annotations[c].at
    BY <1>3 DEF Listings
  <1> QED  BY <1>1, <1>2, <1>3, <1>4, <1>5

\* However the read of a page ends, what it leaves out comes after what it has.
LEMMA NoGap ==
    ASSUME DataOK, NEW t, NEW from \in Instants, NEW limit \in 1 .. MaxListLimit,
           NEW page \in Listings(t, from, limit), NEW read \in CutShort(page),
           NEW id \in LeftOut(t, from, read), NEW last \in read
    PROVE  annotations[id].at >= annotations[last].at
  <1>1. last \in page /\ read \subseteq page
    BY DEF CutShort
  <1>2. id \in AnnIds /\ annotations[id].at \in Nat /\ annotations[last].at \in Nat /\ id \notin read
    BY <1>1, PageFacts
  <1>3. CASE id \in page
    <2>1. annotations[last].at <= annotations[id].at
      BY <1>2, <1>3 DEF CutShort
    <2> QED  BY <1>2, <2>1
  <1>4. CASE id \notin page
    <2>1. id \in LeftOut(t, from, page)
      BY <1>4 DEF LeftOut
    <2>2. annotations[last].at <= annotations[id].at
      BY <1>1, <2>1, PageFacts
    <2> QED  BY <1>2, <2>2
  <1> QED  BY <1>3, <1>4

\* A page that was read to its end leads on.
LEMMA PageOK ==
    ASSUME DataOK, NEW t, NEW from \in Instants, NEW limit \in 1 .. MaxListLimit,
           NEW page \in Listings(t, from, limit), LeftOut(t, from, page) # {}
    PROVE  \E last \in page :
             annotations[last].at > from \/ Cardinality(PinnedAt(t, from)) >= limit
  <1> DEFINE Out == LeftOut(t, from, page)
             at  == [id \in AnnIds |-> annotations[id].at]
  <1>b. PICK b : b \in Out
    OBVIOUS
  <1>1. /\ \A id \in AnnIds : at[id] \in Nat /\ at[id] = annotations[id].at
        /\ from \in Nat /\ limit \in Nat /\ limit >= 1 /\ limit <= MaxListLimit /\ MaxListLimit \in Nat
    BY PageFacts
  <1>2. Limit(limit) = limit
    BY <1>1 DEF Limit
  <1>3. \A c \in Out : c \in Matching(t, from) /\ c \notin page
    BY PageFacts
  <1>4. /\ page \subseteq AnnIds
        /\ \A a \in page : annotations[a].tenant = t /\ at[a] >= from
        /\ \A a \in page, c \in Out : at[a] <= at[c]
    <2>1. \A c \in Out : c \in AnnIds
      BY PageFacts
    <2> QED  BY <2>1, PageFacts
  <1>5. Cardinality(page) = limit
    BY <1>b, <1>2, <1>3 DEF Listings
  <1>6. page # {}
    <2>1. Cardinality({}) = 0
      BY FS_EmptySet
    <2> QED  BY <1>1, <1>5, <2>1
  <1>7. b \in AnnIds
    BY <1>b, <1>3 DEF Matching
  <1>8. PICK last \in page : \A a \in page : at[a] <= at[last]
    <2>1. at[b] \in Nat /\ \A a \in page : at[a] \in Nat /\ at[a] <= at[b]
      BY <1>b, <1>1, <1>4, <1>7
    <2> HIDE DEF at
    <2> QED  BY <1>6, <2>1, LatestOfPage
  <1>10. ASSUME ~(annotations[last].at > from) PROVE Cardinality(PinnedAt(t, from)) >= limit
    <2>1. \A a \in page : at[a] = from
      BY <1>1, <1>4, <1>8, <1>10
    <2>2. page \subseteq PinnedAt(t, from)
      BY <1>1, <1>4, <2>1 DEF PinnedAt
    <2>3. IsFiniteSet(PinnedAt(t, from))
      <3>1. PinnedAt(t, from) \in SUBSET AnnIds /\ IsFiniteSet(AnnIds)
        BY AnnotationsAssumption DEF PinnedAt
      <3> QED  BY <3>1, FS_Subset
    <2>4. Cardinality(page) <= Cardinality(PinnedAt(t, from))
      BY <2>2, <2>3, FS_Subset
    <2>5. Cardinality(PinnedAt(t, from)) \in Nat
      BY <2>3, FS_CardinalityType
    <2> QED  BY <1>1, <1>5, <2>4, <2>5
  <1> QED  BY <1>10

\* A client that pages by the instant of the last row it got jumps over no annotation,
\* reads that fail on the way included, and gets on as long as they do not, for any number
\* of notes, instants and limits.
THEOREM PagingIsComplete == Spec => []PagingMissesNothing
  <1>1. ASSUME IInv PROVE PagingMissesNothing
    <2>1. DataOK
      BY <1>1 DEF IInv
    <2>2. SUFFICES ASSUME NEW t, NEW from \in Instants, NEW limit \in 1 .. MaxListLimit,
                          NEW page \in Listings(t, from, limit), NEW read \in CutShort(page)
          PROVE  /\ \A id \in LeftOut(t, from, read), last \in read :
                      annotations[id].at >= annotations[last].at
                 /\ read = page /\ LeftOut(t, from, read) # {} =>
                      \E last \in read :
                        annotations[last].at > from \/ Cardinality(PinnedAt(t, from)) >= limit
      BY DEF PagingMissesNothing, PinnedAt, LeftOut
    <2> QED  BY <2>1, NoGap, PageOK
  <1> QED  BY <1>1, Invariant, PTL
=============================================================================
