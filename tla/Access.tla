------------------------------- MODULE Access -------------------------------
(***************************************************************************)
(* Who may act: tokens (src/internal/auth/jwt.go), the authentication of   *)
(* HTTP requests (authMiddleware, lookupUser and the role checks of        *)
(* src/internal/api) and of WebSocket connections (src/internal/ws/hub.go).*)
(*                                                                         *)
(* A request reads the caller's row and the organization in two            *)
(* statements and then acts on what it read; a connection is checked once  *)
(* and lives until its read deadline, which every pong frame moves.        *)
(* Administrators change rows at any time (UserAdmin models how).          *)
(***************************************************************************)
EXTENDS Integers, FiniteSets

CONSTANTS
  Ids,        \* user ids; an id, and the subject made for it, is never reused
  Emails, EmailOf,   \* EmailOf[u]: a person deleted and invited again gets a new id
  Orgs, OrgOf,       \* OrgOf[u]: no operation moves a row to another organization
  Rights,            \* pairs of the columns role and can_export in use
  Needs,             \* what a route requires: "any", "admin", "export", "platform"
  Slots, Conns,      \* HTTP requests and WebSocket connections at the same time
  MaxTokens,         \* bound of the model: tokens that did not expire
  MaxFaults          \* bound of the model: failed statements

ASSUME DirectoryAssumption ==
  Ids # {} /\ EmailOf \in [Ids -> Emails] /\ OrgOf \in [Ids -> Orgs]
ASSUME RightsAssumption ==
  /\ Rights # {} /\ Needs # {}
  /\ Rights \subseteq [role : {"org_admin", "org_user", "platform_admin"}, canExport : BOOLEAN]
ASSUME BoundsAssumption == MaxTokens \in Nat /\ MaxFaults \in Nat

VARIABLES
  status,    \* status[u]: "unused", "active", "disabled", "deleted"
  rights,    \* rights[u]: columns role and can_export
  suspended, \* organizations whose status is not active
  tokens,    \* tokens that did not expire: the row's id and rights when minted
  req,       \* req[s]: the request in slot s
  conn,      \* conn[c]: the connection c; deadline: its read deadline, 60 s away, near or unset
  faults

vars == <<status, rights, suspended, tokens, req, conn, faults>>

Token == [uid : Ids, rights : Rights]
SomeToken == CHOOSE t \in Token : TRUE

\* held: at some moment of the request its token's own row had the right needed.
Idle == [step |-> "idle", token |-> SomeToken, need |-> CHOOSE n \in Needs : TRUE,
         p |-> SomeToken.rights, held |-> FALSE]
Unconnected == [step |-> "none", token |-> SomeToken, deadline |-> "none"]

Init ==
  /\ status \in [Ids -> {"unused", "active"}]
  /\ \A u, v \in Ids : status[u] = "active" /\ status[v] = "active" /\ EmailOf[u] = EmailOf[v]
                        => u = v
  /\ rights \in {r \in [Ids -> Rights] :
       \A u \in Ids : status[u] = "unused" => r[u] = SomeToken.rights}
  /\ suspended = {}
  /\ tokens = {}
  /\ req = [s \in Slots |-> Idle]
  /\ conn = [c \in Conns |-> Unconnected]
  /\ faults = 0

Stored(u) == status[u] \in {"active", "disabled"}

\* requireAdmin, requireCanExport, requirePlatformAdmin.
Grants(p, need) ==
  CASE need = "admin" -> p.role = "org_admin"
    [] need = "export" -> p.canExport
    [] need = "platform" -> p.role = "platform_admin"
    [] OTHER -> TRUE

\* In the rows st and rt, user u is active and has the right.
HasRight(st, rt, u, need) == st[u] = "active" /\ Grants(rt[u], need)

\* The rows become st and rt: running requests note what they can read from now on.
RowsBecome(st, rt) ==
  /\ status' = st
  /\ rights' = rt
  /\ req' = [s \in Slots |-> [req[s] EXCEPT !.held =
       req[s].step # "idle" /\ (@ \/ HasRight(st, rt, req[s].token.uid, req[s].need))]]

----------------------------------------------------------------------------
(* What administrators and operators do to the rows.                       *)

\* The unique index on lower(email).  Mutant: disabled rows do not count.
FreeOfActive(u) == \A v \in Ids : status[v] = "active" => EmailOf[v] # EmailOf[u]
EmailFree(u) == \A v \in Ids : Stored(v) => EmailOf[v] # EmailOf[u]

Invite(u, r) ==
  /\ status[u] = "unused"
  /\ EmailFree(u)
  /\ RowsBecome([status EXCEPT ![u] = "active"], [rights EXCEPT ![u] = r])
  /\ UNCHANGED <<suspended, tokens, conn, faults>>

\* UpdateUser writes each column with a statement of its own.
ChangeRights(u, r) ==
  /\ Stored(u) /\ rights[u] # r
  /\ rights[u].role = r.role \/ rights[u].canExport = r.canExport
  /\ RowsBecome(status, [rights EXCEPT ![u] = r])
  /\ UNCHANGED <<suspended, tokens, conn, faults>>

Disable(u) ==
  /\ status[u] = "active"
  /\ RowsBecome([status EXCEPT ![u] = "disabled"], rights)
  /\ UNCHANGED <<suspended, tokens, conn, faults>>

Enable(u) ==
  /\ status[u] = "disabled"
  /\ RowsBecome([status EXCEPT ![u] = "active"], rights)
  /\ UNCHANGED <<suspended, tokens, conn, faults>>

\* The row is gone, and its columns with it.
Delete(u) ==
  /\ Stored(u)
  /\ RowsBecome([status EXCEPT ![u] = "deleted"], [rights EXCEPT ![u] = SomeToken.rights])
  /\ UNCHANGED <<suspended, tokens, conn, faults>>

\* No handler writes organizations.status: an operator does, with SQL.
SuspendOrResume(o) ==
  /\ suspended' = IF o \in suspended THEN suspended \ {o} ELSE suspended \cup {o}
  /\ UNCHANGED <<status, rights, tokens, req, conn, faults>>

----------------------------------------------------------------------------
(* Tokens.                                                                 *)

\* devLogin: the row with this e-mail, if active; the organization is not asked.
\* The token carries what the row says now.
Login(u) ==
  /\ status[u] = "active"
  /\ Cardinality(tokens) < MaxTokens
  /\ tokens' = tokens \cup {[uid |-> u, rights |-> rights[u]]}
  /\ UNCHANGED <<status, rights, suspended, req, conn, faults>>

Expire(t) ==
  /\ t \in tokens
  /\ tokens' = tokens \ {t}
  /\ UNCHANGED <<status, rights, suspended, req, conn, faults>>

----------------------------------------------------------------------------
(* HTTP requests.                                                          *)

\* BearerToken and Parse: signature and expiry, no statement yet.
Arrive(s, t, need) ==
  /\ req[s] = Idle
  /\ t \in tokens
  /\ req' = [req EXCEPT ![s] = [step |-> "user", token |-> t, need |-> need, p |-> t.rights,
                                held |-> HasRight(status, rights, t.uid, need)]]
  /\ UNCHANGED <<status, rights, suspended, tokens, conn, faults>>

\* GetUserByID; its failure, whatever it is, leads to GetUserBySubject, and the
\* subject in the token is that of the same row.  Mutant: fall back on the e-mail.
FoundByEmail(t) == {u \in Ids : Stored(u) /\ EmailOf[u] = EmailOf[t.uid]}
Found(t) == {u \in Ids : Stored(u) /\ u = t.uid}

\* Mutant of Overlay: the token's rights are kept.
OverlayNothing(s, u) == req[s].p
Overlay(s, u) == rights[u]

\* lookupUser, then the checks on the row; p takes the row's role and can_export.
LookupUser(s) ==
  /\ req[s].step = "user"
  /\ \E u \in Found(req[s].token) :
       /\ status[u] = "active"
       /\ OrgOf[u] = OrgOf[req[s].token.uid]
       /\ req' = [req EXCEPT ![s].step = "org", ![s].p = Overlay(s, u)]
  /\ UNCHANGED <<status, rights, suspended, tokens, conn, faults>>

\* GetOrganization, then the role check of the route.
ReadOrganization(s) ==
  /\ req[s].step = "org"
  /\ OrgOf[req[s].token.uid] \notin suspended
  /\ Grants(req[s].p, req[s].need)
  /\ req' = [req EXCEPT ![s].step = "act"]
  /\ UNCHANGED <<status, rights, suspended, tokens, conn, faults>>

\* The handler is done, or a check of the two steps before answered 401 or 403.
Answer(s) ==
  /\ req[s] # Idle
  /\ req' = [req EXCEPT ![s] = Idle]
  /\ UNCHANGED <<status, rights, suspended, tokens, conn, faults>>

----------------------------------------------------------------------------
(* WebSocket connections.                                                  *)

Connect(c, t) ==
  /\ conn[c] = Unconnected
  /\ t \in tokens
  /\ conn' = [conn EXCEPT ![c] = [step |-> "user", token |-> t, deadline |-> "far"]]
  /\ UNCHANGED <<status, rights, suspended, tokens, req, faults>>

\* authenticate: the row, then the organization; from then on the connection gets
\* the readings of its organization and is not checked again.
CheckUser(c) ==
  /\ conn[c].step = "user"
  /\ \E u \in Found(conn[c].token) :
       status[u] = "active" /\ OrgOf[u] = OrgOf[conn[c].token.uid]
  /\ conn' = [conn EXCEPT ![c].step = "org"]
  /\ UNCHANGED <<status, rights, suspended, tokens, req, faults>>

\* Mutant of LiveDeadline: authentication takes the deadline away.
NoDeadline == "none"
LiveDeadline == "far"

\* readLoop sets a new deadline after authenticate; until then nothing is read,
\* so the one set before is not asked.
CheckOrganization(c) ==
  /\ conn[c].step = "org"
  /\ OrgOf[conn[c].token.uid] \notin suspended
  /\ conn' = [conn EXCEPT ![c].step = "live", ![c].deadline = LiveDeadline]
  /\ UNCHANGED <<status, rights, suspended, tokens, req, faults>>

\* Almost 60 seconds without a pong; other messages do not move the deadline.
TimePasses(c) ==
  /\ conn[c].step = "live" /\ conn[c].deadline = "far"
  /\ conn' = [conn EXCEPT ![c].deadline = "near"]
  /\ UNCHANGED <<status, rights, suspended, tokens, req, faults>>

\* The pong handler: the client sent a pong frame, whether or not anyone asked.
Pong(c) ==
  /\ conn[c].step = "live" /\ conn[c].deadline = "near"
  /\ conn' = [conn EXCEPT ![c].deadline = "far"]
  /\ UNCHANGED <<status, rights, suspended, tokens, req, faults>>

\* A check failed, the client left or sent what the hub closes for, or Timeout.
Disconnect(c) ==
  /\ conn[c].step # "none"
  /\ conn' = [conn EXCEPT ![c] = Unconnected]
  /\ UNCHANGED <<status, rights, suspended, tokens, req, faults>>

Timeout(c) == conn[c].deadline = "near" /\ Disconnect(c)

\* A statement of a request or connection fails.  GetUserByID alone may fail and
\* the fallback find the row: that is LookupUser again.
StatementFails ==
  /\ faults < MaxFaults
  /\ faults' = faults + 1
  /\ \/ \E s \in Slots :
          /\ req[s].step \in {"user", "org"}
          /\ req' = [req EXCEPT ![s] = Idle]
          /\ UNCHANGED conn
     \/ \E c \in Conns :
          /\ conn[c].step \in {"user", "org"}
          /\ conn' = [conn EXCEPT ![c] = Unconnected]
          /\ UNCHANGED req
  /\ UNCHANGED <<status, rights, suspended, tokens>>

Next ==
  \/ \E u \in Ids : \E r \in Rights : Invite(u, r) \/ ChangeRights(u, r)
  \/ \E u \in Ids : Disable(u) \/ Enable(u) \/ Delete(u) \/ Login(u)
  \/ \E o \in Orgs : SuspendOrResume(o)
  \/ \E t \in Token : Expire(t)
  \/ \E s \in Slots : \E t \in Token : \E n \in Needs : Arrive(s, t, n)
  \/ \E s \in Slots : LookupUser(s) \/ ReadOrganization(s) \/ Answer(s)
  \/ \E c \in Conns : \E t \in Token : Connect(c, t)
  \/ \E c \in Conns : CheckUser(c) \/ CheckOrganization(c) \/ TimePasses(c) \/ Pong(c) \/ Disconnect(c)
  \/ StatementFails

\* Time passes, and a read fails when its deadline did.  No client has to send pongs,
\* nor to leave, nor to stop sending them.
Fairness == \A c \in Conns : WF_vars(TimePasses(c)) /\ WF_vars(Timeout(c))

Spec == Init /\ [][Next]_vars /\ Fairness

----------------------------------------------------------------------------

TypeOK ==
  /\ status \in [Ids -> {"unused", "active", "disabled", "deleted"}]
  /\ rights \in [Ids -> Rights]
  /\ suspended \subseteq Orgs
  /\ tokens \subseteq Token
  /\ \A u, v \in Ids : Stored(u) /\ Stored(v) /\ EmailOf[u] = EmailOf[v] => u = v
  /\ req \in [Slots -> [step : {"idle", "user", "org", "act"}, token : Token, need : Needs,
                        p : Rights, held : BOOLEAN]]
  /\ conn \in [Conns -> [step : {"none", "user", "org", "live"}, token : Token,
                         deadline : {"none", "far", "near"}]]
  /\ faults \in 0..MaxFaults

\* A handler runs only if, at some moment while its request was served, the row
\* the token was minted for was active and had the right the route requires: a
\* right that only the token remembers, or that another row with the same e-mail
\* has, is not enough (authMiddleware overlays the row on the token).
ActsOnHeldRights == \A s \in Slots : req[s].step = "act" => req[s].held

LiveFor(u) == {c \in Conns : conn[c].step = "live" /\ conn[c].token.uid = u}

\* Once a user stays disabled or deleted, or its organization suspended, its
\* connections end for good, unless a client of it keeps sending pongs for ever: the
\* hub never checks a connection again, only the read deadline ends it.  (The hub
\* sends no pings, so a browser sends no pongs; another client may, unasked.  A user
\* disabled while the organization comes back may pass between the two checks.)
RevokedSessionsEnd ==
  \A u \in Ids :
    <>[](status[u] # "active") \/ <>[](OrgOf[u] \in suspended)
      => <>[](LiveFor(u) = {}) \/ []<><<\E c \in LiveFor(u) : Pong(c)>>_vars
=============================================================================
