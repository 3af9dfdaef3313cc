----------------------------- MODULE UserAdmin -----------------------------
(***************************************************************************)
(* Administration of the users of one organization over HTTP               *)
(* (src/internal/api/users.go behind authMiddleware and requireAdmin, with *)
(* the SQL statements of src/internal/repository/postgres.go).             *)
(*                                                                         *)
(* A request runs in a slot of the server.  No handler opens a             *)
(* transaction: every read and every statement is a step of its own, and   *)
(* requests of different slots interleave between them.  Any statement may *)
(* fail, which ends the request with an error and keeps what was written.  *)
(***************************************************************************)
EXTENDS Integers, FiniteSets

CONSTANTS
  Users,       \* user ids; an id is never used twice
  Seeded,      \* the administrators that exist at the start
  Requesters,  \* users whose rows export_jobs.requested_by references
  Slots,       \* HTTP requests the server works on at the same time
  UserLimit    \* organizations.user_limit

ASSUME UsersAssumption == IsFiniteSet(Users) /\ Seeded \subseteq Users /\ Seeded # {}
ASSUME SlotsAssumption == IsFiniteSet(Slots) /\ Slots # {}
ASSUME LimitAssumption == UserLimit \in Nat /\ Cardinality(Seeded) <= UserLimit

Roles == {"org_admin", "org_user"}
Statuses == {"active", "disabled"}
Keep == "keep"                      \* a field that the PATCH body leaves out

Row == [role : Roles, status : Statuses]
Unused == [role |-> "none", status |-> "unused"]
Deleted == [role |-> "none", status |-> "deleted"]

Patch == [role : Roles \cup {Keep}, status : Statuses \cup {Keep}]
NoPatch == [role |-> Keep, status |-> Keep]

Admin == [role |-> "org_admin", status |-> "active"]

VARIABLES
  users,   \* the rows of the organization in table users
  req,     \* req[s]: the request in slot s and how far it got
  raced    \* raced[s]: another request changed the set of active
           \* administrators since the request in s read its target

vars == <<users, req, raced>>

Present == {u \in Users : users[u] \in Row}
ActiveAdmins == {u \in Users : users[u] = Admin}

Steps == {"idle", "count", "insert", "read", "guard", "role", "status", "delete"}

\* actor and target are users; an idle slot names none.
Nobody == "nobody"
Idle == [step |-> "idle", op |-> "none", actor |-> Nobody, target |-> Nobody,
         patch |-> NoPatch]

Init ==
  /\ users = [u \in Users |-> IF u \in Seeded THEN Admin ELSE Unused]
  /\ req = [s \in Slots |-> Idle]
  /\ raced = [s \in Slots |-> FALSE]

----------------------------------------------------------------------------
Finish(s) == req' = [req EXCEPT ![s] = Idle]
GoTo(s, step) == req' = [req EXCEPT ![s].step = step]

\* After a statement of slot s: the others notice a changed set of active
\* administrators.
NoteRace(s) ==
  raced' = [t \in Slots |->
              req'[t] # Idle /\ (raced[t] \/ (t # s /\ ActiveAdmins' # ActiveAdmins))]

\* authMiddleware and requireAdmin: the caller's row says active administrator.
Admit(s, a, request) ==
  /\ req[s] = Idle
  /\ users[a] = Admin
  /\ req' = [req EXCEPT ![s] = request]
  /\ UNCHANGED <<users, raced>>

AdmitCreate(s, a) ==
  Admit(s, a, [step |-> "count", op |-> "create", actor |-> a, target |-> Nobody,
               patch |-> NoPatch])

AdmitPatch(s, a, t, p) ==
  Admit(s, a, [step |-> "read", op |-> "patch", actor |-> a, target |-> t,
               patch |-> p])

AdmitDelete(s, a, t) ==
  Admit(s, a, [step |-> "read", op |-> "delete", actor |-> a, target |-> t,
               patch |-> NoPatch])

----------------------------------------------------------------------------
(* POST /api/users                                                         *)

\* Mutant of LimitReached: the limit admits one user more.
LimitPassed == Cardinality(Present) > UserLimit
LimitReached == Cardinality(Present) >= UserLimit

CountUsers(s) ==
  /\ req[s].step = "count"
  /\ IF LimitReached THEN Finish(s) ELSE GoTo(s, "insert")
  /\ UNCHANGED <<users, raced>>

\* The e-mail address is free; a taken one ends in Fail.
CreateUser(s, u, role) ==
  /\ req[s].step = "insert"
  /\ users[u] = Unused
  /\ users' = [users EXCEPT ![u] = [role |-> role, status |-> "active"]]
  /\ Finish(s)
  /\ NoteRace(s)

----------------------------------------------------------------------------
(* PATCH and DELETE /api/users/{id}                                        *)

Demotes(p) == p.role \notin {Keep, "org_admin"}
Disables(p) == p.status \notin {Keep, "active"}

\* The request takes an active administrator away.
Removes(r) ==
  /\ users[r.target] = Admin
  /\ r.op = "delete" \/ Demotes(r.patch) \/ Disables(r.patch)

\* "cannot remove / disable / demote yourself"
HitsSelf(r) ==
  /\ r.actor = r.target
  /\ r.op = "delete" \/ Demotes(r.patch) \/ Disables(r.patch)

Proceed(s) ==
  IF HitsSelf(req[s])
    THEN Finish(s)
    ELSE GoTo(s, IF req[s].op = "delete" THEN "delete" ELSE "role")

ReadTarget(s) ==
  /\ req[s].step = "read"
  /\ IF req[s].target \notin Present THEN Finish(s)
     ELSE IF Removes(req[s]) THEN GoTo(s, "guard")
     ELSE Proceed(s)
  /\ raced' = [raced EXCEPT ![s] = FALSE]
  /\ UNCHANGED users

\* Mutant of LastAdminGuarded: administrators are counted whatever their status.
CountsDisabledAdmins ==
  Cardinality({u \in Present : users[u].role = "org_admin"}) <= 1
LastAdminGuarded == Cardinality(ActiveAdmins) <= 1

GuardLastAdmin(s) ==
  /\ req[s].step = "guard"
  /\ IF LastAdminGuarded THEN Finish(s) ELSE Proceed(s)
  /\ UNCHANGED <<users, raced>>

\* Mutant of SetField: the absence of the field is not checked.
SetAnyField(u, field, value) ==
  IF u \notin Present THEN UNCHANGED users
  ELSE users' = [users EXCEPT ![u] = [@ EXCEPT ![field] = value]]

\* UPDATE users SET <field>: no row, no effect.
SetField(u, field, value) ==
  IF value = Keep \/ u \notin Present THEN UNCHANGED users
  ELSE users' = [users EXCEPT ![u] = [@ EXCEPT ![field] = value]]

UpdateRole(s) ==
  /\ req[s].step = "role"
  /\ SetField(req[s].target, "role", req[s].patch.role)
  /\ GoTo(s, "status")
  /\ NoteRace(s)

UpdateStatus(s) ==
  /\ req[s].step = "status"
  /\ SetField(req[s].target, "status", req[s].patch.status)
  /\ Finish(s)
  /\ NoteRace(s)

DeleteUser(s) ==
  /\ req[s].step = "delete"
  /\ req[s].target \in Present \ Requesters
  /\ users' = [users EXCEPT ![req[s].target] = Deleted]
  /\ Finish(s)
  /\ NoteRace(s)

\* A statement fails (lost connection, ended context, duplicate e-mail, row gone,
\* row referenced by an export job): the request ends with an error.
Fail(s) ==
  /\ req[s] # Idle
  /\ Finish(s)
  /\ UNCHANGED <<users, raced>>

----------------------------------------------------------------------------
Next ==
  \E s \in Slots :
    \/ \E a \in Users : AdmitCreate(s, a)
    \/ \E a, t \in Users, p \in Patch : AdmitPatch(s, a, t, p)
    \/ \E a, t \in Users : AdmitDelete(s, a, t)
    \/ CountUsers(s)
    \/ \E u \in Users, role \in Roles : CreateUser(s, u, role)
    \/ ReadTarget(s)
    \/ GuardLastAdmin(s)
    \/ UpdateRole(s)
    \/ UpdateStatus(s)
    \/ DeleteUser(s)
    \/ Fail(s)

Spec == Init /\ [][Next]_vars

----------------------------------------------------------------------------
(* Properties.                                                             *)

Request == [step : Steps, op : {"none", "create", "patch", "delete"},
            actor : Users \cup {Nobody}, target : Users \cup {Nobody}, patch : Patch]

\* Types; a request past its target read has a target.
TypeOK ==
  /\ users \in [Users -> Row \cup {Unused, Deleted}]
  /\ req \in [Slots -> Request]
  /\ raced \in [Slots -> BOOLEAN]
  /\ \A s \in Slots :
       req[s].step \notin {"idle", "count", "insert"} => req[s].target \in Users

Inserting == {s \in Slots : req[s].step = "insert"}

\* How far user_limit can be missed: every request between its count and its
\* INSERT may add one user above the limit, and no more than that.
OvershootBounded ==
  Cardinality(Present) + Cardinality(Inserting) < UserLimit + Cardinality(Slots)

\* "The org user_limit is enforced."  The code violates it when two requests count
\* before either inserts.
UserLimitEnforced == Cardinality(Present) <= UserLimit

\* "cannot remove or demote the last admin".  The code violates it when two
\* administrators are counted before either is removed.
LastAdminStays == ActiveAdmins # {}

\* A PATCH that promotes and disables: its two UPDATE statements make the target
\* an active administrator for a moment.
PromotesThenDisables(r) == r.patch = [role |-> "org_admin", status |-> "disabled"]

\* The guard works unless requests race: the last active administrator goes only
\* in a request that another one overtook since it read its target: one that
\* removed, demoted or disabled an administrator counted by the guard, or one
\* that promoted the target after the guard was found unnecessary.  The one
\* exception is an administrator that the request itself made a moment ago.
LastAdminGoesByRace ==
  [][ActiveAdmins # {} /\ ActiveAdmins' = {} =>
       \E s \in Slots : /\ req'[s] # req[s]
                        /\ raced[s] \/ PromotesThenDisables(req[s])]_vars
=============================================================================
