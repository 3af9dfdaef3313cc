-------------------------- MODULE UserAdminProofs --------------------------
(* Theorems about user administration, for every set of users, of requests  *)
(* at the same time, and every limit.                                       *)
EXTENDS UserAdmin, FiniteSetTheorems, TLAPS

----------------------------------------------------------------------------
(* Type correctness.                                                       *)

\* The rows and requests of the model are of their types.
LEMMA ConstantTypes ==
  /\ Admin \in Row /\ Unused \notin Row /\ Deleted \notin Row
  /\ Idle \in Request /\ Idle.step = "idle" /\ NoPatch \in Patch
BY DEF Admin, Row, Unused, Deleted, Idle, Request, NoPatch, Patch, Roles, Statuses, Steps,
   Keep, Nobody

\* The organization starts with its administrators and no request.
LEMMA InitTypeOK == Init => TypeOK
BY ConstantTypes DEF Init, TypeOK

\* A request that goes on is the same request one step later.
LEMMA GoToTypes ==
  ASSUME TypeOK, NEW s \in Slots, NEW step \in Steps, GoTo(s, step),
         step \notin {"idle", "count", "insert"} => req[s].target \in Users
  PROVE  /\ req' \in [Slots -> Request]
         /\ \A t \in Slots : req'[t].step \notin {"idle", "count", "insert"} =>
              req'[t].target \in Users
         /\ req'[s] = [req[s] EXCEPT !.step = step]
         /\ \A t \in Slots \ {s} : req'[t] = req[t]
BY DEF TypeOK, GoTo, Request

\* A request that ends leaves its slot idle and the others alone.
LEMMA FinishTypes ==
  ASSUME TypeOK, NEW s \in Slots, Finish(s)
  PROVE  /\ req' \in [Slots -> Request]
         /\ \A t \in Slots : req'[t].step \notin {"idle", "count", "insert"} =>
              req'[t].target \in Users
         /\ req'[s] = Idle
         /\ \A t \in Slots \ {s} : req'[t] = req[t]
BY ConstantTypes DEF TypeOK, Finish

\* An UPDATE leaves rows that are rows, and touches no other user.
LEMMA SetFieldTypes ==
  ASSUME TypeOK, NEW u \in Users,
         \/ \E value \in Roles \cup {Keep} : SetField(u, "role", value)
         \/ \E value \in Statuses \cup {Keep} : SetField(u, "status", value)
  PROVE  /\ users' \in [Users -> Row \cup {Unused, Deleted}]
         /\ Present' = Present
         /\ \A v \in Users \ {u} : users'[v] = users[v]
<1>1. CASE UNCHANGED users
  BY <1>1 DEF TypeOK, Present
<1>2. CASE u \in Present /\ \E value \in Roles : users' = [users EXCEPT ![u].role = value]
  BY <1>2 DEF TypeOK, Present, Row
<1>3. CASE u \in Present /\ \E value \in Statuses : users' = [users EXCEPT ![u].status = value]
  BY <1>3 DEF TypeOK, Present, Row
<1> QED
  BY <1>1, <1>2, <1>3 DEF SetField

\* NoteRace keeps the flags Boolean.
LEMMA NoteRaceTypes ==
  ASSUME NEW s \in Slots, NoteRace(s)
  PROVE  raced' \in [Slots -> BOOLEAN]
BY DEF NoteRace

\* Every step of a request keeps the types.
LEMMA StepTypeOK == TypeOK /\ [Next]_vars => TypeOK'
<1> SUFFICES ASSUME TypeOK, [Next]_vars PROVE TypeOK'
  OBVIOUS
<1> DEFINE ReqOK == /\ req' \in [Slots -> Request]
                    /\ \A t \in Slots : req'[t].step \notin {"idle", "count", "insert"} =>
                         req'[t].target \in Users
<1>0. /\ users \in [Users -> Row \cup {Unused, Deleted}]
      /\ req \in [Slots -> Request] /\ raced \in [Slots -> BOOLEAN]
      /\ \A t \in Slots : req[t].step \notin {"idle", "count", "insert"} =>
           req[t].target \in Users
  BY DEF TypeOK
<1>1. CASE UNCHANGED vars
  BY <1>0, <1>1 DEF TypeOK, vars
<1>2. ASSUME NEW s \in Slots, NEW request \in Request, NEW a \in Users,
             Admit(s, a, request),
             request.step \notin {"idle", "count", "insert"} => request.target \in Users
      PROVE  TypeOK'
  BY <1>0, <1>2 DEF Admit, TypeOK
<1>3. ASSUME NEW s \in Slots, NEW a \in Users, AdmitCreate(s, a) PROVE TypeOK'
  <2>1. [step |-> "count", op |-> "create", actor |-> a, target |-> Nobody,
         patch |-> NoPatch] \in Request
    BY ConstantTypes DEF Request, Steps
  <2> QED
    BY <1>2, <1>3, <2>1 DEF AdmitCreate
<1>4. ASSUME NEW s \in Slots, NEW a \in Users, NEW t \in Users, NEW p \in Patch,
             AdmitPatch(s, a, t, p)
      PROVE  TypeOK'
  <2>1. [step |-> "read", op |-> "patch", actor |-> a, target |-> t, patch |-> p] \in Request
    BY DEF Request, Steps
  <2> QED
    BY <1>2, <1>4, <2>1 DEF AdmitPatch
<1>5. ASSUME NEW s \in Slots, NEW a \in Users, NEW t \in Users, AdmitDelete(s, a, t)
      PROVE  TypeOK'
  <2>1. [step |-> "read", op |-> "delete", actor |-> a, target |-> t,
         patch |-> NoPatch] \in Request
    BY ConstantTypes DEF Request, Steps
  <2> QED
    BY <1>2, <1>5, <2>1 DEF AdmitDelete
<1>6. ASSUME NEW s \in Slots, CountUsers(s) PROVE TypeOK'
  <2>1. ReqOK
    BY <1>6, FinishTypes, GoToTypes DEF CountUsers, Steps
  <2> QED
    BY <1>0, <1>6, <2>1 DEF CountUsers, TypeOK
<1>7. ASSUME NEW s \in Slots, NEW u \in Users, NEW role \in Roles, CreateUser(s, u, role)
      PROVE  TypeOK'
  <2>1. ReqOK /\ raced' \in [Slots -> BOOLEAN]
    BY <1>7, FinishTypes, NoteRaceTypes DEF CreateUser
  <2>2. [role |-> role, status |-> "active"] \in Row
    BY DEF Row, Statuses
  <2> QED
    BY <1>0, <1>7, <2>1, <2>2 DEF CreateUser, TypeOK
<1>8. ASSUME NEW s \in Slots, ReadTarget(s) PROVE TypeOK'
  <2>1. req[s].target \in Users
    BY <1>0, <1>8 DEF ReadTarget
  <2>2. ReqOK
    BY <1>8, <2>1, FinishTypes, GoToTypes DEF ReadTarget, Proceed, Steps
  <2> QED
    BY <1>0, <1>8, <2>2 DEF ReadTarget, TypeOK
<1>9. ASSUME NEW s \in Slots, GuardLastAdmin(s) PROVE TypeOK'
  <2>1. req[s].target \in Users
    BY <1>0, <1>9 DEF GuardLastAdmin
  <2>2. ReqOK
    BY <1>9, <2>1, FinishTypes, GoToTypes DEF GuardLastAdmin, Proceed, Steps
  <2> QED
    BY <1>0, <1>9, <2>2 DEF GuardLastAdmin, TypeOK
<1>10. ASSUME NEW s \in Slots, UpdateRole(s) \/ UpdateStatus(s) PROVE TypeOK'
  <2>1. /\ req[s].target \in Users
        /\ req[s].patch.role \in Roles \cup {Keep}
        /\ req[s].patch.status \in Statuses \cup {Keep}
    BY <1>0, <1>10 DEF UpdateRole, UpdateStatus, Request, Patch
  <2>2. users' \in [Users -> Row \cup {Unused, Deleted}]
    BY <1>10, <2>1, SetFieldTypes DEF UpdateRole, UpdateStatus
  <2>3. ReqOK
    BY <1>10, <2>1, FinishTypes, GoToTypes DEF UpdateRole, UpdateStatus, Steps
  <2>4. raced' \in [Slots -> BOOLEAN]
    BY <1>10, NoteRaceTypes DEF UpdateRole, UpdateStatus
  <2> QED
    BY <2>2, <2>3, <2>4 DEF TypeOK
<1>11. ASSUME NEW s \in Slots, DeleteUser(s) PROVE TypeOK'
  <2>1. ReqOK /\ raced' \in [Slots -> BOOLEAN]
    BY <1>11, FinishTypes, NoteRaceTypes DEF DeleteUser
  <2> QED
    BY <1>0, <1>11, <2>1 DEF DeleteUser, TypeOK
<1>12. ASSUME NEW s \in Slots, Fail(s) PROVE TypeOK'
  <2>1. ReqOK
    BY <1>12, FinishTypes DEF Fail
  <2> QED
    BY <1>0, <1>12, <2>1 DEF Fail, TypeOK
<1> QED
  BY <1>1, <1>3, <1>4, <1>5, <1>6, <1>7, <1>8, <1>9, <1>10, <1>11, <1>12 DEF Next

\* The state has the declared types in every execution; a request past the read
\* of its target names a user.
THEOREM TypeCorrect == Spec => []TypeOK
BY InitTypeOK, StepTypeOK, PTL DEF Spec

----------------------------------------------------------------------------
(* The limit of users.                                                     *)

\* Rows and requests are finitely many.
LEMMA Finite ==
  /\ IsFiniteSet(Present) /\ Cardinality(Present) \in Nat
  /\ IsFiniteSet(Inserting) /\ Cardinality(Inserting) \in Nat
  /\ Cardinality(Slots) \in Nat /\ Cardinality(Inserting) <= Cardinality(Slots)
<1>1. Present \subseteq Users /\ Inserting \subseteq Slots
  BY DEF Present, Inserting
<1>2. IsFiniteSet(Present) /\ IsFiniteSet(Inserting)
  BY <1>1, UsersAssumption, SlotsAssumption, FS_Subset
<1> QED
  BY <1>1, <1>2, SlotsAssumption, FS_Subset, FS_CardinalityType

\* At the start the seeded administrators are within the limit.
LEMMA InitOvershoot == Init => OvershootBounded
<1> SUFFICES ASSUME Init PROVE OvershootBounded
  OBVIOUS
<1>1. Present = Seeded /\ Inserting = {}
  BY ConstantTypes, UsersAssumption DEF Init, Present, Inserting
<1>2. Cardinality(Inserting) = 0
  BY <1>1, FS_EmptySet
<1>3. Cardinality(Slots) # 0
  BY SlotsAssumption, FS_EmptySet
<1> QED
  BY <1>1, <1>2, <1>3, Finite, LimitAssumption DEF OvershootBounded

\* No step takes the users further above the limit than the requests that have
\* counted and not yet inserted account for.
LEMMA StepOvershoot == TypeOK /\ OvershootBounded /\ [Next]_vars => OvershootBounded'
<1> SUFFICES ASSUME TypeOK, OvershootBounded, [Next]_vars PROVE OvershootBounded'
  OBVIOUS
<1>0. /\ Cardinality(Present)' \in Nat /\ Cardinality(Inserting)' \in Nat
      /\ IsFiniteSet(Present)' /\ IsFiniteSet(Inserting)'
  <2>1. Present' \subseteq Users /\ Inserting' \subseteq Slots
    BY DEF Present, Inserting
  <2>2. IsFiniteSet(Present') /\ IsFiniteSet(Inserting')
    BY <2>1, UsersAssumption, SlotsAssumption, FS_Subset
  <2> QED
    BY <2>2, FS_CardinalityType
<1>1. CASE Present' \subseteq Present /\ Inserting' \subseteq Inserting
  <2>1. /\ Cardinality(Present') <= Cardinality(Present)
        /\ Cardinality(Inserting') <= Cardinality(Inserting)
    BY <1>1, Finite, FS_Subset
  <2> QED
    BY <1>0, <2>1, Finite, LimitAssumption DEF OvershootBounded
<1>2. CASE UNCHANGED vars
  BY <1>1, <1>2 DEF vars, Present, Inserting
<1>3. ASSUME NEW s \in Slots, NEW a \in Users, NEW request,
             Admit(s, a, request), request.step \in {"count", "read"}
      PROVE  OvershootBounded'
  BY <1>1, <1>3 DEF Admit, Present, Inserting, TypeOK
<1>4. ASSUME NEW s \in Slots,
             \/ \E a \in Users : AdmitCreate(s, a)
             \/ \E a, t \in Users, p \in Patch : AdmitPatch(s, a, t, p)
             \/ \E a, t \in Users : AdmitDelete(s, a, t)
      PROVE  OvershootBounded'
  BY <1>3, <1>4 DEF AdmitCreate, AdmitPatch, AdmitDelete
<1>5. ASSUME NEW s \in Slots, Finish(s), Present' \subseteq Present PROVE OvershootBounded'
  <2>1. Inserting' \subseteq Inserting
    BY <1>5, FinishTypes, ConstantTypes DEF Inserting
  <2> QED
    BY <1>1, <1>5, <2>1
<1>6. ASSUME NEW s \in Slots, NEW step \in {"guard", "role", "status", "delete"},
             GoTo(s, step), Present' \subseteq Present
      PROVE  OvershootBounded'
  <2>1. Inserting' \subseteq Inserting
    BY <1>6 DEF Inserting, GoTo, TypeOK, Request
  <2> QED
    BY <1>1, <1>6, <2>1
<1>7. ASSUME NEW s \in Slots, CountUsers(s) PROVE OvershootBounded'
  <2>1. Present' = Present
    BY <1>7 DEF CountUsers, Present
  <2>2. CASE ~LimitReached
    <3>1. Inserting' = Inserting \cup {s} /\ s \notin Inserting
      BY <1>7, <2>2 DEF CountUsers, Inserting, GoTo, TypeOK, Request
    <3>2. Cardinality(Inserting') = Cardinality(Inserting) + 1
      BY <3>1, Finite, FS_AddElement
    <3>3. Cardinality(Inserting') <= Cardinality(Slots)
      BY <3>1, SlotsAssumption, FS_Subset DEF Inserting
    <3> QED
      BY <1>0, <2>1, <2>2, <3>2, <3>3, Finite, LimitAssumption
         DEF OvershootBounded, LimitReached
  <2>3. CASE LimitReached
    BY <1>5, <1>7, <2>1, <2>3 DEF CountUsers
  <2> QED
    BY <2>2, <2>3
<1>8. ASSUME NEW s \in Slots, NEW u \in Users, NEW role \in Roles, CreateUser(s, u, role)
      PROVE  OvershootBounded'
  <2>1. Present' = Present \cup {u} /\ u \notin Present
    <3>1. [role |-> role, status |-> "active"] \in Row /\ Unused \notin Row
      BY ConstantTypes DEF Row, Statuses
    <3> QED
      BY <1>8, <3>1 DEF CreateUser, Present, TypeOK
  <2>2. Inserting' = Inserting \ {s} /\ s \in Inserting
    BY <1>8, FinishTypes, ConstantTypes DEF CreateUser, Inserting
  <2>3. Cardinality(Present') = Cardinality(Present) + 1
    BY <2>1, Finite, FS_AddElement
  <2>4. Cardinality(Inserting') = Cardinality(Inserting) - 1
    BY <2>2, Finite, FS_RemoveElement
  <2> QED
    BY <1>0, <2>3, <2>4, Finite, LimitAssumption DEF OvershootBounded
<1>9. ASSUME NEW s \in Slots, ReadTarget(s) \/ GuardLastAdmin(s) PROVE OvershootBounded'
  <2>1. Present' = Present
    BY <1>9 DEF ReadTarget, GuardLastAdmin, Present
  <2> QED
    BY <1>5, <1>6, <1>9, <2>1 DEF ReadTarget, GuardLastAdmin, Proceed
<1>10. ASSUME NEW s \in Slots, UpdateRole(s) \/ UpdateStatus(s) PROVE OvershootBounded'
  <2>1. /\ req[s].target \in Users
        /\ req[s].patch.role \in Roles \cup {Keep}
        /\ req[s].patch.status \in Statuses \cup {Keep}
    BY <1>10 DEF UpdateRole, UpdateStatus, TypeOK, Request, Patch
  <2>2. Present' = Present
    BY <1>10, <2>1, SetFieldTypes DEF UpdateRole, UpdateStatus
  <2> QED
    BY <1>5, <1>6, <1>10, <2>2 DEF UpdateRole, UpdateStatus
<1>11. ASSUME NEW s \in Slots, DeleteUser(s) \/ Fail(s) PROVE OvershootBounded'
  <2>1. Present' \subseteq Present
    BY <1>11, ConstantTypes DEF DeleteUser, Fail, Present, TypeOK
  <2> QED
    BY <1>5, <1>11, <2>1 DEF DeleteUser, Fail
<1> QED
  BY <1>2, <1>4, <1>7, <1>8, <1>9, <1>10, <1>11 DEF Next

\* In every execution user_limit is missed by less than the number of requests
\* that the server works on at the same time.
THEOREM OvershootBoundedHolds == Spec => []OvershootBounded
<1>1. TypeOK /\ OvershootBounded /\ [Next]_vars => TypeOK' /\ OvershootBounded'
  BY StepTypeOK, StepOvershoot
<1> QED
  BY <1>1, InitTypeOK, InitOvershoot, PTL DEF Spec

----------------------------------------------------------------------------
(* The last administrator.                                                 *)

Several == \E a, b \in ActiveAdmins : a # b

\* A request that no other overtook since it read its target, and that is about to
\* take an active administrator away, leaves another one: the guard counted more
\* than one, or the target was not one and no other request has made it one.
GuardHolds(s) ==
  /\ req[s].step = "delete" => users[req[s].target] # Admin \/ Several
  /\ req[s].step = "role" => ~Removes(req[s]) \/ Several
  /\ req[s].step = "status" /\ ~PromotesThenDisables(req[s]) =>
       users[req[s].target] # Admin \/ ~Disables(req[s].patch) \/ Several

RaceInv == \A s \in Slots : ~raced[s] => GuardHolds(s)

\* More than one active administrator: two of them.
LEMMA GuardPassed == ~LastAdminGuarded => Several
<1> SUFFICES ASSUME ~LastAdminGuarded, ~Several PROVE FALSE
  OBVIOUS
<1>1. IsFiniteSet(ActiveAdmins)
  BY UsersAssumption, FS_Subset DEF ActiveAdmins
<1>2. CASE ActiveAdmins = {}
  BY <1>2, FS_EmptySet DEF LastAdminGuarded
<1>3. ASSUME NEW a \in ActiveAdmins PROVE FALSE
  <2>1. ActiveAdmins = {a}
    BY <1>3 DEF Several
  <2> QED
    BY <2>1, FS_Singleton DEF LastAdminGuarded
<1> QED
  BY <1>2, <1>3

\* At the start no request runs.
LEMMA InitRaceInv == Init => RaceInv
BY DEF Init, RaceInv, GuardHolds, Idle

\* Who did not take part in a step, and was not overtaken by it, keeps its guard.
LEMMA OthersKeepGuard ==
  ASSUME TypeOK, RaceInv, NEW s \in Slots, NEW t \in Slots, t # s,
         req'[t] = req[t], ~raced'[t],
         req[t] # Idle => (~raced'[t] => ~raced[t] /\ ActiveAdmins' = ActiveAdmins)
  PROVE  GuardHolds(t)'
<1>1. CASE req[t] = Idle
  BY <1>1 DEF GuardHolds, Idle
<1>2. CASE req[t] # Idle
  <2>1. GuardHolds(t) /\ ActiveAdmins' = ActiveAdmins
    BY <1>2 DEF RaceInv
  <2>2. Several' <=> Several
    BY <2>1 DEF Several
  <2>3. req[t].step \in {"delete", "role", "status"} =>
          (users'[req[t].target] = Admin <=> users[req[t].target] = Admin)
    BY <2>1 DEF ActiveAdmins, TypeOK
  <2> QED
    BY <2>1, <2>2, <2>3 DEF GuardHolds, Removes
<1> QED
  BY <1>1, <1>2

\* What NoteRace tells of the other requests, and of the request itself.
LEMMA NoteRaceEffects ==
  ASSUME NEW s \in Slots, NoteRace(s)
  PROVE  /\ \A t \in Slots : t # s /\ req'[t] # Idle /\ ~raced'[t] =>
              ~raced[t] /\ ActiveAdmins' = ActiveAdmins
         /\ req'[s] # Idle /\ ~raced'[s] => ~raced[s]
BY DEF NoteRace

\* The guard holds after every step.
LEMMA StepRaceInv == TypeOK /\ RaceInv /\ [Next]_vars => RaceInv'
<1> SUFFICES ASSUME TypeOK, RaceInv, [Next]_vars PROVE RaceInv'
  OBVIOUS
<1>1. CASE UNCHANGED vars
  BY <1>1 DEF vars, RaceInv, GuardHolds, Several, ActiveAdmins, Removes
<1>2. ASSUME NEW s \in Slots, GuardHolds(s)',
             \A t \in Slots \ {s} :
               /\ req'[t] = req[t]
               /\ req[t] # Idle => (~raced'[t] => ~raced[t] /\ ActiveAdmins' = ActiveAdmins)
      PROVE  RaceInv'
  BY <1>2, OthersKeepGuard DEF RaceInv
<1>3. ASSUME NEW s \in Slots, GuardHolds(s)', UNCHANGED users,
             \A t \in Slots \ {s} : req'[t] = req[t] /\ raced'[t] = raced[t]
      PROVE  RaceInv'
  BY <1>2, <1>3 DEF ActiveAdmins
<1>4. ASSUME NEW s \in Slots, req'[s].step \notin {"delete", "role", "status"}
      PROVE  GuardHolds(s)'
  BY <1>4 DEF GuardHolds
<1>5. ASSUME NEW s \in Slots,
             \/ \E a \in Users : AdmitCreate(s, a)
             \/ \E a, t \in Users, p \in Patch : AdmitPatch(s, a, t, p)
             \/ \E a, t \in Users : AdmitDelete(s, a, t)
             \/ CountUsers(s) \/ Fail(s)
      PROVE  RaceInv'
  <2>1. UNCHANGED <<users, raced>> /\ \A t \in Slots \ {s} : req'[t] = req[t]
    BY <1>5 DEF AdmitCreate, AdmitPatch, AdmitDelete, Admit, CountUsers, Fail, Finish,
       GoTo, TypeOK
  <2>2. req'[s].step \notin {"delete", "role", "status"}
    BY <1>5 DEF AdmitCreate, AdmitPatch, AdmitDelete, Admit, CountUsers, Fail, Finish,
       GoTo, Idle, TypeOK, Request
  <2> QED
    BY <1>3, <1>4, <2>1, <2>2
<1>6. ASSUME NEW s \in Slots, NEW u \in Users, NEW role \in Roles, CreateUser(s, u, role)
      PROVE  RaceInv'
  <2>1. req'[s].step = "idle" /\ \A t \in Slots \ {s} : req'[t] = req[t]
    BY <1>6, FinishTypes, ConstantTypes DEF CreateUser
  <2>2. NoteRace(s)
    BY <1>6 DEF CreateUser
  <2> QED
    BY <1>2, <1>4, <2>1, <2>2, NoteRaceEffects
<1>7. ASSUME NEW s \in Slots, ReadTarget(s) PROVE RaceInv'
  <2>1. /\ UNCHANGED users /\ req[s].target \in Users
        /\ \A t \in Slots \ {s} : raced'[t] = raced[t]
    BY <1>7 DEF ReadTarget, TypeOK
  <2>2. CASE Finish(s)
    BY <1>3, <1>4, <2>1, <2>2, FinishTypes, ConstantTypes
  <2>3. CASE GoTo(s, "guard")
    <3>1. req'[s].step = "guard" /\ \A t \in Slots \ {s} : req'[t] = req[t]
      BY <2>1, <2>3, GoToTypes DEF Steps, TypeOK, Request
    <3> QED
      BY <1>3, <1>4, <2>1, <3>1
  <2>4. CASE ~Removes(req[s])
             /\ GoTo(s, IF req[s].op = "delete" THEN "delete" ELSE "role")
    <3>1. /\ \A t \in Slots \ {s} : req'[t] = req[t]
          /\ req'[s] = [req[s] EXCEPT !.step = IF req[s].op = "delete" THEN "delete"
                                                                       ELSE "role"]
      BY <2>1, <2>4, GoToTypes DEF Steps
    <3>2. /\ req'[s].op = req[s].op /\ req'[s].target = req[s].target
          /\ req'[s].patch = req[s].patch
          /\ req'[s].step = IF req[s].op = "delete" THEN "delete" ELSE "role"
      BY <3>1 DEF TypeOK, Request
    <3>3. GuardHolds(s)'
      BY <2>1, <2>4, <3>2 DEF GuardHolds, Removes
    <3> QED
      BY <1>3, <2>1, <3>1, <3>3
  <2> QED
    BY <1>7, <2>2, <2>3, <2>4 DEF ReadTarget, Proceed
<1>8. ASSUME NEW s \in Slots, GuardLastAdmin(s) PROVE RaceInv'
  <2>1. UNCHANGED <<users, raced>> /\ req[s].target \in Users
    BY <1>8 DEF GuardLastAdmin, TypeOK
  <2>2. CASE Finish(s)
    BY <1>3, <1>4, <2>1, <2>2, FinishTypes, ConstantTypes
  <2>3. CASE ~LastAdminGuarded
             /\ GoTo(s, IF req[s].op = "delete" THEN "delete" ELSE "role")
    <3>1. /\ \A t \in Slots \ {s} : req'[t] = req[t]
          /\ req'[s] = [req[s] EXCEPT !.step = IF req[s].op = "delete" THEN "delete"
                                                                       ELSE "role"]
      BY <2>1, <2>3, GoToTypes DEF Steps
    <3>2. Several'
      BY <2>1, <2>3, GuardPassed DEF Several, ActiveAdmins
    <3>3. req'[s].step \in {"delete", "role"}
      BY <3>1 DEF TypeOK, Request
    <3>4. GuardHolds(s)'
      BY <3>2, <3>3 DEF GuardHolds
    <3> QED
      BY <1>3, <2>1, <3>1, <3>4
  <2> QED
    BY <1>8, <2>2, <2>3 DEF GuardLastAdmin, Proceed
<1>9. ASSUME NEW s \in Slots, UpdateRole(s) PROVE RaceInv'
  <2>1. /\ req[s].step = "role" /\ req[s].target \in Users
        /\ req[s].patch.role \in Roles \cup {Keep}
        /\ SetField(req[s].target, "role", req[s].patch.role)
        /\ GoTo(s, "status") /\ NoteRace(s)
    BY <1>9 DEF UpdateRole, TypeOK, Request, Patch
  <2>2. /\ \A t \in Slots \ {s} : req'[t] = req[t]
        /\ req'[s] = [req[s] EXCEPT !.step = "status"]
    BY <2>1, GoToTypes DEF Steps
  <2>3. /\ req'[s].target = req[s].target /\ req'[s].patch = req[s].patch
        /\ req'[s].step = "status" /\ req'[s] # Idle
    BY <2>2 DEF TypeOK, Request, Idle
  <2>4. ASSUME ~raced'[s] PROVE GuardHolds(s)'
    <3>1. ~raced[s]
      BY <2>1, <2>3, <2>4, NoteRaceEffects
    <3>2. ~Removes(req[s]) \/ Several
      BY <2>1, <3>1 DEF RaceInv, GuardHolds
    <3> SUFFICES ASSUME ~PromotesThenDisables(req[s]), users'[req[s].target] = Admin,
                        Disables(req[s].patch)
                 PROVE  Several'
      BY <2>3 DEF GuardHolds, PromotesThenDisables
    <3>3. req[s].patch.status = "disabled"
      BY DEF Disables, TypeOK, Request, Patch, Statuses, Keep
    <3>4. req[s].patch.role # "org_admin"
      BY <3>3 DEF PromotesThenDisables, TypeOK, Request, Patch
    <3>5. users' = users
      <4>1. CASE req[s].patch.role = Keep
        BY <2>1, <4>1 DEF SetField
      <4>2. CASE req[s].patch.role = "org_user"
        BY <2>1, <4>2 DEF SetField, Present, TypeOK, Admin, Row
      <4> QED
        BY <2>1, <3>4, <4>1, <4>2 DEF Roles
    <3>6. Removes(req[s])
      BY <3>5 DEF Removes
    <3> QED
      BY <3>2, <3>5, <3>6 DEF Several, ActiveAdmins
  <2>5. \A t \in Slots \ {s} :
          req[t] # Idle => (~raced'[t] => ~raced[t] /\ ActiveAdmins' = ActiveAdmins)
    BY <2>1, <2>2, NoteRaceEffects
  <2> QED
    BY <2>2, <2>4, <2>5, OthersKeepGuard DEF RaceInv
<1>10. ASSUME NEW s \in Slots, UpdateStatus(s) \/ DeleteUser(s) PROVE RaceInv'
  <2>1. Finish(s) /\ NoteRace(s)
    BY <1>10 DEF UpdateStatus, DeleteUser
  <2>2. req'[s].step = "idle" /\ \A t \in Slots \ {s} : req'[t] = req[t]
    BY <2>1, FinishTypes, ConstantTypes
  <2> QED
    BY <1>2, <1>4, <2>1, <2>2, NoteRaceEffects
<1> QED
  BY <1>1, <1>5, <1>6, <1>7, <1>8, <1>9, <1>10 DEF Next

\* A step after which no active administrator is left belongs to a request that
\* was overtaken, or that had promoted its target itself.
LEMMA LastAdminStep ==
  ASSUME TypeOK, RaceInv, [Next]_vars, ActiveAdmins # {}, ActiveAdmins' = {}
  PROVE  \E s \in Slots : /\ req'[s] # req[s]
                          /\ raced[s] \/ PromotesThenDisables(req[s])
<1>1. CASE UNCHANGED users
  BY <1>1 DEF ActiveAdmins
<1>2. ASSUME NEW s \in Slots, NEW u \in Users, NEW role \in Roles, CreateUser(s, u, role)
      PROVE  FALSE
  BY <1>2 DEF CreateUser, ActiveAdmins, TypeOK, Admin, Unused
<1>3. ASSUME NEW s \in Slots, req[s].target \in Users,
             \A v \in Users \ {req[s].target} : users'[v] = users[v]
      PROVE  users[req[s].target] = Admin /\ users'[req[s].target] # Admin /\ ~Several
  BY <1>3 DEF ActiveAdmins, Several
<1>4. ASSUME NEW s \in Slots, UpdateRole(s) PROVE req'[s] # req[s] /\ raced[s]
  <2>1. /\ req[s].step = "role" /\ req[s].target \in Users
        /\ req[s].patch.role \in Roles \cup {Keep}
        /\ SetField(req[s].target, "role", req[s].patch.role)
    BY <1>4 DEF UpdateRole, TypeOK, Request, Patch
  <2>2. req'[s] # req[s]
    <3>1. req'[s] = [req[s] EXCEPT !.step = "status"]
      BY <1>4, <2>1, GoToTypes DEF UpdateRole, Steps
    <3> QED
      BY <2>1, <3>1 DEF TypeOK, Request
  <2>3. users[req[s].target] = Admin /\ users'[req[s].target] # Admin /\ ~Several
    BY <1>3, <2>1, SetFieldTypes
  <2>4. Demotes(req[s].patch)
    <3>1. CASE req[s].patch.role = Keep
      BY <2>1, <2>3, <3>1 DEF SetField
    <3>2. CASE req[s].patch.role = "org_admin"
      BY <2>1, <2>3, <3>2 DEF SetField, TypeOK, Admin, Row, Keep
    <3> QED
      BY <3>1, <3>2 DEF Demotes
  <2>5. Removes(req[s])
    BY <2>3, <2>4 DEF Removes
  <2> QED
    BY <2>1, <2>2, <2>3, <2>5 DEF RaceInv, GuardHolds
<1>5. ASSUME NEW s \in Slots, UpdateStatus(s)
      PROVE  req'[s] # req[s] /\ (raced[s] \/ PromotesThenDisables(req[s]))
  <2>1. /\ req[s].step = "status" /\ req[s].target \in Users
        /\ req[s].patch.status \in Statuses \cup {Keep}
        /\ SetField(req[s].target, "status", req[s].patch.status)
    BY <1>5 DEF UpdateStatus, TypeOK, Request, Patch
  <2>2. req'[s] # req[s]
    BY <1>5, <2>1, FinishTypes, ConstantTypes DEF UpdateStatus
  <2>3. users[req[s].target] = Admin /\ users'[req[s].target] # Admin /\ ~Several
    BY <1>3, <2>1, SetFieldTypes
  <2>4. Disables(req[s].patch)
    <3>1. CASE req[s].patch.status = Keep
      BY <2>1, <2>3, <3>1 DEF SetField
    <3>2. CASE req[s].patch.status = "active"
      BY <2>1, <2>3, <3>2 DEF SetField, TypeOK, Admin, Row, Keep
    <3> QED
      BY <3>1, <3>2 DEF Disables
  <2> QED
    BY <2>1, <2>2, <2>3, <2>4 DEF RaceInv, GuardHolds
<1>6. ASSUME NEW s \in Slots, DeleteUser(s) PROVE req'[s] # req[s] /\ raced[s]
  <2>1. req[s].step = "delete" /\ req[s].target \in Users
    BY <1>6 DEF DeleteUser, TypeOK
  <2>2. req'[s] # req[s]
    BY <1>6, <2>1, FinishTypes, ConstantTypes DEF DeleteUser
  <2>3. \A v \in Users \ {req[s].target} : users'[v] = users[v]
    BY <1>6 DEF DeleteUser, TypeOK
  <2>4. users[req[s].target] = Admin /\ ~Several
    BY <1>3, <2>1, <2>3
  <2> QED
    BY <2>1, <2>2, <2>4 DEF RaceInv, GuardHolds
<1>7. ASSUME NEW s \in Slots,
             \/ \E a \in Users : AdmitCreate(s, a)
             \/ \E a, t \in Users, p \in Patch : AdmitPatch(s, a, t, p)
             \/ \E a, t \in Users : AdmitDelete(s, a, t)
             \/ CountUsers(s) \/ ReadTarget(s) \/ GuardLastAdmin(s) \/ Fail(s)
      PROVE  UNCHANGED users
  BY <1>7 DEF AdmitCreate, AdmitPatch, AdmitDelete, Admit, CountUsers, ReadTarget,
     GuardLastAdmin, Fail
<1> QED
  BY <1>1, <1>2, <1>4, <1>5, <1>6, <1>7 DEF Next, vars

\* In every execution the last active administrator goes only in a request that
\* another one overtook since it read its target, or that had just promoted the
\* target itself: without a race the guard of the handlers works.
THEOREM LastAdminGoesByRaceHolds == Spec => LastAdminGoesByRace
<1>1. TypeOK /\ RaceInv /\ [Next]_vars => TypeOK' /\ RaceInv'
  BY StepTypeOK, StepRaceInv
<1>2. TypeOK /\ RaceInv /\ [Next]_vars =>
        [ActiveAdmins # {} /\ ActiveAdmins' = {} =>
           \E s \in Slots : /\ req'[s] # req[s]
                            /\ raced[s] \/ PromotesThenDisables(req[s])]_vars
  BY LastAdminStep
<1> QED
  BY <1>1, <1>2, InitTypeOK, InitRaceInv, PTL DEF Spec, LastAdminGoesByRace

=============================================================================
