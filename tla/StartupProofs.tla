---------------------------- MODULE StartupProofs ----------------------------
(* Theorems about the migrations, for any number of servers and releases.   *)
EXTENDS Startup, TLAPS

\* Of two open transactions that have run a migration's statements, each is at a
\* migration of its own: the second waits in Body.
LockHeld ==
  \A p, q \in Servers :
    p # q /\ tx[p] # "none" /\ tx[q] # "none" => at[p] # at[q]

\* A transaction that could insert its row is the first: nobody has recorded the
\* migration, and nobody will before it commits.
RowIsNew == \A p \in Servers : tx[p] = "row" => at[p] \notin recorded

\* A server in the loop has left behind only recorded migrations.
Behind ==
  \A p \in Servers :
    /\ pc[p] \in {"table", "check", "body", "row", "commit"} => 1..(at[p] - 1) \subseteq recorded
    /\ pc[p] \in {"body", "row", "commit"} => at[p] <= Known[p]

IInv == TypeOK /\ AppliedOnce /\ ServesMigrated /\ LockHeld /\ RowIsNew /\ Behind

\* The invariant holds with the migrations earlier releases recorded.
LEMMA InitHolds == Init => IInv
<1> SUFFICES ASSUME Init PROVE IInv
  OBVIOUS
<1> USE ReleaseAssumption, FaultsAssumption
<1>1. PICK n \in 0..Last : recorded = 1..n
  BY DEF Init
<1>2. TypeOK
  BY <1>1 DEF Init, TypeOK, Versions, Starting
<1>3. AppliedOnce
  BY DEF Init, AppliedOnce
<1>4. ServesMigrated
  BY <1>1 DEF Init, ServesMigrated
<1>5. LockHeld /\ RowIsNew /\ Behind
  BY DEF Init, LockHeld, RowIsNew, Behind
<1> QED
  BY <1>2, <1>3, <1>4, <1>5 DEF IInv

\* The types, and which step has which transaction open, are preserved.
LEMMA TypeCorrectStep == IInv /\ [Next]_vars => TypeOK'
<1> SUFFICES ASSUME IInv, [Next]_vars PROVE TypeOK'
  OBVIOUS
<1> USE ReleaseAssumption, FaultsAssumption DEF IInv, TypeOK, Versions, Starting, Goes
<1>1. CASE UNCHANGED vars
  BY <1>1 DEF vars
<1>2. ASSUME NEW p \in Servers, Boot(p) PROVE TypeOK'
  BY <1>2 DEF Boot
<1>3. ASSUME NEW p \in Servers, CreateTable(p) PROVE TypeOK'
  <2>1. pc' = [pc EXCEPT ![p] = "check"] \/ pc' = [pc EXCEPT ![p] = "closing"]
    BY <1>3 DEF CreateTable
  <2>2. pc' \in [Servers -> Starting \cup {"down", "serve"}]
    BY <2>1
  <2>3. \A q \in Servers : /\ tx[q] = "body" <=> pc'[q] = "row"
                           /\ tx[q] = "row" <=> pc'[q] = "commit"
                           /\ mqtt[q] # "off" => pc'[q] = "serve"
    BY <1>3, <2>1 DEF CreateTable
  <2> QED
    BY <1>3, <2>2, <2>3 DEF CreateTable
<1>4. ASSUME NEW p \in Servers, Check(p) PROVE TypeOK'
  <2>1. at[p] \in 1..(Last + 1) /\ Known[p] \in 0..Last
    OBVIOUS
  <2>2. at' = at \/ (at' = [at EXCEPT ![p] = @ + 1] /\ ~(at[p] > Known[p]))
    BY <1>4 DEF Check, LoopEnds
  <2>5. at' \in [Servers -> 1..(Last + 1)]
    <3>1. ~(at[p] > Known[p]) => at[p] + 1 \in 1..(Last + 1)
      BY <2>1
    <3> QED
      BY <2>2, <3>1
  <2>3. pc' \in [Servers -> Starting \cup {"down", "serve"}]
    BY <1>4 DEF Check
  <2>4. \A q \in Servers : /\ tx'[q] = "body" <=> pc'[q] = "row"
                           /\ tx'[q] = "row" <=> pc'[q] = "commit"
                           /\ mqtt'[q] # "off" => pc'[q] = "serve"
    BY <1>4 DEF Check
  <2> QED
    BY <1>4, <2>3, <2>4, <2>5 DEF Check
<1>5. ASSUME NEW p \in Servers, Body(p) PROVE TypeOK'
  <2>1. \/ pc' = [pc EXCEPT ![p] = "row"] /\ tx' = [tx EXCEPT ![p] = "body"]
        \/ pc' = [pc EXCEPT ![p] = "closing"] /\ tx' = [tx EXCEPT ![p] = "none"]
    BY <1>5 DEF Body, Ends, RolledBack
  <2>2. /\ pc' \in [Servers -> Starting \cup {"down", "serve"}]
        /\ tx' \in [Servers -> {"none", "body", "row"}]
    BY <2>1
  <2>3. \A q \in Servers : /\ tx'[q] = "body" <=> pc'[q] = "row"
                           /\ tx'[q] = "row" <=> pc'[q] = "commit"
                           /\ mqtt[q] # "off" => pc'[q] = "serve"
    BY <1>5, <2>1 DEF Body
  <2> QED
    BY <1>5, <2>2, <2>3 DEF Body
<1>6. ASSUME NEW p \in Servers, InsertRow(p) PROVE TypeOK'
  <2>1. \/ pc' = [pc EXCEPT ![p] = "commit"] /\ tx' = [tx EXCEPT ![p] = "row"]
        \/ pc' = [pc EXCEPT ![p] = "closing"] /\ tx' = [tx EXCEPT ![p] = "none"]
    BY <1>6 DEF InsertRow, Ends, RolledBack
  <2>2. /\ pc' \in [Servers -> Starting \cup {"down", "serve"}]
        /\ tx' \in [Servers -> {"none", "body", "row"}]
    BY <2>1
  <2>3. \A q \in Servers : /\ tx'[q] = "body" <=> pc'[q] = "row"
                           /\ tx'[q] = "row" <=> pc'[q] = "commit"
                           /\ mqtt[q] # "off" => pc'[q] = "serve"
    BY <1>6, <2>1 DEF InsertRow
  <2> QED
    BY <1>6, <2>2, <2>3 DEF InsertRow
<1>7. ASSUME NEW p \in Servers, Commit(p) PROVE TypeOK'
  <2>1. at[p] \in 1..Known[p] /\ Known[p] \in 0..Last
    BY <1>7 DEF Commit, Behind
  <2>2. recorded' \subseteq Versions /\ applied' \in [Versions -> Nat]
    <3>1. at[p] \in Versions /\ applied[at[p]] + 1 \in Nat
      BY <2>1
    <3> QED
      BY <1>7, <3>1 DEF Commit
  <2>3. /\ pc' \in [Servers -> Starting \cup {"down", "serve"}]
        /\ tx' \in [Servers -> {"none", "body", "row"}]
    BY <1>7 DEF Commit
  <2>5. at' \in [Servers -> 1..(Last + 1)]
    <3>1. at[p] + 1 \in 1..(Last + 1)
      BY <2>1
    <3> QED
      BY <1>7, <3>1 DEF Commit
  <2>6. faults' \in 0..MaxFaults
    BY <1>7 DEF Commit
  <2>4. \A q \in Servers : /\ tx'[q] = "body" <=> pc'[q] = "row"
                           /\ tx'[q] = "row" <=> pc'[q] = "commit"
                           /\ mqtt'[q] # "off" => pc'[q] = "serve"
    BY <1>7 DEF Commit
  <2> QED
    BY <1>7, <2>2, <2>3, <2>4, <2>5, <2>6 DEF Commit
<1>8. ASSUME NEW p \in Servers, Connected(p) PROVE TypeOK'
  BY <1>8 DEF Connected, MayConnect
<1>9. ASSUME NEW p \in Servers, Subscribe(p) PROVE TypeOK'
  <2>1. mqtt' \in [Servers -> {"off", "up", "hears", "refused"}]
    BY <1>9 DEF Subscribe
  <2>2. faults' \in 0..MaxFaults
    BY <1>9 DEF Subscribe
  <2>3. \A q \in Servers : mqtt'[q] # "off" => pc'[q] = "serve"
    BY <1>9 DEF Subscribe
  <2> QED
    BY <1>9, <2>1, <2>2, <2>3 DEF Subscribe
<1>10. ASSUME NEW p \in Servers, ConnectionLost(p) PROVE TypeOK'
  BY <1>10 DEF ConnectionLost
<1>13. ASSUME NEW p \in Servers, ConnectTimeout(p) PROVE TypeOK'
  BY <1>13 DEF ConnectTimeout
<1>11. ASSUME NEW p \in Servers, StatementFails(p) PROVE TypeOK'
  BY <1>11 DEF StatementFails, Ends, RolledBack
<1>12. ASSUME NEW p \in Servers, Exit(p) PROVE TypeOK'
  BY <1>12 DEF Exit
<1>14. ASSUME NEW p \in Servers, Stop(p) PROVE TypeOK'
  BY <1>14 DEF Stop
<1> QED
  BY <1>1, <1>2, <1>3, <1>4, <1>5, <1>6, <1>7, <1>8, <1>9, <1>10, <1>11, <1>12,
     <1>13, <1>14
  DEF Next, Migrate

\* Committing keeps every row recorded before, and adds a version nobody recorded.
LEMMA CommitIsNew ==
  ASSUME IInv, NEW p \in Servers, Commit(p)
  PROVE  /\ at[p] \in Versions /\ at[p] \notin recorded
         /\ 1..(at[p] - 1) \subseteq recorded
         /\ recorded' = recorded \cup {at[p]}
<1>1. tx[p] = "row" /\ pc[p] = "commit"
  BY DEF IInv, TypeOK, Commit
<1>2. at[p] \in 1..(Last + 1) /\ Known[p] \in 0..Last /\ Last \in Nat
  BY ReleaseAssumption DEF IInv, TypeOK
<1>3. at[p] <= Known[p]
  BY <1>1 DEF IInv, Behind
<1>4. at[p] \in Versions
  BY <1>2, <1>3 DEF Versions
<1>5. at[p] \notin recorded /\ 1..(at[p] - 1) \subseteq recorded
  BY <1>1 DEF IInv, RowIsNew, Behind
<1> QED
  BY <1>4, <1>5 DEF Commit

\* Each migration is committed at most once, with its row: a commit finds it new.
LEMMA AppliedOnceStep == IInv /\ [Next]_vars => AppliedOnce'
<1> SUFFICES ASSUME IInv, [Next]_vars PROVE AppliedOnce'
  OBVIOUS
<1>1. ASSUME UNCHANGED <<recorded, applied>> PROVE AppliedOnce'
  BY <1>1 DEF IInv, AppliedOnce
<1>2. ASSUME NEW p \in Servers, Commit(p) PROVE AppliedOnce'
  <2>1. /\ at[p] \in Versions /\ at[p] \notin recorded
        /\ recorded' = recorded \cup {at[p]}
    BY <1>2, CommitIsNew
  <2>2. applied' = [applied EXCEPT ![at[p]] = @ + 1] /\ applied \in [Versions -> Nat]
    BY <1>2 DEF Commit, IInv, TypeOK
  <2>3. applied[at[p]] = 0
    BY <2>1 DEF IInv, AppliedOnce
  <2> QED
    BY <2>1, <2>2, <2>3 DEF IInv, AppliedOnce
<1>3. UNCHANGED <<recorded, applied>> \/ \E p \in Servers : Commit(p)
  BY DEF Next, Migrate, vars, Boot, CreateTable, Check, Body, InsertRow, Connected,
         Subscribe, ConnectionLost, ConnectTimeout, StatementFails, Exit, Stop
<1> QED
  BY <1>1, <1>2, <1>3

\* The lock: Body waits for the others, and no step but Commit moves a server that
\* has a transaction open to another migration.
LEMMA LockStep == IInv /\ [Next]_vars => LockHeld' /\ RowIsNew'
<1> SUFFICES ASSUME IInv, [Next]_vars PROVE LockHeld' /\ RowIsNew'
  OBVIOUS
<1> USE DEF IInv, TypeOK, Starting, Goes
<1>1. ASSUME UNCHANGED <<recorded, at, tx>> PROVE LockHeld' /\ RowIsNew'
  BY <1>1 DEF LockHeld, RowIsNew
<1>2. ASSUME NEW p \in Servers, Boot(p) \/ Check(p) PROVE LockHeld' /\ RowIsNew'
  <2>1. tx[p] = "none" /\ tx' = tx /\ recorded' = recorded
    BY <1>2 DEF Boot, Check
  <2>2. \A q \in Servers \ {p} : at'[q] = at[q]
    BY <1>2 DEF Boot, Check
  <2> QED
    BY <2>1, <2>2 DEF LockHeld, RowIsNew
<1>3. ASSUME NEW p \in Servers, Body(p) PROVE LockHeld' /\ RowIsNew'
  <2>1. at' = at /\ recorded' = recorded /\ tx'[p] \in {"none", "body"}
    BY <1>3 DEF Body, Ends, RolledBack
  <2>2. \A q \in Servers \ {p} : tx'[q] = tx[q] /\ (tx[q] # "none" => at[q] # at[p])
    BY <1>3 DEF Body, Ends
  <2> QED
    BY <2>1, <2>2 DEF LockHeld, RowIsNew
<1>4. ASSUME NEW p \in Servers, InsertRow(p) PROVE LockHeld' /\ RowIsNew'
  <2>1. at' = at /\ recorded' = recorded /\ tx[p] = "body"
    BY <1>4 DEF InsertRow
  <2>2. tx'[p] = "row" => at[p] \notin recorded
    BY <1>4 DEF InsertRow, Conflict, Ends, RolledBack
  <2>3. \A q \in Servers \ {p} : tx'[q] = tx[q]
    BY <1>4 DEF InsertRow, Ends
  <2> QED
    BY <2>1, <2>2, <2>3 DEF LockHeld, RowIsNew
<1>5. ASSUME NEW p \in Servers, Commit(p) PROVE LockHeld' /\ RowIsNew'
  <2>1. tx[p] = "row" /\ tx'[p] = "none" /\ recorded' = recorded \cup {at[p]}
    BY <1>5 DEF Commit
  <2>2. \A q \in Servers \ {p} : tx'[q] = tx[q] /\ at'[q] = at[q]
    BY <1>5 DEF Commit
  <2> QED
    BY <2>1, <2>2 DEF LockHeld, RowIsNew
<1>6. ASSUME NEW p \in Servers, StatementFails(p) \/ Stop(p) PROVE LockHeld' /\ RowIsNew'
  <2>1. at' = at /\ recorded' = recorded /\ tx' = [tx EXCEPT ![p] = "none"]
    BY <1>6 DEF StatementFails, Stop, Ends, RolledBack
  <2> QED
    BY <2>1 DEF LockHeld, RowIsNew
<1>7. ASSUME NEW p \in Servers,
             CreateTable(p) \/ Connected(p) \/ Subscribe(p) \/ ConnectionLost(p)
               \/ ConnectTimeout(p) \/ Exit(p)
      PROVE  UNCHANGED <<recorded, at, tx>>
  BY <1>7 DEF CreateTable, Connected, Subscribe, ConnectionLost, ConnectTimeout, Exit
<1> QED
  BY <1>1, <1>2, <1>3, <1>4, <1>5, <1>6, <1>7 DEF Next, Migrate, vars

\* What ServesMigrated and Behind say of server p.
Order(p) ==
  /\ pc[p] \in {"connect", "serve"} => 1..Known[p] \subseteq recorded
  /\ pc[p] \in {"table", "check", "body", "row", "commit"} => 1..(at[p] - 1) \subseteq recorded
  /\ pc[p] \in {"body", "row", "commit"} => at[p] <= Known[p]

\* Rows are only added, and no server passes a migration that is not recorded.
LEMMA ServesStep == IInv /\ [Next]_vars => ServesMigrated' /\ Behind'
<1> SUFFICES ASSUME IInv, [Next]_vars PROVE ServesMigrated' /\ Behind'
  OBVIOUS
<1> USE DEF Goes
<1>1. \A p \in Servers : Order(p) /\ pc[p] \in Starting \cup {"down", "serve"}
                         /\ at[p] \in 1..(Last + 1) /\ Known[p] \in 0..Last /\ Last \in Nat
  BY ReleaseAssumption DEF IInv, TypeOK, ServesMigrated, Behind, Order
<1>2. pc \in [Servers -> Starting \cup {"down", "serve"}] /\ at \in [Servers -> 1..(Last + 1)]
  BY DEF IInv, TypeOK
<1>3. recorded \subseteq recorded' /\ (\A v \in recorded' : 1..v \subseteq recorded')
  <2>1. \A v \in recorded : 1..v \subseteq recorded
    BY DEF IInv, ServesMigrated
  <2>2. ASSUME NEW p \in Servers, Commit(p)
        PROVE  recorded \subseteq recorded' /\ (\A v \in recorded' : 1..v \subseteq recorded')
    <3>1. /\ at[p] \in Nat /\ 1..(at[p] - 1) \subseteq recorded
          /\ recorded' = recorded \cup {at[p]}
      BY <2>2, CommitIsNew DEF Versions
    <3>2. 1..at[p] \subseteq recorded'
      BY <3>1
    <3> QED
      BY <2>1, <3>1, <3>2
  <2>3. UNCHANGED recorded \/ \E p \in Servers : Commit(p)
    BY DEF Next, Migrate, vars, Boot, CreateTable, Check, Body, InsertRow, Connected,
           Subscribe, ConnectionLost, ConnectTimeout, StatementFails, Exit, Stop
  <2> QED
    BY <2>1, <2>2, <2>3
<1>4. ASSUME NEW p \in Servers, pc'[p] = pc[p], at'[p] = at[p] PROVE Order(p)'
  BY <1>1, <1>3, <1>4 DEF Order
<1>5. ASSUME NEW p \in Servers, pc'[p] \in {"down", "closing"} PROVE Order(p)'
  BY <1>5 DEF Order
<1>6. ASSUME NEW p \in Servers, Boot(p) PROVE Order(p)'
  BY <1>2, <1>6 DEF Boot, Order
<1>7. ASSUME NEW p \in Servers, CreateTable(p) PROVE Order(p)'
  BY <1>1, <1>2, <1>3, <1>7 DEF CreateTable, Order
<1>8. ASSUME NEW p \in Servers, Check(p) PROVE Order(p)'
  <2>1. pc[p] = "check" /\ 1..(at[p] - 1) \subseteq recorded /\ recorded' = recorded
    BY <1>1, <1>8 DEF Check, Order
  <2>2. CASE LoopEnds(p) /\ pc'[p] = "connect"
    <3>1. 1..Known[p] \subseteq 1..(at[p] - 1)
      BY <1>1, <2>2 DEF LoopEnds
    <3> QED
      BY <2>1, <2>2, <3>1 DEF Order
  <2>3. CASE at[p] \in recorded /\ pc'[p] = "check" /\ at'[p] = at[p] + 1
    <3>1. 1..(at'[p] - 1) \subseteq (1..(at[p] - 1)) \cup {at[p]}
      BY <1>1, <2>3
    <3> QED
      BY <2>1, <2>3, <3>1 DEF Order
  <2>4. CASE ~LoopEnds(p) /\ pc'[p] = "body" /\ at'[p] = at[p]
    BY <1>1, <2>1, <2>4 DEF LoopEnds, Order
  <2> QED
    BY <1>2, <1>8, <2>1, <2>2, <2>3, <2>4 DEF Check
<1>9. ASSUME NEW p \in Servers, Body(p) \/ InsertRow(p) PROVE Order(p)'
  BY <1>1, <1>2, <1>3, <1>9 DEF Body, InsertRow, Ends, Order
<1>10. ASSUME NEW p \in Servers, Commit(p) PROVE Order(p)'
  <2>1. CASE pc'[p] = "check" /\ at'[p] = at[p] + 1
    <3>1. at[p] \in Nat /\ 1..(at[p] - 1) \subseteq recorded' /\ at[p] \in recorded'
      BY <1>10, CommitIsNew DEF Versions
    <3>2. 1..(at'[p] - 1) \subseteq (1..(at[p] - 1)) \cup {at[p]}
      BY <2>1, <3>1
    <3> QED
      BY <2>1, <3>1, <3>2 DEF Order
  <2> QED
    BY <1>2, <1>5, <1>10, <2>1 DEF Commit
<1>11. ASSUME NEW p \in Servers, Connected(p) PROVE Order(p)'
  BY <1>1, <1>2, <1>11 DEF Connected, MayConnect, Order
<1>12. \A p \in Servers : Order(p)'
  <2>1. ASSUME NEW q \in Servers, NEW p \in Servers, q # p,
               Boot(q) \/ Migrate(q) \/ Body(q) \/ Connected(q) \/ Subscribe(q)
                 \/ ConnectionLost(q) \/ ConnectTimeout(q) \/ StatementFails(q)
                 \/ Exit(q) \/ Stop(q)
        PROVE  pc'[p] = pc[p] /\ at'[p] = at[p]
    BY <1>2, <2>1 DEF Boot, Migrate, CreateTable, Check, Body, InsertRow, Commit, Ends,
      Connected, Subscribe, ConnectionLost, ConnectTimeout, StatementFails, Exit, Stop
  <2>2. ASSUME NEW p \in Servers, Subscribe(p) \/ ConnectionLost(p)
        PROVE  pc'[p] = pc[p] /\ at'[p] = at[p]
    BY <2>2 DEF Subscribe, ConnectionLost
  <2>3. ASSUME NEW p \in Servers,
               ConnectTimeout(p) \/ StatementFails(p) \/ Exit(p) \/ Stop(p)
        PROVE  pc'[p] \in {"down", "closing"}
    BY <1>2, <2>3 DEF ConnectTimeout, StatementFails, Ends, Exit, Stop
  <2>4. CASE UNCHANGED vars
    BY <1>4, <2>4 DEF vars
  <2>5. CASE Next
    BY <1>4, <1>5, <1>6, <1>7, <1>8, <1>9, <1>10, <1>11, <2>1, <2>2, <2>3, <2>5
    DEF Next, Migrate
  <2> QED
    BY <2>4, <2>5
<1> QED
  BY <1>3, <1>12 DEF ServesMigrated, Behind, Order

\* The inductive invariant holds throughout.
LEMMA Inductive == Spec => []IInv
<1>1. IInv /\ [Next]_vars => IInv'
  BY TypeCorrectStep, AppliedOnceStep, LockStep, ServesStep DEF IInv
<1> QED
  BY <1>1, InitHolds, PTL DEF Spec

\* The variables of a start have their types, and a transaction is open only at the
\* steps between Begin and Commit.
THEOREM StartupTypeCorrect == Spec => []TypeOK
<1>1. IInv => TypeOK
  BY DEF IInv
<1> QED
  BY <1>1, Inductive, PTL

\* Migrations are applied once, whatever number of servers start, fail or are killed.
THEOREM MigrationsOnce == Spec => []AppliedOnce
<1>1. IInv => AppliedOnce
  BY DEF IInv
<1> QED
  BY <1>1, Inductive, PTL

\* A server serves only when the migrations of its release are in place.
THEOREM ServesAfterMigrations == Spec => []ServesMigrated
<1>1. IInv => ServesMigrated
  BY DEF IInv
<1> QED
  BY <1>1, Inductive, PTL
=============================================================================
