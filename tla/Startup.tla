------------------------------- MODULE Startup -------------------------------
(***************************************************************************)
(* How a server process starts: run in src/cmd/server/main.go up to the    *)
(* select, the migrations of src/internal/db/migrate.go, and the MQTT      *)
(* subscriber of src/internal/iot/subscriber.go.                           *)
(*                                                                         *)
(* Servers start beside each other, as in an upgrade, with as many         *)
(* migrations as their release has.  They share the database and the MQTT  *)
(* client id of the configuration.  An error ends the process.             *)
(***************************************************************************)
EXTENDS Naturals

CONSTANTS
  Servers,
  Last,       \* migrations are numbered 1..Last in the order of their names
  Known,      \* Known[p]: the last migration in the release of server p
  MaxFaults   \* bound of the model: failed statements and connections

ASSUME ReleaseAssumption == Last \in Nat /\ Known \in [Servers -> 0..Last]
ASSUME FaultsAssumption == MaxFaults \in Nat

VARIABLES
  recorded,   \* rows of schema_migrations
  applied,    \* applied[v]: how often the statements of migration v were committed
  table,      \* schema_migrations exists
  pc, at,     \* the step of each server and the migration it is at
  tx,         \* tx[p]: what its open transaction has done: "none", "body", "row"
  mqtt,       \* mqtt[p]: "off", "up" (OnConnect runs), "hears", "refused"
  faults

vars == <<recorded, applied, table, pc, at, tx, mqtt, faults>>
Versions == 1..Last
Starting == {"table", "check", "body", "row", "commit", "connect", "closing"}

Init ==
  /\ \E n \in 0..Last : recorded = 1..n      \* what earlier releases left
  /\ applied = [v \in Versions |-> IF v \in recorded THEN 1 ELSE 0]
  /\ table \in {t \in BOOLEAN : recorded # {} => t}
  /\ pc = [p \in Servers |-> "down"]
  /\ at = [p \in Servers |-> 1]
  /\ tx = [p \in Servers |-> "none"]
  /\ mqtt = [p \in Servers |-> "off"]
  /\ faults = 0

Goes(p, step) == pc' = [pc EXCEPT ![p] = step]

----------------------------------------------------------------------------
(* Migrate.                                                                *)

Boot(p) ==
  /\ pc[p] = "down"
  /\ Goes(p, "table")
  /\ at' = [at EXCEPT ![p] = 1]
  /\ UNCHANGED <<recorded, applied, table, tx, mqtt, faults>>

\* CREATE TABLE IF NOT EXISTS; of two servers that create it together one may fail.
CreateTable(p) ==
  /\ pc[p] = "table"
  /\ \/ Goes(p, "check")
     \/ /\ ~table /\ \E q \in Servers \ {p} : pc[q] = "table"
        /\ Goes(p, "closing")
  /\ table' = TRUE
  /\ UNCHANGED <<recorded, applied, at, tx, mqtt, faults>>

\* Mutant of LoopEnds: the last migration is left out.
LoopEndsEarly(p) == at[p] >= Known[p]
LoopEnds(p) == at[p] > Known[p]

\* SELECT EXISTS, then Begin; or the loop ends.
Check(p) ==
  /\ pc[p] = "check"
  /\ \/ /\ LoopEnds(p) /\ Goes(p, "connect") /\ UNCHANGED at
     \/ /\ ~LoopEnds(p) /\ at[p] \in recorded
        /\ at' = [at EXCEPT ![p] = @ + 1] /\ UNCHANGED pc
     \/ /\ ~LoopEnds(p) /\ at[p] \notin recorded
        /\ Goes(p, "body") /\ UNCHANGED at
  /\ UNCHANGED <<recorded, applied, table, tx, mqtt, faults>>

\* On an error the transaction is rolled back and run returns.  Mutant: it is left
\* open, and the pool is never closed.
LeftOpen(p) == tx[p]
RolledBack(p) == "none"
Ends(p) ==
  /\ Goes(p, "closing")
  /\ tx' = [tx EXCEPT ![p] = RolledBack(p)]

\* The statements of the migration: they wait for another open transaction that has
\* run them.  If another server committed them meanwhile, IF NOT EXISTS skips what
\* is there, or they collide.
Body(p) ==
  /\ pc[p] = "body"
  /\ \A q \in Servers \ {p} : tx[q] # "none" => at[q] # at[p]
  /\ \/ /\ Goes(p, "row")
        /\ tx' = [tx EXCEPT ![p] = "body"]
     \/ /\ at[p] \in recorded
        /\ Ends(p)
  /\ UNCHANGED <<recorded, applied, table, at, mqtt, faults>>

\* The primary key of schema_migrations.  Mutant: ON CONFLICT DO NOTHING.
NoConflict(v) == FALSE
Conflict(v) == v \in recorded

\* INSERT INTO schema_migrations.
InsertRow(p) ==
  /\ pc[p] = "row"
  /\ \/ /\ ~Conflict(at[p])
        /\ Goes(p, "commit")
        /\ tx' = [tx EXCEPT ![p] = "row"]
     \/ /\ Conflict(at[p])
        /\ Ends(p)
  /\ UNCHANGED <<recorded, applied, table, at, mqtt, faults>>

\* Commit; its answer may be lost, and then run returns the error.
Commit(p) ==
  /\ pc[p] = "commit"
  /\ recorded' = recorded \cup {at[p]}
  /\ applied' = [applied EXCEPT ![at[p]] = @ + 1]
  /\ tx' = [tx EXCEPT ![p] = "none"]
  /\ \/ /\ Goes(p, "check")
        /\ at' = [at EXCEPT ![p] = @ + 1]
        /\ UNCHANGED faults
     \/ /\ faults < MaxFaults
        /\ faults' = faults + 1
        /\ Goes(p, "closing")
        /\ UNCHANGED at
  /\ UNCHANGED <<table, mqtt>>

----------------------------------------------------------------------------
(* The MQTT subscriber.                                                    *)

\* Mutant of MayConnect: no automatic reconnection.
ConnectsOnce(p) == pc[p] = "connect"
MayConnect(p) == pc[p] \in {"connect", "serve"}

\* The broker accepts the client and drops another connection with the same id.
\* With a clean session nothing is subscribed yet; OnConnect starts.  Start returns
\* at the first connection; later ones are the client's reconnections.
Connected(p) ==
  /\ MayConnect(p) /\ mqtt[p] = "off"
  /\ mqtt' = [q \in Servers |-> IF q = p THEN "up" ELSE "off"]
  /\ Goes(p, "serve")
  /\ UNCHANGED <<recorded, applied, table, at, tx, faults>>

\* OnConnect: an error of Subscribe is logged, and nobody tries again.
Subscribe(p) ==
  /\ mqtt[p] = "up"
  /\ \/ /\ mqtt' = [mqtt EXCEPT ![p] = "hears"]
        /\ UNCHANGED faults
     \/ /\ faults < MaxFaults
        /\ faults' = faults + 1
        /\ mqtt' = [mqtt EXCEPT ![p] = "refused"]
  /\ UNCHANGED <<recorded, applied, table, pc, at, tx>>

ConnectionLost(p) ==
  /\ mqtt[p] # "off"
  /\ mqtt' = [mqtt EXCEPT ![p] = "off"]
  /\ UNCHANGED <<recorded, applied, table, pc, at, tx, faults>>

\* Start waits 15 s for the first connection.
ConnectTimeout(p) ==
  /\ pc[p] = "connect"
  /\ Goes(p, "closing")
  /\ UNCHANGED <<recorded, applied, table, at, tx, mqtt, faults>>

----------------------------------------------------------------------------
(* Ends.                                                                   *)

\* A statement (or the object store) fails without an effect; a SIGTERM during the
\* migrations cancels their context, which is the same.
StatementFails(p) ==
  /\ pc[p] \in Starting \ {"closing"}
  /\ faults < MaxFaults
  /\ faults' = faults + 1
  /\ Ends(p)
  /\ UNCHANGED <<recorded, applied, table, at, mqtt>>

\* The deferred pool.Close waits for the connection of an open transaction.
Exit(p) ==
  /\ pc[p] = "closing" /\ tx[p] = "none"
  /\ Goes(p, "down")
  /\ UNCHANGED <<recorded, applied, table, at, tx, mqtt, faults>>

\* The process is killed, or a serving one is stopped: the database rolls back.
Stop(p) ==
  /\ pc[p] # "down"
  /\ Goes(p, "down")
  /\ tx' = [tx EXCEPT ![p] = "none"]
  /\ mqtt' = [mqtt EXCEPT ![p] = "off"]
  /\ UNCHANGED <<recorded, applied, table, at, faults>>

Migrate(p) == CreateTable(p) \/ Check(p) \/ InsertRow(p) \/ Commit(p)

Next ==
  \E p \in Servers :
    \/ Boot(p) \/ Migrate(p) \/ Body(p)
    \/ Connected(p) \/ Subscribe(p) \/ ConnectionLost(p) \/ ConnectTimeout(p)
    \/ StatementFails(p) \/ Exit(p) \/ Stop(p)

\* A running process goes on; the database serves those who wait for a lock in turn;
\* a serving one reconnects.  Nobody must start a process or lose a connection.
Fairness ==
  \A p \in Servers :
    /\ WF_vars(Migrate(p)) /\ SF_vars(Body(p))
    /\ WF_vars(Connected(p)) /\ WF_vars(ConnectTimeout(p))
    /\ WF_vars(Subscribe(p)) /\ WF_vars(Exit(p))

Spec == Init /\ [][Next]_vars /\ Fairness

----------------------------------------------------------------------------

TypeOK ==
  /\ recorded \subseteq Versions
  /\ applied \in [Versions -> Nat]
  /\ table \in BOOLEAN
  /\ pc \in [Servers -> Starting \cup {"down", "serve"}]
  /\ at \in [Servers -> 1..(Last + 1)]
  /\ tx \in [Servers -> {"none", "body", "row"}]
  /\ mqtt \in [Servers -> {"off", "up", "hears", "refused"}]
  /\ \A p \in Servers :
       /\ tx[p] = "body" <=> pc[p] = "row"
       /\ tx[p] = "row" <=> pc[p] = "commit"
       /\ mqtt[p] # "off" => pc[p] = "serve"
  /\ faults \in 0..MaxFaults

\* Each migration is committed once at most, together with its row, however many
\* servers start at the same time, fail or are killed in the middle.
AppliedOnce ==
  \A v \in Versions : applied[v] = IF v \in recorded THEN 1 ELSE 0

\* A server connects and serves only with every migration of its release in place,
\* and migrations are recorded in order.
ServesMigrated ==
  /\ \A p \in Servers : pc[p] \in {"connect", "serve"} => 1..Known[p] \subseteq recorded
  /\ \A v \in recorded : 1..v \subseteq recorded

\* A start does not hang: the process serves, or it ends with an error, although
\* servers wait for each other's transactions and for a broker that may be away.
StartupEnds ==
  \A p \in Servers : pc[p] \in Starting ~> pc[p] \in {"serve", "down"}

\* A server that stays up is connected again and again, whichever server with the
\* same client id takes the connection from it, and once it keeps a connection it
\* hears the devices, or its Subscribe failed.  (That failure is only logged:
\* "CSV archive writes resume when MQTT is connected again" does not hold then.)
HearsAgain ==
  \A p \in Servers :
    <>[](pc[p] = "serve") =>
      /\ []<>(mqtt[p] # "off")
      /\ <>[](mqtt[p] # "off") => <>[](mqtt[p] \in {"hears", "refused"})
=============================================================================
