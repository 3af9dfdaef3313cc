--------------------------- MODULE ArchiveWriter ---------------------------
(***************************************************************************)
(* The telemetry archive buffer (src/internal/archive/writer.go) together  *)
(* with the processes that use it: one goroutine per delivered MQTT        *)
(* message (the subscriber asks for unordered delivery), the background    *)
(* loop Writer.Run, and the main goroutine, which flushes once more while  *)
(* it shuts the server down (src/cmd/server/main.go).                      *)
(*                                                                         *)
(* The buffer is a map from partitions to row sequences, protected by a    *)
(* mutex; one action is one critical section or one call of the object     *)
(* store.  A process that flushes takes a whole partition out of the map,  *)
(* writes it as one immutable object, and puts it back if the write fails. *)
(***************************************************************************)
EXTENDS Integers, Sequences, FiniteSets, Functions

CONSTANTS
  Records,      \* the telemetry records that may be delivered
  Parts,        \* partition keys (organization, device, hour)
  PartOf,       \* PartOf[r]: the partition of record r
  Loop,         \* the goroutine of Writer.Run
  Main,         \* the main goroutine of the server
  FlushRows,    \* rows that trigger a flush of a partition
  MaxRows,      \* rows above which the oldest ones are dropped
  MaxFailures   \* bound of the model: failed writes of an execution

Procs == Records \cup {Loop, Main}

ASSUME PartOfAssumption == PartOf \in [Records -> Parts]
ASSUME ProcsAssumption == Loop # Main /\ Loop \notin Records /\ Main \notin Records
ASSUME FlushRowsAssumption == FlushRows \in Nat \ {0}
ASSUME MaxRowsAssumption == MaxRows \in Nat \ {0}
ASSUME MaxFailuresAssumption == MaxFailures \in Nat

VARIABLES
  arrived,    \* records whose rows were appended, in order of appending
  parts,      \* parts[k]: the buffered rows of partition k
  todo,       \* todo[p]: partitions that process p still has to flush
  phase,      \* phase[p]: "ready", "put" or "requeue" (in flushPartition)
  held,       \* held[p]: the rows p took out of the map
  stored,     \* stored[r]: number of archive objects that contain r
  unsure,     \* unsure[r]: writes of r that took effect but reported an error
  dropped,    \* records whose rows the overflow rule discarded
  failures,   \* failed writes so far
  cancelled,  \* the server's context is done (SIGINT or SIGTERM)
  loop,       \* "ticking" or "final" (Run's last flush has begun)
  main,       \* "serving", "flushing", "exited" or "failed"
  cutoff      \* rows buffered when main began its flush

vars == <<arrived, parts, todo, phase, held, stored, unsure, dropped,
          failures, cancelled, loop, main, cutoff>>

----------------------------------------------------------------------------
Alive == main \notin {"exited", "failed"}

Buffered == UNION {Range(parts[k]) : k \in Parts}
InFlight == UNION {Range(held[p]) : p \in Procs}
Archived == {r \in Records : stored[r] > 0}

Idle(p) == phase[p] = "ready" /\ todo[p] = {}

\* A partition without rows and a partition missing from the map are the same
\* to every critical section, so both are the empty sequence.
NonEmpty == {k \in Parts : parts[k] # <<>>}

Init ==
  /\ arrived = <<>>
  /\ parts = [k \in Parts |-> <<>>]
  /\ todo = [p \in Procs |-> {}]
  /\ phase = [p \in Procs |-> "ready"]
  /\ held = [p \in Procs |-> <<>>]
  /\ stored = [r \in Records |-> 0]
  /\ unsure = [r \in Records |-> 0]
  /\ dropped = {}
  /\ failures = 0
  /\ cancelled = FALSE
  /\ loop = "ticking"
  /\ main = "serving"
  /\ cutoff = {}

----------------------------------------------------------------------------
(* Appending a row: HandleRecord up to its unlock.                         *)

\* Mutant of Trim: the newest rows are dropped.
TrimNewest(rows) == SubSeq(rows, 1, IF Len(rows) > MaxRows THEN MaxRows ELSE Len(rows))
Trim(rows) ==
  IF Len(rows) > MaxRows THEN SubSeq(rows, Len(rows) - MaxRows + 1, Len(rows))
                         ELSE rows

Overflow(rows) == Range(rows) \ Range(Trim(rows))

\* Mutant of ShouldFlush: the threshold is missed by one row.
ShouldFlushLate(rows) == Len(rows) > FlushRows
ShouldFlush(rows) == Len(rows) >= FlushRows

HandleRecord(r) ==
  LET k    == PartOf[r]
      rows == Append(parts[k], r)
      kept == Trim(rows)
  IN  /\ Alive
      /\ r \notin Range(arrived)
      /\ arrived' = Append(arrived, r)
      /\ parts' = [parts EXCEPT ![k] = kept]
      /\ dropped' = dropped \cup Overflow(rows)
      /\ todo' = [todo EXCEPT ![r] = IF ShouldFlush(kept) THEN {k} ELSE {}]
      /\ UNCHANGED <<phase, held, stored, unsure, failures, cancelled, loop,
                     main, cutoff>>

----------------------------------------------------------------------------
(* flushPartition, run by a message goroutine for its own partition or by  *)
(* Loop and Main for every key that Flush collected.                       *)

\* Mutant of NothingToFlush: no early return for an empty partition.
NeverNothing(k) == FALSE
NothingToFlush(k) == parts[k] = <<>>

\* Mutant of RemoveRows: the partition is not deleted from the map.
KeepRows(k) == UNCHANGED parts
RemoveRows(k) == parts' = [parts EXCEPT ![k] = <<>>]

TakeRows(p, k) ==
  /\ Alive
  /\ phase[p] = "ready"
  /\ k \in todo[p]
  /\ todo' = [todo EXCEPT ![p] = @ \ {k}]
  /\ \/ /\ NothingToFlush(k)
        /\ UNCHANGED <<parts, held, phase>>
     \/ /\ ~NothingToFlush(k)
        /\ held' = [held EXCEPT ![p] = parts[k]]
        /\ RemoveRows(k)
        /\ phase' = [phase EXCEPT ![p] = "put"]
  /\ UNCHANGED <<arrived, stored, unsure, dropped, failures, cancelled, loop,
                 main, cutoff>>

StoreHeld(p) ==
  stored' = [r \in Records |-> IF r \in Range(held[p]) THEN stored[r] + 1
                                                       ELSE stored[r]]

PutSucceeds(p) ==
  /\ Alive
  /\ phase[p] = "put"
  /\ StoreHeld(p)
  /\ held' = [held EXCEPT ![p] = <<>>]
  /\ phase' = [phase EXCEPT ![p] = "ready"]
  /\ UNCHANGED <<arrived, parts, todo, unsure, dropped, failures, cancelled,
                 loop, main, cutoff>>

\* The store reports an error (also: the caller's context ended first).  A
\* remote store may have created the object nevertheless.
PutFails(p) ==
  /\ Alive
  /\ phase[p] = "put"
  /\ failures < MaxFailures
  /\ failures' = failures + 1
  /\ phase' = [phase EXCEPT ![p] = "requeue"]
  /\ \/ UNCHANGED <<stored, unsure>>
     \/ /\ StoreHeld(p)
        /\ unsure' = [r \in Records |-> IF r \in Range(held[p]) THEN unsure[r] + 1
                                                                ELSE unsure[r]]
  /\ UNCHANGED <<arrived, parts, todo, held, dropped, cancelled, loop, main,
                 cutoff>>

\* Mutant of Requeued: rows that arrived meanwhile are overwritten.
RequeuedAlone(batch, rows) == batch
Requeued(batch, rows) == batch \o rows

\* All rows of a batch have the partition of its first row.
Requeue(p) ==
  LET k == PartOf[held[p][1]]
  IN  /\ Alive
      /\ phase[p] = "requeue"
      /\ parts' = [parts EXCEPT ![k] = Requeued(held[p], @)]
      /\ held' = [held EXCEPT ![p] = <<>>]
      /\ phase' = [phase EXCEPT ![p] = "ready"]
      /\ UNCHANGED <<arrived, todo, stored, unsure, dropped, failures,
                     cancelled, loop, main, cutoff>>

----------------------------------------------------------------------------
(* The background loop and the shutdown.                                   *)

\* Mutant of CollectKeys: only full partitions are collected.
CollectFullKeys(p) == todo' = [todo EXCEPT ![p] = {k \in Parts : ShouldFlush(parts[k])}]

\* Flush up to its unlock: collect the keys of the map.
CollectKeys(p) == todo' = [todo EXCEPT ![p] = NonEmpty]

Tick ==
  /\ Alive
  /\ loop = "ticking"
  /\ Idle(Loop)
  /\ CollectKeys(Loop)
  /\ UNCHANGED <<arrived, parts, phase, held, stored, unsure, dropped,
                 failures, cancelled, loop, main, cutoff>>

FinalFlush ==
  /\ Alive
  /\ cancelled
  /\ loop = "ticking"
  /\ Idle(Loop)
  /\ loop' = "final"
  /\ CollectKeys(Loop)
  /\ UNCHANGED <<arrived, parts, phase, held, stored, unsure, dropped,
                 failures, cancelled, main, cutoff>>

\* The process receives SIGINT or SIGTERM.
Cancel ==
  /\ Alive
  /\ ~cancelled
  /\ cancelled' = TRUE
  /\ UNCHANGED <<arrived, parts, todo, phase, held, stored, unsure, dropped,
                 failures, loop, main, cutoff>>

ShutdownFlush ==
  /\ main = "serving"
  /\ cancelled
  /\ main' = "flushing"
  /\ CollectKeys(Main)
  /\ cutoff' = Buffered
  /\ UNCHANGED <<arrived, parts, phase, held, stored, unsure, dropped,
                 failures, cancelled, loop>>

\* Mutant of MayExit: main waits until the buffer is empty.
MayExitDrained == Idle(Main) /\ Buffered = {}
MayExit == Idle(Main)

\* main returns; the other goroutines end with the process.
Exit ==
  /\ main = "flushing"
  /\ MayExit
  /\ main' = "exited"
  /\ UNCHANGED <<arrived, parts, todo, phase, held, stored, unsure, dropped,
                 failures, cancelled, loop, cutoff>>

\* The HTTP listener fails: main returns the error without a flush.
ListenFails ==
  /\ main = "serving"
  /\ main' = "failed"
  /\ UNCHANGED <<arrived, parts, todo, phase, held, stored, unsure, dropped,
                 failures, cancelled, loop, cutoff>>

\* Nothing runs after main has returned.
Terminated == ~Alive /\ UNCHANGED vars

----------------------------------------------------------------------------
Work(p) ==
  \/ \E k \in Parts : TakeRows(p, k)
  \/ PutSucceeds(p)
  \/ PutFails(p)
  \/ Requeue(p)

Next ==
  \/ \E r \in Records : HandleRecord(r)
  \/ \E p \in Procs : Work(p)
  \/ Tick
  \/ FinalFlush
  \/ Cancel
  \/ ShutdownFlush
  \/ Exit
  \/ ListenFails
  \/ Terminated

\* Goroutines are scheduled, calls of the store return, the ticker keeps
\* firing, and main leaves its select once the context is done.  Neither
\* deliveries, nor the signal, nor a failure of the listener must happen.
Fairness ==
  /\ \A p \in Procs : WF_vars(Work(p))
  /\ WF_vars(Tick)
  /\ WF_vars(ShutdownFlush)
  /\ WF_vars(Exit)

Spec == Init /\ [][Next]_vars

FairSpec == Spec /\ Fairness

----------------------------------------------------------------------------
(* Properties.                                                             *)

Phases == {"ready", "put", "requeue"}

\* Types; and a process holds rows exactly while it is inside a write, so no
\* empty object is ever written (the early return of flushPartition).
TypeOK ==
  /\ arrived \in Seq(Records)
  /\ parts \in [Parts -> Seq(Records)]
  /\ todo \in [Procs -> SUBSET Parts]
  /\ phase \in [Procs -> Phases]
  /\ held \in [Procs -> Seq(Records)]
  /\ stored \in [Records -> Nat]
  /\ unsure \in [Records -> Nat]
  /\ dropped \subseteq Records
  /\ failures \in 0..MaxFailures
  /\ cancelled \in BOOLEAN
  /\ loop \in {"ticking", "final"}
  /\ main \in {"serving", "flushing", "exited", "failed"}
  /\ cutoff \subseteq Records
  /\ \A p \in Procs : phase[p] # "ready" <=> held[p] # <<>>

\* No silent loss: whatever the interleaving of appends, flushes, failed
\* writes and requeues, every row that was appended is buffered, in the hands
\* of a flush, in the archive, or was dropped by the (logged) overflow rule.
NoRowLost == Range(arrived) = Buffered \cup InFlight \cup Archived \cup dropped

\* One owner: a buffered row sits in its own partition, a batch in flight holds
\* rows of one partition only, and no row is in two batches or in a batch and
\* in the buffer, however flushes of the same partition overlap.
OneOwner ==
  /\ \A k \in Parts : \A r \in Range(parts[k]) : PartOf[r] = k
  /\ \A p \in Procs : \A r \in Range(held[p]) :
       /\ PartOf[r] = PartOf[held[p][1]]
       /\ r \notin Buffered
       /\ \A q \in Procs \ {p} : r \notin Range(held[q])

\* At most one object per row: a row is archived once, plus once for every
\* write that the store applied although it reported an error; and a row still
\* in memory was archived only by such writes.
ArchivedOnce ==
  \A r \in Records :
    /\ stored[r] <= unsure[r] + 1
    /\ r \in Buffered \cup InFlight => stored[r] = unsure[r]

\* The handlers that were told to flush partition k and have not done so.
Flushers(k) == {r \in Records : k \in todo[r]}

\* As long as no write failed, the buffer of a partition stays below the flush
\* threshold, except for the rows of handlers that are about to flush it.
BacklogBound ==
  failures = 0 =>
    \A k \in Parts : Len(parts[k]) < FlushRows + Cardinality(Flushers(k))

Before(a, b) ==
  \E i, j \in 1..Len(arrived) : i < j /\ arrived[i] = a /\ arrived[j] = b

DropsOldest ==
  \A d \in dropped' \ dropped : \A r \in Range(parts'[PartOf[d]]) :
    Before(d, r)'

\* "archive buffer overflow; dropping oldest rows": a row that overflows
\* arrived before every row that stays in the buffer.  The code violates it after
\* two failed writes of a partition, which can requeue in either order.
DropsOldestFirst == [][DropsOldest]_vars

\* The same, for executions with at most one failed write.
DropsOldestFirstIfInOrder == [][failures <= 1 => DropsOldest]_vars

\* What the flush of main guarantees: when main exits after it and no write
\* failed, a row that was buffered when it began is archived or dropped, or
\* another goroutine took it and was stopped in the middle of its write.
ShutdownFlushesBuffer ==
  main = "exited" /\ failures = 0 =>
    \A r \in cutoff \ (Archived \cup dropped) :
      \E p \in Procs \ {Main} : r \in Range(held[p])

\* "Run flushes leftover rows on an interval and on shutdown": after an orderly
\* shutdown without a failed write, the rows that were buffered when it began
\* are in the archive (or were dropped).
ShutdownLosesNothing ==
  main = "exited" /\ failures = 0 => cutoff \subseteq Archived \cup dropped

\* A signal leads to the end of the process: main's flush terminates however
\* many rows are appended, failed and requeued while it runs.
ShutdownCompletes == cancelled ~> ~Alive
=============================================================================
