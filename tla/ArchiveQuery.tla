---------------------------- MODULE ArchiveQuery ----------------------------
(***************************************************************************)
(* What an export contains: the object store the archive writer puts its   *)
(* CSV objects into (src/internal/storage) and the reader that lists,      *)
(* selects and merges them (src/internal/archive/keys.go, merge.go).       *)
(*                                                                         *)
(* The file system backend writes a temporary file next to the object and  *)
(* renames it; the walk of List and the key pattern do not tell the two    *)
(* apart.  Writer and export worker run in one process, side by side.      *)
(*                                                                         *)
(* Time is counted in ticks finer than the microsecond the database keeps. *)
(* Retries of the writer are in ArchiveWriter, the job's row and the pipe  *)
(* in ExportWorker.                                                        *)
(***************************************************************************)
EXTENDS Integers

CONSTANTS
  Orgs, Devices,    \* organizations, device identifiers
  Owner,            \* Owner[d]: the organization d is registered in now
  PathForm,         \* PathForm[d]: what path cleaning makes of the identifier
  Files,            \* archive files, each handed to Put by the writer
  Batch,            \* Batch[f]: organization, device, hour and row times
  Hour, Micro,      \* ticks per hour and per microsecond
  MaxRange,         \* EXPORT_MAX_RANGE
  Times, DeviceChoices,   \* times and sets of devices a request may name
  MaxFaults, MaxCrashes   \* bounds of the model

HourOf(t) == t \div Hour

ASSUME UnitsAssumption ==
  /\ Hour \in Nat \ {0} /\ Micro \in Nat \ {0}
  /\ {MaxRange, MaxFaults, MaxCrashes} \subseteq Nat

\* PartitionKey: the rows of a file share organization, device and hour.
ASSUME BatchAssumption ==
  \A f \in Files :
    /\ Batch[f].org \in Orgs
    /\ Batch[f].device \in Devices
    /\ Batch[f].rows \subseteq Nat
    /\ \A t \in Batch[f].rows : Batch[f].hour = HourOf(t)

ASSUME IdentifierAssumption ==
  /\ PathForm \in [Devices -> {"plain", "dot", "dotdot"}]
  /\ Owner \in [Devices -> Orgs]
  /\ Times \subseteq Nat
  /\ DeviceChoices \subseteq SUBSET Devices

VARIABLES
  backend,   \* "fs" or "s3"; never changes
  pending,   \* files the writer has not put yet
  putting,   \* files inside Put on the file system, each by a goroutine of its own
  temp,      \* temp[f]: what the temporary file of f holds, "none" if there is none
  stored,    \* files under their final name
  pc,        \* the export: "idle", "list", "merge", "succeeded", "failed"
  asked,     \* the export's request
  toWalk,    \* directories (pages) List has not read yet
  match,     \* names ListMatching selected
  keys,      \* those of them that are not merged yet
  out,       \* rows in the export
  before,    \* files archived when List began
  faults, crashes   \* what went wrong so far

storeVars == <<backend, pending, putting, temp, stored>>
exportVars == <<pc, asked, toWalk, match, keys, out, before>>
vars == <<storeVars, exportVars, faults, crashes>>

\* org/<org>/device/<device>/date=.../hour=...
Partition(f) == [org |-> Batch[f].org, device |-> Batch[f].device, hour |-> Batch[f].hour]
Partitions == {Partition(f) : f \in Files}
Final(f) == [file |-> f, temp |-> FALSE]
Temp(f) == [file |-> f, temp |-> TRUE]
Names == {Final(f) : f \in Files} \cup {Temp(f) : f \in Files}
Row(f, t) == [file |-> f, ts |-> t]

\* normalizeKey refuses a key that contains "..".
Storable(f) == PathForm[Batch[f].device] # "dotdot"

\* path.Clean drops a segment ".": the key then has no device and does not parse.
ParseObjectKey(f) == PathForm[Batch[f].device] # "dot"

Requests == [org : Orgs, devices : DeviceChoices, from : Times, to : Times]

NoRequest == [org |-> CHOOSE o \in Orgs : TRUE, devices |-> {}, from |-> 0, to |-> 0]

\* timestamptz keeps microseconds.
DbTime(t) == t - (t % Micro)
Query == [asked EXCEPT !.from = DbTime(@), !.to = DbTime(@)]

WantsDevice(q, d) == q.devices = {} \/ d \in q.devices

Init ==
  /\ backend \in {"fs", "s3"}
  /\ pending = Files
  /\ putting = {}
  /\ temp = [f \in Files |-> "none"]
  /\ stored = {}
  /\ pc = "idle"
  /\ asked = NoRequest
  /\ toWalk = {} /\ match = {} /\ keys = {} /\ out = {} /\ before = {}
  /\ faults = 0 /\ crashes = 0

Fault == faults < MaxFaults /\ faults' = faults + 1

----------------------------------------------------------------------------
(* The writer.  flushPartition has released its lock when it calls Put: each *)
(* message handler and the ticker may be inside a Put of their own.        *)

\* CreateTemp.
PutStarts(f) ==
  /\ backend = "fs"
  /\ f \in pending \ putting /\ Storable(f)
  /\ putting' = putting \cup {f}
  /\ temp' = [temp EXCEPT ![f] = "partial"]
  /\ UNCHANGED <<backend, pending, stored, exportVars, faults, crashes>>

\* io.Copy has written everything.
PutCopied(f) ==
  /\ f \in putting /\ temp[f] = "partial"
  /\ temp' = [temp EXCEPT ![f] = "whole"]
  /\ UNCHANGED <<backend, pending, putting, stored, exportVars, faults, crashes>>

\* Mutant of Complete: the file is renamed before it is written.
AnyTemp(f) == temp[f] \in {"partial", "whole"}
Complete(f) == temp[f] = "whole"

PutRenames(f) ==
  /\ f \in putting /\ Complete(f)
  /\ putting' = putting \ {f}
  /\ pending' = pending \ {f}
  /\ temp' = [temp EXCEPT ![f] = IF @ = "whole" THEN "none" ELSE @]
  /\ stored' = stored \cup {f}
  /\ UNCHANGED <<backend, exportVars, faults, crashes>>

\* Copy, Close or Rename fails: the temporary file is removed, the writer keeps
\* the rows.
PutFails(f) ==
  /\ f \in putting
  /\ Fault
  /\ putting' = putting \ {f}
  /\ temp' = [temp EXCEPT ![f] = "none"]
  /\ UNCHANGED <<backend, pending, stored, exportVars, crashes>>

\* A remote store shows an object when it is complete.
PutObject(f) ==
  /\ backend = "s3"
  /\ f \in pending /\ Storable(f)
  /\ pending' = pending \ {f}
  /\ stored' = stored \cup {f}
  /\ UNCHANGED <<backend, putting, temp, exportVars, faults, crashes>>

----------------------------------------------------------------------------
(* POST /api/exports, and the worker's ListMatching and MergeCSV.          *)

\* createExport refuses an empty or long range and devices of other tenants; the
\* table's CHECK refuses bounds that fall into one microsecond.
Accepts(q) ==
  /\ DbTime(q.from) < DbTime(q.to)
  /\ q.to - q.from <= MaxRange
  /\ \A d \in q.devices : Owner[d] = q.org

StartExport(q) ==
  /\ pc \in {"idle", "succeeded", "failed"}
  /\ Accepts(q)
  /\ pc' = "list"
  /\ asked' = q
  /\ toWalk' = {p \in Partitions : p.org = q.org}
  /\ match' = {} /\ keys' = {} /\ out' = {}
  /\ before' = stored
  /\ UNCHANGED <<storeVars, faults, crashes>>

\* Mutant of HourMatches: the bounds are not truncated to their hour.
HourUntruncated(q, h) == q.from <= h * Hour /\ h * Hour <= q.to
HourMatches(q, h) == HourOf(q.from) <= h /\ h <= HourOf(q.to)

\* MatchesQuery.  The last segment of a key is not looked at.
MatchesQuery(f, q) ==
  /\ ParseObjectKey(f)
  /\ Batch[f].org = q.org
  /\ WantsDevice(q, Batch[f].device)
  /\ HourMatches(q, Batch[f].hour)

\* Mutant of Present: objects are written in place, without a temporary name.
PresentInPlace(n) == ~n.temp /\ (n.file \in stored \/ temp[n.file] # "none")
Present(n) == IF n.temp THEN temp[n.file] # "none" ELSE n.file \in stored

\* The walk reads one directory, S3 sends one page; each of them is a snapshot.
ListReads(p) ==
  /\ pc = "list" /\ p \in toWalk
  /\ toWalk' = toWalk \ {p}
  /\ match' = match \cup
       {n \in Names : Partition(n.file) = p /\ Present(n) /\ MatchesQuery(n.file, Query)}
  /\ UNCHANGED <<storeVars, pc, asked, keys, out, before, faults, crashes>>

ListReturns ==
  /\ pc = "list" /\ toWalk = {}
  /\ pc' = "merge"
  /\ keys' = match
  /\ UNCHANGED <<storeVars, asked, toWalk, match, out, before, faults, crashes>>

\* Mutant of RowWanted: only the hour of the key decides.
RowWantedNoUpper(f, t, q) ==
  Batch[f].org = q.org /\ WantsDevice(q, Batch[f].device) /\ q.from <= t
RowWanted(f, t, q) ==
  /\ Batch[f].org = q.org
  /\ WantsDevice(q, Batch[f].device)
  /\ q.from <= t /\ t <= q.to

Wanted(f, q) == {Row(f, t) : t \in {u \in Batch[f].rows : RowWanted(f, u, q)}}

\* appendObject reads an object that is complete.
AppendObject(n) ==
  /\ pc = "merge" /\ n \in keys
  /\ Present(n) /\ (n.temp => temp[n.file] = "whole")
  /\ keys' = keys \ {n}
  /\ out' = out \cup Wanted(n.file, Query)
  /\ UNCHANGED <<storeVars, pc, asked, toWalk, match, before, faults, crashes>>

\* A file that is being written, or that a crash left unfinished: whole rows at
\* its start are taken, a cut last timestamp is skipped.
AppendPartial(n) ==
  /\ pc = "merge" /\ n \in keys
  /\ temp[n.file] = "partial" /\ Present(n)
  /\ keys' = keys \ {n}
  /\ \E rows \in SUBSET Wanted(n.file, Query) : out' = out \cup rows
  /\ UNCHANGED <<storeVars, pc, asked, toWalk, match, before, faults, crashes>>

MergeFails ==
  /\ pc' = "failed"
  /\ toWalk' = {} /\ keys' = {} /\ out' = {}
  /\ UNCHANGED <<storeVars, asked, match, before, crashes>>

\* The key is gone (ErrNotFound), or its last row has too few fields.
AppendFails(n) ==
  /\ pc = "merge" /\ n \in keys
  /\ ~Present(n) \/ temp[n.file] = "partial"
  /\ UNCHANGED faults
  /\ MergeFails

\* List or Get returns an error.
StoreFails ==
  /\ pc \in {"list", "merge"}
  /\ Fault
  /\ MergeFails

MergeReturns ==
  /\ pc = "merge" /\ keys = {}
  /\ pc' = "succeeded"
  /\ UNCHANGED <<storeVars, asked, toWalk, match, keys, out, before, faults, crashes>>

----------------------------------------------------------------------------
\* The process stops: the temporary files stay where they are, their rows are gone
\* with the writer's memory, and nobody runs the job any more.
Crash ==
  /\ crashes < MaxCrashes
  /\ crashes' = crashes + 1
  /\ putting' = {}
  /\ pending' = pending \ putting
  /\ pc' = "idle"
  /\ asked' = NoRequest
  /\ toWalk' = {} /\ match' = {} /\ keys' = {} /\ out' = {} /\ before' = {}
  /\ UNCHANGED <<backend, temp, stored, faults>>

Next ==
  \/ \E f \in Files : \/ PutStarts(f) \/ PutCopied(f) \/ PutRenames(f) \/ PutFails(f)
                      \/ PutObject(f)
  \/ \E q \in Requests : StartExport(q)
  \/ \E p \in Partitions : ListReads(p)
  \/ ListReturns
  \/ \E n \in Names : AppendObject(n) \/ AppendPartial(n) \/ AppendFails(n)
  \/ StoreFails
  \/ MergeReturns
  \/ Crash

Spec == Init /\ [][Next]_vars

----------------------------------------------------------------------------
(* Properties.                                                             *)

\* Types; only the file system has temporary files, and an archived file has none.
TypeOK ==
  /\ backend \in {"fs", "s3"}
  /\ pending \subseteq Files /\ stored \subseteq Files \ pending
  /\ putting \subseteq pending
  /\ temp \in [Files -> {"none", "partial", "whole"}]
  /\ pc \in {"idle", "list", "merge", "succeeded", "failed"}
  /\ asked \in Requests \cup {NoRequest}
  /\ toWalk \subseteq Partitions
  /\ keys \subseteq match /\ match \subseteq Names
  /\ \A x \in out : x.file \in Files /\ x.ts \in Batch[x.file].rows
  /\ before \subseteq stored
  /\ faults \in 0..MaxFaults /\ crashes \in 0..MaxCrashes
  /\ \A f \in Files : temp[f] # "none" => backend = "fs" /\ f \notin stored

\* An export holds only rows of the caller's organization (also when a device has
\* changed hands since), of the devices asked for, and of the range asked for up
\* to the microsecond the database cuts off.
ExportSound ==
  \A x \in out :
    /\ Batch[x.file].org = asked.org
    /\ WantsDevice(asked, Batch[x.file].device)
    /\ asked.from - Micro < x.ts /\ x.ts <= asked.to

\* An export that succeeds holds every row it was asked for (up to the same
\* microsecond) of every object archived when it began to list, whatever is put
\* meanwhile, by however many goroutines; only a key without a device is overlooked.
ExportComplete ==
  pc = "succeeded" =>
    \A f \in before : \A t \in Batch[f].rows :
      /\ ParseObjectKey(f)
      /\ Batch[f].org = asked.org /\ WantsDevice(asked, Batch[f].device)
      /\ asked.from <= t /\ t <= DbTime(asked.to)
      => Row(f, t) \in out

\* As long as the store answers, the only thing that fails an export is a
\* temporary file it listed, of one of the Puts that run meanwhile or of one that
\* a crash cut off: it was renamed since, or it is unfinished.
FailsOnlyForTemp ==
  pc = "failed" /\ faults = 0 => \E n \in match : n.temp

\* "ParsedKey is the tenant-scoped layout used by archive writes and export
\* listing": what the writer stored, the listing of its tenant and hour selects.  The
\* code violates it for a device whose identifier vanishes from the key (".").
ListingSeesArchive ==
  pc = "merge" =>
    \A f \in before :
      /\ Batch[f].org = asked.org /\ WantsDevice(asked, Batch[f].device)
      /\ \E t \in Batch[f].rows : asked.from <= t /\ t <= DbTime(asked.to)
      => Final(f) \in match
=============================================================================
