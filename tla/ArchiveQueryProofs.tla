------------------------ MODULE ArchiveQueryProofs -------------------------
(* Theorems about the contents of an export, for every archive, every       *)
(* request and every choice of units.                                       *)
EXTENDS ArchiveQuery, TLAPS

----------------------------------------------------------------------------
(* Times.                                                                  *)

\* The database cuts off less than a microsecond.
LEMMA DbTimeBounds ==
  ASSUME NEW t \in Nat
  PROVE  DbTime(t) \in Nat /\ t - Micro < DbTime(t) /\ DbTime(t) <= t
<1>1. Micro \in Nat /\ Micro > 0
  BY UnitsAssumption
<1>2. t % Micro \in 0..(Micro - 1)
  BY <1>1
<1>3. t % Micro <= t
  BY <1>1, <1>2
<1> QED
  BY <1>1, <1>2, <1>3 DEF DbTime

\* A later time is in no earlier hour.
LEMMA HourMonotonic ==
  ASSUME NEW s \in Nat, NEW t \in Nat, s <= t
  PROVE  HourOf(s) <= HourOf(t)
BY UnitsAssumption DEF HourOf
----------------------------------------------------------------------------
(* Type correctness.                                                       *)

\* What a request holds, also the one that stands for no request.
LEMMA RequestTypes ==
  ASSUME asked \in Requests \cup {NoRequest}
  PROVE  /\ asked.from \in Nat /\ asked.to \in Nat
         /\ Query.org = asked.org /\ Query.devices = asked.devices
         /\ Query.from = DbTime(asked.from) /\ Query.to = DbTime(asked.to)
<1>1. asked \in [org : {asked.org}, devices : {asked.devices}, from : Nat, to : Nat]
  <2>1. CASE asked \in Requests
    BY <2>1, IdentifierAssumption DEF Requests
  <2>2. CASE asked = NoRequest
    BY <2>2 DEF NoRequest
  <2> QED
    BY <2>1, <2>2
<1> QED
  BY <1>1 DEF Query

\* The rows that a merge takes from a file are rows of that file.
LEMMA WantedRows ==
  ASSUME NEW f, NEW q, NEW x \in Wanted(f, q)
  PROVE  /\ x.file = f /\ x.ts \in Batch[f].rows
         /\ RowWanted(f, x.ts, q) /\ x = Row(f, x.ts)
BY DEF Wanted, Row

\* A name is of a file, final or temporary.
LEMMA NameTypes ==
  ASSUME NEW n \in Names
  PROVE  /\ n.file \in Files
         /\ n.temp \/ n = Final(n.file)
         /\ \A f : n = Final(f) => n.file = f /\ ~n.temp
BY DEF Names, Final, Temp

\* TypeOK alone is not inductive: that PutObject leaves putting within pending
\* rests on the two backends never being mixed.
OnlyFilesArePutting == putting # {} => backend = "fs"

TypeInv == TypeOK /\ OnlyFilesArePutting

\* The archive and the export start well-typed.
LEMMA InitTypeInv == Init => TypeInv
BY UnitsAssumption DEF Init, TypeInv, TypeOK, OnlyFilesArePutting

\* Every step of the writer, of the export and of a crash keeps the types; in
\* particular, an archived file has no temporary file left.
LEMMA StepTypeInv == TypeInv /\ [Next]_vars => TypeInv'
<1> SUFFICES ASSUME TypeOK, OnlyFilesArePutting, [Next]_vars PROVE TypeInv'
  BY DEF TypeInv
<1> USE DEF TypeOK
<1>0. faults \in Nat /\ crashes \in Nat /\ MaxFaults \in Nat /\ MaxCrashes \in Nat
  BY UnitsAssumption
<1>1. ASSUME NEW f \in Files, PutStarts(f) PROVE TypeOK'
  BY <1>1 DEF PutStarts, exportVars
<1>2. ASSUME NEW f \in Files, PutCopied(f) PROVE TypeOK'
  BY <1>2 DEF PutCopied, exportVars
<1>3. ASSUME NEW f \in Files, PutRenames(f) PROVE TypeOK'
  BY <1>3 DEF PutRenames, Complete, exportVars
<1>4. ASSUME NEW f \in Files, PutFails(f) PROVE TypeOK'
  <2>1. faults' \in 0..MaxFaults
    BY <1>0, <1>4 DEF PutFails, Fault
  <2> QED
    BY <1>4, <2>1 DEF PutFails, exportVars
<1>5. ASSUME NEW f \in Files, PutObject(f) PROVE TypeOK'
  <2>1. /\ backend = "s3" /\ f \in pending
        /\ pending' = pending \ {f} /\ stored' = stored \cup {f}
    BY <1>5 DEF PutObject
  <2>2. UNCHANGED <<backend, putting, temp, pc, asked, toWalk, match, keys, out,
                    before, faults, crashes>>
    BY <1>5 DEF PutObject, exportVars
  <2>3. putting = {} /\ \A g \in Files : temp[g] = "none"
    BY <2>1 DEF OnlyFilesArePutting
  <2> QED
    BY <2>1, <2>2, <2>3
<1>6. ASSUME NEW q \in Requests, StartExport(q) PROVE TypeOK'
  BY <1>6 DEF StartExport, storeVars
<1>7. ASSUME NEW p \in Partitions, ListReads(p) PROVE TypeOK'
  <2>1. match' \subseteq Names /\ match \subseteq match' /\ toWalk' \subseteq Partitions
    BY <1>7 DEF ListReads
  <2>2. UNCHANGED <<storeVars, pc, asked, keys, out, before, faults, crashes>>
    BY <1>7 DEF ListReads
  <2> QED
    BY <2>1, <2>2 DEF storeVars
<1>8. ASSUME ListReturns PROVE TypeOK'
  BY <1>8 DEF ListReturns, storeVars
<1>9. ASSUME NEW n \in Names, AppendObject(n) PROVE TypeOK'
  <2>1. \A x \in out' : x.file \in Files /\ x.ts \in Batch[x.file].rows
    BY <1>9, WantedRows, NameTypes DEF AppendObject
  <2> QED
    BY <1>9, <2>1 DEF AppendObject, storeVars
<1>10. ASSUME NEW n \in Names, AppendPartial(n) PROVE TypeOK'
  <2>1. \A x \in out' : x.file \in Files /\ x.ts \in Batch[x.file].rows
    BY <1>10, WantedRows, NameTypes DEF AppendPartial
  <2> QED
    BY <1>10, <2>1 DEF AppendPartial, storeVars
<1>11. ASSUME NEW n \in Names, AppendFails(n) PROVE TypeOK'
  BY <1>11 DEF AppendFails, MergeFails, storeVars
<1>12. ASSUME StoreFails PROVE TypeOK'
  <2>1. faults' \in 0..MaxFaults
    BY <1>0, <1>12 DEF StoreFails, Fault
  <2> QED
    BY <1>12, <2>1 DEF StoreFails, MergeFails, storeVars
<1>13. ASSUME MergeReturns PROVE TypeOK'
  BY <1>13 DEF MergeReturns, storeVars
<1>14. ASSUME Crash PROVE TypeOK'
  <2>1. crashes' \in 0..MaxCrashes
    BY <1>0, <1>14 DEF Crash
  <2> QED
    BY <1>14, <2>1 DEF Crash
<1>15. ASSUME UNCHANGED vars PROVE TypeOK'
  BY <1>15 DEF vars, storeVars, exportVars
<1>16. TypeOK'
  BY <1>1, <1>2, <1>3, <1>4, <1>5, <1>6, <1>7, <1>8, <1>9, <1>10, <1>11, <1>12,
     <1>13, <1>14, <1>15 DEF Next
<1>17. OnlyFilesArePutting'
  BY DEF OnlyFilesArePutting, Next, PutStarts, PutCopied, PutRenames, PutFails,
     PutObject, StartExport, ListReads, ListReturns, AppendObject, AppendPartial,
     AppendFails, MergeFails, StoreFails, MergeReturns, Crash, vars, storeVars,
     exportVars
<1> QED
  BY <1>16, <1>17 DEF TypeInv

\* The state has the declared types in every execution; an archived object has
\* no temporary file beside it, and only the file system has temporary files.
THEOREM TypeCorrect == Spec => []TypeOK
BY InitTypeInv, StepTypeInv, PTL DEF Spec, TypeInv

----------------------------------------------------------------------------
(* Soundness.  Rows enter the export only through Wanted, which compares    *)
(* the row with the request that the database has stored.                   *)

\* A row that the stored request wants belongs to the tenant that asked, and to
\* the range asked for up to a microsecond.
LEMMA WantedIsSound ==
  ASSUME TypeOK, NEW f \in Files, NEW x \in Wanted(f, Query)
  PROVE  /\ Batch[x.file].org = asked.org
         /\ WantsDevice(asked, Batch[x.file].device)
         /\ asked.from - Micro < x.ts /\ x.ts <= asked.to
<1>1. x.file = f /\ x.ts \in Batch[f].rows /\ RowWanted(f, x.ts, Query)
  BY WantedRows
<1>2. /\ asked.from \in Nat /\ asked.to \in Nat
      /\ Query.org = asked.org /\ Query.devices = asked.devices
      /\ Query.from = DbTime(asked.from) /\ Query.to = DbTime(asked.to)
  BY RequestTypes DEF TypeOK
<1>3. /\ DbTime(asked.from) \in Nat /\ DbTime(asked.to) \in Nat
      /\ asked.from - Micro < DbTime(asked.from) /\ DbTime(asked.to) <= asked.to
  BY <1>2, DbTimeBounds
<1>4. x.ts \in Nat /\ Micro \in Nat
  BY <1>1, BatchAssumption, UnitsAssumption
<1>5. Batch[f].org = asked.org /\ WantsDevice(asked, Batch[f].device)
  BY <1>1, <1>2 DEF RowWanted, WantsDevice
<1>6. DbTime(asked.from) <= x.ts /\ x.ts <= DbTime(asked.to)
  BY <1>1, <1>2 DEF RowWanted
<1> QED
  BY <1>1, <1>2, <1>3, <1>4, <1>5, <1>6

\* Only rows of the export's own request enter it.
LEMMA StepExportSound == TypeOK /\ ExportSound /\ [Next]_vars => ExportSound'
<1> SUFFICES ASSUME TypeOK, ExportSound, [Next]_vars PROVE ExportSound'
  OBVIOUS
<1>1. CASE UNCHANGED <<asked, out>> \/ out' = {}
  BY <1>1 DEF ExportSound
<1>2. ASSUME NEW n \in Names, AppendObject(n) \/ AppendPartial(n) PROVE ExportSound'
  <2>1. asked' = asked /\ \A x \in out' : x \in out \/ x \in Wanted(n.file, Query)
    BY <1>2 DEF AppendObject, AppendPartial
  <2>2. n.file \in Files
    BY NameTypes
  <2> QED
    BY <2>1, <2>2, WantedIsSound DEF ExportSound
<1> QED
  BY <1>1, <1>2 DEF Next, PutStarts, PutCopied, PutRenames, PutFails, PutObject,
     StartExport, ListReads, ListReturns, AppendFails, MergeFails, StoreFails,
     MergeReturns, Crash, vars, exportVars

\* No export ever holds a row of another tenant, of a device that was not asked
\* for, or from outside the range (up to the microsecond the database cuts off).
THEOREM Sound == Spec => []ExportSound
<1>1. Init => ExportSound
  BY DEF Init, ExportSound
<1> QED
  BY <1>1, TypeCorrect, StepExportSound, PTL DEF Spec
----------------------------------------------------------------------------
(* Completeness.  The listing carries every matching object of `before'     *)
(* from the directories still to walk into the selected names, and the      *)
(* merge carries it from there into the output; a final name never          *)
(* disappears, because objects are only ever added.                         *)

Due(f) == f \in before /\ MatchesQuery(f, Query)

ListingInv ==
  /\ \A n \in match : ~n.temp => n.file \in stored
  /\ pc = "list" =>
       \A f \in Files : Due(f) => Final(f) \in match \/ Partition(f) \in toWalk

MergeInv ==
  /\ pc = "merge" =>
       \A f \in Files : Due(f) => Final(f) \in keys \/ Wanted(f, Query) \subseteq out
  /\ pc = "succeeded" =>
       \A f \in Files : Due(f) => Wanted(f, Query) \subseteq out

\* A listed final name stays readable, and is read whole.
LEMMA FinalIsPresent ==
  ASSUME TypeOK, NEW f \in stored
  PROVE  Present(Final(f)) /\ temp[f] = "none"
BY DEF TypeOK, Present, Final

\* Nothing that the archive held when the listing began is missed by the walk.
LEMMA StepListingInv == TypeOK /\ ListingInv /\ [Next]_vars => ListingInv'
<1> SUFFICES ASSUME TypeOK, ListingInv, [Next]_vars PROVE ListingInv'
  OBVIOUS
<1>1. ASSUME UNCHANGED exportVars, stored \subseteq stored' PROVE ListingInv'
  BY <1>1 DEF exportVars, ListingInv, Due, Query
<1>2. ASSUME NEW q \in Requests, StartExport(q) PROVE ListingInv'
  <2>1. /\ pc' = "list" /\ asked' = q /\ match' = {} /\ before' = stored
        /\ toWalk' = {p \in Partitions : p.org = q.org}
    BY <1>2 DEF StartExport
  <2>2. ASSUME NEW f \in Files, Due(f)' PROVE Partition(f) \in toWalk'
    <3>1. asked' \in Requests \cup {NoRequest}
      BY <2>1
    <3>2. Batch[f].org = q.org
      <4>1. Query' = [q EXCEPT !.from = DbTime(@), !.to = DbTime(@)]
        BY <2>1 DEF Query
      <4>2. Query'.org = q.org
        BY <4>1 DEF Requests
      <4> QED
        BY <2>2, <4>2 DEF Due, MatchesQuery
    <3> QED
      BY <2>1, <3>2 DEF Partitions, Partition
  <2> QED
    BY <2>1, <2>2 DEF ListingInv
<1>3. ASSUME NEW p \in Partitions, ListReads(p) PROVE ListingInv'
  <2>1. /\ UNCHANGED <<stored, temp, pc, asked, before>> /\ Query' = Query
        /\ toWalk' = toWalk \ {p}
        /\ match' = match \cup {n \in Names : Partition(n.file) = p /\ Present(n)
                                               /\ MatchesQuery(n.file, Query)}
        /\ pc = "list"
    BY <1>3 DEF ListReads, storeVars, Query
  <2>2. ASSUME NEW n \in match', ~n.temp PROVE n.file \in stored'
    BY <2>1, <2>2 DEF ListingInv, Present
  <2>3. ASSUME NEW f \in Files, Due(f)'
        PROVE  Final(f) \in match' \/ Partition(f) \in toWalk'
    <3>1. Due(f) /\ f \in stored
      BY <2>1, <2>3 DEF Due, TypeOK
    <3>2. CASE Partition(f) = p
      <4>1. Final(f) \in Names /\ Final(f).file = f /\ Present(Final(f))
        BY <3>1, FinalIsPresent DEF Names, Final
      <4> QED
        BY <2>1, <3>1, <3>2, <4>1 DEF Due
    <3>3. CASE Partition(f) # p
      BY <2>1, <3>1, <3>3 DEF ListingInv
    <3> QED
      BY <3>2, <3>3
  <2> QED
    BY <2>2, <2>3 DEF ListingInv
<1>4. ASSUME pc' # "list", match' \subseteq match, stored' = stored PROVE ListingInv'
  BY <1>4 DEF ListingInv
<1> QED
  BY <1>1, <1>2, <1>3, <1>4 DEF Next, PutStarts, PutCopied, PutRenames, PutFails,
     PutObject, ListReturns, AppendObject, AppendPartial, AppendFails, MergeFails,
     StoreFails, MergeReturns, Crash, vars, storeVars, exportVars

\* Nothing that was selected under its final name is lost by the merge: only the
\* whole object, merged, takes the name off the list.
LEMMA StepMergeInv == TypeOK /\ ListingInv /\ MergeInv /\ [Next]_vars => MergeInv'
<1> SUFFICES ASSUME TypeOK, ListingInv, MergeInv, [Next]_vars PROVE MergeInv'
  OBVIOUS
<1>1. ASSUME UNCHANGED exportVars PROVE MergeInv'
  BY <1>1 DEF exportVars, MergeInv, Due, Query
<1>2. ASSUME pc' \notin {"merge", "succeeded"} PROVE MergeInv'
  BY <1>2 DEF MergeInv
<1>3. ASSUME ListReturns PROVE MergeInv'
  <2>1. /\ UNCHANGED <<asked, match, before>> /\ pc = "list" /\ toWalk = {}
        /\ pc' = "merge" /\ keys' = match /\ Query' = Query
    BY <1>3 DEF ListReturns, Query
  <2> QED
    BY <2>1 DEF ListingInv, MergeInv, Due
<1>4. ASSUME NEW n \in Names, AppendObject(n) PROVE MergeInv'
  <2>1. /\ UNCHANGED <<asked, before, pc>> /\ pc = "merge"
        /\ keys' = keys \ {n} /\ out' = out \cup Wanted(n.file, Query) /\ Query' = Query
    BY <1>4 DEF AppendObject, Query
  <2>2. \A f : n = Final(f) => Wanted(f, Query) \subseteq out'
    BY <2>1, NameTypes
  <2> QED
    BY <2>1, <2>2 DEF MergeInv, Due
<1>5. ASSUME NEW n \in Names, AppendPartial(n) PROVE MergeInv'
  <2>1. /\ UNCHANGED <<asked, before, pc>> /\ pc = "merge"
        /\ keys' = keys \ {n} /\ out \subseteq out' /\ Query' = Query
        /\ temp[n.file] = "partial" /\ Present(n)
    BY <1>5 DEF AppendPartial, Query
  <2>2. n.temp
    BY <2>1 DEF Present, TypeOK
  <2>3. \A f : n # Final(f)
    BY <2>2, NameTypes
  <2> QED
    BY <2>1, <2>3 DEF MergeInv, Due
<1>6. ASSUME MergeReturns PROVE MergeInv'
  <2>1. /\ UNCHANGED <<asked, before, out>> /\ pc = "merge" /\ keys = {}
        /\ pc' = "succeeded" /\ Query' = Query
    BY <1>6 DEF MergeReturns, Query
  <2> QED
    BY <2>1 DEF MergeInv, Due
<1>7. ASSUME NEW p \in Partitions, ListReads(p) PROVE MergeInv'
  BY <1>2, <1>7 DEF ListReads
<1> QED
  BY <1>1, <1>2, <1>3, <1>4, <1>5, <1>6, <1>7 DEF Next, PutStarts, PutCopied,
     PutRenames, PutFails, PutObject, StartExport, AppendFails, MergeFails,
     StoreFails, Crash, vars, storeVars, exportVars

\* The two invariants hold in every execution.
LEMMA ListingAndMerge == Spec => [](ListingInv /\ MergeInv)
<1>1. Init => ListingInv /\ MergeInv
  BY DEF Init, ListingInv, MergeInv
<1> QED
  BY <1>1, TypeCorrect, StepListingInv, StepMergeInv, PTL DEF Spec

\* A row inside the range puts its object among those that the listing selects,
\* because the hours are compared after truncation.
LEMMA RowMakesDue ==
  ASSUME TypeOK, NEW f \in before, NEW t \in Batch[f].rows, ParseObjectKey(f),
         Batch[f].org = asked.org, WantsDevice(asked, Batch[f].device),
         asked.from <= t, t <= DbTime(asked.to)
  PROVE  f \in Files /\ Due(f) /\ Row(f, t) \in Wanted(f, Query)
<1>1. f \in Files /\ t \in Nat /\ Batch[f].hour = HourOf(t)
  BY BatchAssumption DEF TypeOK
<1>2. /\ asked.from \in Nat /\ asked.to \in Nat
      /\ Query.org = asked.org /\ Query.devices = asked.devices
      /\ Query.from = DbTime(asked.from) /\ Query.to = DbTime(asked.to)
  BY RequestTypes DEF TypeOK
<1>3. /\ DbTime(asked.from) \in Nat /\ DbTime(asked.to) \in Nat
      /\ DbTime(asked.from) <= asked.from
  BY <1>2, DbTimeBounds
<1>4. DbTime(asked.from) <= t
  BY <1>1, <1>2, <1>3
<1>5. HourOf(Query.from) <= Batch[f].hour /\ Batch[f].hour <= HourOf(Query.to)
  BY <1>1, <1>2, <1>3, <1>4, HourMonotonic
<1>6. WantsDevice(Query, Batch[f].device)
  BY <1>2 DEF WantsDevice
<1>7. Due(f)
  BY <1>2, <1>5, <1>6 DEF Due, MatchesQuery, HourMatches
<1>8. Row(f, t) \in Wanted(f, Query)
  BY <1>2, <1>4, <1>6 DEF Wanted, RowWanted
<1> QED
  BY <1>1, <1>7, <1>8

\* An export that succeeds holds every row it was asked for of every object that
\* was archived when it began to list, whatever is written or fails meanwhile.
THEOREM CompleteExport == Spec => []ExportComplete
<1>1. TypeOK /\ MergeInv => ExportComplete
  BY RowMakesDue DEF MergeInv, ExportComplete
<1> QED
  BY <1>1, TypeCorrect, ListingAndMerge, PTL

----------------------------------------------------------------------------
(* Failures.                                                               *)

\* An export fails by itself only at a temporary name, because a final name stays
\* readable.
LEMMA StepFailsOnlyForTemp ==
  TypeOK /\ ListingInv /\ FailsOnlyForTemp /\ [Next]_vars => FailsOnlyForTemp'
<1> SUFFICES ASSUME TypeOK, ListingInv, FailsOnlyForTemp, [Next]_vars
             PROVE  FailsOnlyForTemp'
  OBVIOUS
<1>0. faults \in Nat
  BY UnitsAssumption DEF TypeOK
<1>1. ASSUME Fault PROVE FailsOnlyForTemp'
  BY <1>0, <1>1 DEF Fault, FailsOnlyForTemp
<1>2. ASSUME UNCHANGED <<pc, match, faults>> PROVE FailsOnlyForTemp'
  BY <1>2 DEF FailsOnlyForTemp
<1>3. ASSUME pc' # "failed" PROVE FailsOnlyForTemp'
  BY <1>3 DEF FailsOnlyForTemp
<1>4. ASSUME NEW n \in Names, AppendFails(n) PROVE FailsOnlyForTemp'
  <2>1. n \in match /\ match' = match /\ (~Present(n) \/ temp[n.file] = "partial")
    BY <1>4 DEF AppendFails, MergeFails, TypeOK
  <2>2. n.temp
    <3> SUFFICES ASSUME ~n.temp PROVE FALSE
      OBVIOUS
    <3>1. n.file \in stored
      BY <2>1 DEF ListingInv
    <3> QED
      BY <2>1, <3>1 DEF Present, TypeOK
  <2> QED
    BY <2>1, <2>2 DEF FailsOnlyForTemp
<1> QED
  BY <1>1, <1>2, <1>3, <1>4 DEF Next, PutStarts, PutCopied, PutRenames, PutFails,
     PutObject, StartExport, ListReads, ListReturns, AppendObject, AppendPartial,
     StoreFails, MergeReturns, Crash, vars, storeVars, exportVars

\* As long as the store answers, only a temporary file that was listed fails an
\* export.
THEOREM FailureNeedsTemp == Spec => []FailsOnlyForTemp
<1>1. Init => FailsOnlyForTemp
  BY DEF Init, FailsOnlyForTemp
<1> QED
  BY <1>1, TypeCorrect, ListingAndMerge, StepFailsOnlyForTemp, PTL DEF Spec
=============================================================================
