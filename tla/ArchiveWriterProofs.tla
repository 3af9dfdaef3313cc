------------------------ MODULE ArchiveWriterProofs ------------------------
(* Theorems about the archive buffer, for every set of records, every       *)
(* partitioning and every choice of thresholds.                             *)
EXTENDS ArchiveRefinement, SequenceTheorems, FiniteSetTheorems, TLAPS

----------------------------------------------------------------------------
(* Rows of the sequences that the actions build.                           *)

\* Appending a row adds it to the rows of the sequence.
LEMMA RangeOfAppend ==
  ASSUME NEW S, NEW s \in Seq(S), NEW e \in S
  PROVE  /\ Append(s, e) \in Seq(S)
         /\ Range(Append(s, e)) = Range(s) \cup {e}
<1>1. /\ Append(s, e) \in Seq(S)
      /\ Len(Append(s, e)) = Len(s) + 1
      /\ \A i \in 1..Len(s) : Append(s, e)[i] = s[i]
      /\ Append(s, e)[Len(s) + 1] = e
  BY AppendProperties
<1>2. Range(Append(s, e)) = {Append(s, e)[i] : i \in 1..Len(Append(s, e))}
  BY <1>1, RangeEquality
<1>3. Range(s) = {s[i] : i \in 1..Len(s)}
  BY RangeEquality
<1>4. 1..Len(Append(s, e)) = (1..Len(s)) \cup {Len(s) + 1}
  BY <1>1, LenProperties
<1> QED
  BY <1>1, <1>2, <1>3, <1>4

\* Trimming keeps a sequence of rows and adds none.
LEMMA RangeOfTrim ==
  ASSUME NEW rows \in Seq(Records)
  PROVE  /\ Trim(rows) \in Seq(Records)
         /\ Range(Trim(rows)) \subseteq Range(rows)
<1> DEFINE m == Len(rows) - MaxRows + 1
<1>1. CASE Len(rows) > MaxRows
  <2>1. m \in Int /\ m >= 1 /\ Len(rows) \in Int /\ Trim(rows) = SubSeq(rows, m, Len(rows))
    BY <1>1, MaxRowsAssumption, LenProperties DEF Trim
  <2>2. \A i \in m..Len(rows) : rows[i] \in Records
    BY <2>1, ElementOfSeq
  <2>3. /\ Trim(rows) \in Seq(Records)
        /\ Len(Trim(rows)) = IF m <= Len(rows) THEN Len(rows) - m + 1 ELSE 0
        /\ \A i \in 1..(Len(rows) - m + 1) : Trim(rows)[i] = rows[m + i - 1]
    <3> HIDE DEF m
    <3> QED BY <2>1, <2>2, SubSeqProperties
  <2>4. Range(Trim(rows)) = {Trim(rows)[i] : i \in 1..Len(Trim(rows))}
    BY <2>3, RangeEquality
  <2>5. Range(rows) = {rows[i] : i \in 1..Len(rows)}
    BY RangeEquality
  <2>6. ASSUME NEW i \in 1..Len(Trim(rows))
        PROVE  Trim(rows)[i] \in Range(rows)
    <3> HIDE DEF m
    <3>1. i \in 1..(Len(rows) - m + 1) /\ m + i - 1 \in 1..Len(rows)
      BY <2>1, <2>3
    <3> QED BY <3>1, <2>3, <2>5
  <2> QED
    BY <2>3, <2>4, <2>6
<1>2. CASE ~(Len(rows) > MaxRows)
  BY <1>2 DEF Trim
<1> QED
  BY <1>1, <1>2

\* A batch that goes back in front of a partition adds its rows to it.
LEMMA RangeOfRequeue ==
  ASSUME NEW s \in Seq(Records), NEW t \in Seq(Records)
  PROVE  /\ s \o t \in Seq(Records)
         /\ Range(s \o t) = Range(s) \cup Range(t)
BY RangeConcatenation, ConcatProperties

\* The first row of a batch names a partition.
LEMMA BatchHasPartition ==
  ASSUME NEW s \in Seq(Records), s # <<>>
  PROVE  s[1] \in Range(s) /\ PartOf[s[1]] \in Parts
<1>1. Len(s) \in Nat /\ Len(s) > 0
  BY LenProperties, EmptySeq
<1>2. s[1] \in Range(s) /\ s[1] \in Records
  BY <1>1, RangeEquality, ElementOfSeq
<1> QED
  BY <1>2, PartOfAssumption

----------------------------------------------------------------------------
(* Type correctness.                                                       *)

\* Only records are buffered.
LEMMA BufferedRecords ==
  ASSUME TypeOK
  PROVE  Buffered \subseteq Records
BY RangeOfSeq DEF TypeOK, Buffered

\* The writer starts in a well-typed state.
LEMMA InitTypeOK == Init => TypeOK
<1> SUFFICES ASSUME Init PROVE TypeOK
  OBVIOUS
<1>1. <<>> \in Seq(Records)
  BY EmptySeq
<1>2. failures \in 0..MaxFailures
  BY MaxFailuresAssumption DEF Init
<1>3. \A p \in Procs : phase[p] # "ready" <=> held[p] # <<>>
  BY DEF Init
<1>4. /\ arrived \in Seq(Records)
      /\ parts \in [Parts -> Seq(Records)]
      /\ held \in [Procs -> Seq(Records)]
  BY <1>1 DEF Init
<1>5. /\ stored \in [Records -> Nat]
      /\ unsure \in [Records -> Nat]
      /\ todo \in [Procs -> SUBSET Parts]
      /\ phase \in [Procs -> Phases]
  BY DEF Init, Phases
<1> QED
  BY <1>2, <1>3, <1>4, <1>5 DEF Init, TypeOK

\* Every handler, flush and shutdown step keeps the state well-typed.
LEMMA StepTypeOK == TypeOK /\ [Next]_vars => TypeOK'
<1> SUFFICES ASSUME TypeOK, [Next]_vars PROVE TypeOK'
  OBVIOUS
<1> USE DEF TypeOK, Phases
<1>0. <<>> \in Seq(Records)
  BY EmptySeq
<1>1. ASSUME NEW r \in Records, HandleRecord(r) PROVE TypeOK'
  <2> DEFINE rows == Append(parts[PartOf[r]], r)
  <2>1. PartOf[r] \in Parts /\ parts[PartOf[r]] \in Seq(Records) /\ r \in Procs
    BY PartOfAssumption DEF Procs
  <2>2. rows \in Seq(Records)
    BY <2>1, RangeOfAppend
  <2>3. Trim(rows) \in Seq(Records) /\ Overflow(rows) \subseteq Records
    BY <2>2, RangeOfTrim, RangeOfSeq DEF Overflow
  <2>4. arrived' \in Seq(Records)
    BY <1>1, RangeOfAppend DEF HandleRecord
  <2> HIDE DEF rows
  <2>5. /\ parts' = [parts EXCEPT ![PartOf[r]] = Trim(rows)]
        /\ dropped' = dropped \cup Overflow(rows)
    BY <1>1, <2>1 DEF HandleRecord, rows
  <2>6. parts' \in [Parts -> Seq(Records)] /\ dropped' \subseteq Records
    BY <2>3, <2>5
  <2>7. todo' \in [Procs -> SUBSET Parts]
    BY <1>1, <2>1 DEF HandleRecord
  <2>8. UNCHANGED <<phase, held, stored, unsure, failures, cancelled, loop,
                    main, cutoff>>
    BY <1>1 DEF HandleRecord
  <2> QED
    BY <2>4, <2>6, <2>7, <2>8
<1>2. ASSUME NEW p \in Procs, Work(p) PROVE TypeOK'
  <2>1. ASSUME NEW k \in Parts, TakeRows(p, k) PROVE TypeOK'
    <3>1. /\ todo' \in [Procs -> SUBSET Parts]
          /\ UNCHANGED <<arrived, stored, unsure, dropped, failures, cancelled,
                         loop, main, cutoff>>
      BY <2>1 DEF TakeRows
    <3>2. CASE UNCHANGED <<parts, held, phase>>
      BY <3>1, <3>2
    <3>3. CASE ~UNCHANGED <<parts, held, phase>>
      <4>1. /\ parts[k] # <<>>
            /\ held' = [held EXCEPT ![p] = parts[k]]
            /\ parts' = [parts EXCEPT ![k] = <<>>]
            /\ phase' = [phase EXCEPT ![p] = "put"]
        BY <2>1, <3>3 DEF TakeRows, NothingToFlush, RemoveRows
      <4>2. /\ parts' \in [Parts -> Seq(Records)]
            /\ held' \in [Procs -> Seq(Records)]
            /\ phase' \in [Procs -> Phases]
        BY <4>1, <1>0
      <4>3. \A q \in Procs : phase'[q] # "ready" <=> held'[q] # <<>>
        BY <4>1
      <4> QED
        BY <3>1, <4>2, <4>3
    <3> QED
      BY <3>2, <3>3
  <2>2. ASSUME PutSucceeds(p) PROVE TypeOK'
    <3>1. stored' \in [Records -> Nat]
      BY <2>2 DEF PutSucceeds, StoreHeld
    <3>2. held' \in [Procs -> Seq(Records)] /\ phase' \in [Procs -> Phases]
      BY <2>2, <1>0 DEF PutSucceeds
    <3>3. \A q \in Procs : phase'[q] # "ready" <=> held'[q] # <<>>
      BY <2>2 DEF PutSucceeds
    <3> QED
      BY <2>2, <3>1, <3>2, <3>3 DEF PutSucceeds
  <2>3. ASSUME PutFails(p) PROVE TypeOK'
    <3>1. failures' \in 0..MaxFailures
      BY <2>3, MaxFailuresAssumption DEF PutFails
    <3>2. stored' \in [Records -> Nat] /\ unsure' \in [Records -> Nat]
      <4>1. CASE UNCHANGED <<stored, unsure>>
        BY <4>1
      <4>2. CASE /\ StoreHeld(p)
                 /\ unsure' = [r \in Records |-> IF r \in Range(held[p])
                                                 THEN unsure[r] + 1 ELSE unsure[r]]
        <5>1. stored' \in [Records -> Nat]
          BY <4>2 DEF StoreHeld
        <5>2. unsure' \in [Records -> Nat]
          BY <4>2
        <5> QED
          BY <5>1, <5>2
      <4> QED
        BY <2>3, <4>1, <4>2 DEF PutFails
    <3>3. phase' \in [Procs -> Phases]
      BY <2>3 DEF PutFails
    <3>4. \A q \in Procs : phase'[q] # "ready" <=> held'[q] # <<>>
      BY <2>3 DEF PutFails
    <3> QED
      BY <2>3, <3>1, <3>2, <3>3, <3>4 DEF PutFails
  <2>4. ASSUME Requeue(p) PROVE TypeOK'
    <3> DEFINE k == PartOf[held[p][1]]
    <3>1. k \in Parts /\ held[p] \o parts[k] \in Seq(Records)
      BY <2>4, BatchHasPartition, RangeOfRequeue DEF Requeue
    <3>2. /\ parts' = [parts EXCEPT ![k] = held[p] \o parts[k]]
          /\ held' = [held EXCEPT ![p] = <<>>]
          /\ phase' = [phase EXCEPT ![p] = "ready"]
          /\ UNCHANGED <<arrived, todo, stored, unsure, dropped, failures,
                         cancelled, loop, main, cutoff>>
      BY <2>4, <3>1 DEF Requeue, Requeued
    <3>3. /\ parts' \in [Parts -> Seq(Records)]
          /\ held' \in [Procs -> Seq(Records)]
          /\ phase' \in [Procs -> Phases]
      BY <1>0, <3>1, <3>2
    <3>4. \A q \in Procs : phase'[q] # "ready" <=> held'[q] # <<>>
      BY <3>2
    <3> QED
      BY <3>2, <3>3, <3>4
  <2> QED
    BY <1>2, <2>1, <2>2, <2>3, <2>4 DEF Work
<1>3. Loop \in Procs /\ Main \in Procs /\ NonEmpty \subseteq Parts
  BY DEF Procs, NonEmpty
<1>4. ASSUME Tick PROVE TypeOK'
  BY <1>3, <1>4 DEF Tick, CollectKeys
<1>5. ASSUME FinalFlush PROVE TypeOK'
  BY <1>3, <1>5 DEF FinalFlush, CollectKeys
<1>6. ASSUME Cancel PROVE TypeOK'
  BY <1>6 DEF Cancel
<1>7. ASSUME ShutdownFlush PROVE TypeOK'
  BY <1>3, <1>7, BufferedRecords DEF ShutdownFlush, CollectKeys
<1>8. ASSUME Exit PROVE TypeOK'
  BY <1>8 DEF Exit
<1>9. ASSUME ListenFails PROVE TypeOK'
  BY <1>9 DEF ListenFails
<1>10. ASSUME UNCHANGED vars PROVE TypeOK'
  BY <1>10 DEF vars
<1> QED
  BY <1>1, <1>2, <1>4, <1>5, <1>6, <1>7, <1>8, <1>9, <1>10 DEF Next, Terminated

\* The state has the declared types in every execution, and a process holds
\* rows exactly while it is inside a write.
THEOREM TypeCorrect == Spec => []TypeOK
BY InitTypeOK, StepTypeOK, PTL DEF Spec

----------------------------------------------------------------------------
(* No silent loss.  NoRowLost is inductive once the types are known: each  *)
(* action moves rows between the four places.                              *)

\* Replacing the rows of partition k changes the buffer in that partition only.
LEMMA BufferedUpdate ==
  ASSUME TypeOK, NEW k \in Parts, NEW s, parts' = [parts EXCEPT ![k] = s]
  PROVE  /\ Buffered' \cup Range(parts[k]) = Buffered \cup Range(s)
            \cup Range(parts[k])
         /\ Range(s) \subseteq Buffered'
         /\ Buffered' \subseteq Buffered \cup Range(s)
<1>1. parts'[k] = s /\ \A l \in Parts \ {k} : parts'[l] = parts[l]
  BY DEF TypeOK
<1> QED
  BY <1>1 DEF Buffered

\* The same for the batch of process p.
LEMMA InFlightUpdate ==
  ASSUME TypeOK, NEW p \in Procs, NEW s, held' = [held EXCEPT ![p] = s]
  PROVE  /\ InFlight' \cup Range(held[p]) = InFlight \cup Range(s)
            \cup Range(held[p])
         /\ Range(s) \subseteq InFlight'
         /\ InFlight' \subseteq InFlight \cup Range(s)
<1>1. held'[p] = s /\ \A q \in Procs \ {p} : held'[q] = held[q]
  BY DEF TypeOK
<1> QED
  BY <1>1 DEF InFlight

\* An empty partition holds no rows.
LEMMA RangeOfEmpty == Range(<<>>) = {}
BY DEF Range

\* A write makes exactly the rows of the batch archived.
LEMMA StoreHeldArchives ==
  ASSUME TypeOK, NEW p \in Procs, StoreHeld(p)
  PROVE  Archived' = Archived \cup Range(held[p])
<1>1. Range(held[p]) \subseteq Records
  BY RangeOfSeq DEF TypeOK
<1>2. \A r \in Records : stored'[r] = IF r \in Range(held[p]) THEN stored[r] + 1
                                                             ELSE stored[r]
  BY DEF StoreHeld
<1>3. \A r \in Records : stored[r] \in Nat
  BY DEF TypeOK
<1> QED
  BY <1>1, <1>2, <1>3 DEF Archived

\* No step makes an appended row vanish: append and trim, take, write, failed
\* write and requeue only move rows between the four places.
LEMMA StepNoRowLost == TypeOK /\ NoRowLost /\ [Next]_vars => NoRowLost'
<1> SUFFICES ASSUME TypeOK, NoRowLost, [Next]_vars PROVE NoRowLost'
  OBVIOUS
<1>1. ASSUME NEW r \in Records, HandleRecord(r) PROVE NoRowLost'
  <2> DEFINE k == PartOf[r]
             rows == Append(parts[k], r)
  <2>1. k \in Parts /\ parts[k] \in Seq(Records) /\ arrived \in Seq(Records)
    BY PartOfAssumption DEF TypeOK
  <2>2. rows \in Seq(Records) /\ Range(rows) = Range(parts[k]) \cup {r}
    BY <2>1, RangeOfAppend
  <2>3. Range(arrived') = Range(arrived) \cup {r}
    BY <1>1, <2>1, RangeOfAppend DEF HandleRecord
  <2>4. /\ parts' = [parts EXCEPT ![k] = Trim(rows)]
        /\ dropped' = dropped \cup Overflow(rows)
        /\ UNCHANGED <<held, stored>>
    BY <1>1 DEF HandleRecord
  <2> HIDE DEF k, rows
  <2>5. Range(rows) = Range(Trim(rows)) \cup Overflow(rows)
    BY <2>2, RangeOfTrim DEF Overflow
  <2>6. Buffered' \cup dropped' = Buffered \cup dropped \cup {r}
    <3>1. /\ Buffered' \subseteq Buffered \cup Range(Trim(rows))
          /\ Range(Trim(rows)) \subseteq Buffered'
          /\ Buffered' \cup Range(parts[k]) = Buffered \cup Range(Trim(rows))
             \cup Range(parts[k])
      BY <2>1, <2>4, BufferedUpdate
    <3>2. Range(parts[k]) \subseteq Buffered
      BY <2>1 DEF Buffered
    <3> QED
      BY <3>1, <3>2, <2>2, <2>4, <2>5
  <2>7. InFlight' = InFlight /\ Archived' = Archived
    BY <2>4 DEF InFlight, Archived
  <2> QED
    BY <2>3, <2>6, <2>7 DEF NoRowLost
<1>2. ASSUME NEW p \in Procs, Work(p) PROVE NoRowLost'
  <2>1. ASSUME NEW k \in Parts, TakeRows(p, k) PROVE NoRowLost'
    <3>1. UNCHANGED <<arrived, stored, dropped>> /\ held[p] = <<>>
      BY <2>1 DEF TakeRows, TypeOK
    <3>2. Archived' = Archived
      BY <3>1 DEF Archived
    <3>3. CASE UNCHANGED <<parts, held, phase>>
      BY <3>1, <3>2, <3>3 DEF NoRowLost, Buffered, InFlight
    <3>4. CASE ~UNCHANGED <<parts, held, phase>>
      <4>1. /\ held' = [held EXCEPT ![p] = parts[k]]
            /\ parts' = [parts EXCEPT ![k] = <<>>]
        BY <2>1, <3>4 DEF TakeRows, RemoveRows
      <4>2. /\ Buffered' \cup Range(parts[k]) = Buffered \cup Range(parts[k])
            /\ Range(parts[k]) \subseteq Buffered
        BY <4>1, BufferedUpdate, RangeOfEmpty DEF Buffered
      <4>3. InFlight' = InFlight \cup Range(parts[k])
        BY <3>1, <4>1, InFlightUpdate, RangeOfEmpty
      <4> QED
        BY <3>1, <3>2, <4>2, <4>3 DEF NoRowLost
    <3> QED
      BY <3>3, <3>4
  <2>2. ASSUME PutSucceeds(p) PROVE NoRowLost'
    <3>1. /\ UNCHANGED <<arrived, parts, dropped>>
          /\ held' = [held EXCEPT ![p] = <<>>]
          /\ StoreHeld(p)
      BY <2>2 DEF PutSucceeds
    <3>2. Archived' = Archived \cup Range(held[p])
      BY <3>1, StoreHeldArchives
    <3>3. /\ InFlight' \cup Range(held[p]) = InFlight \cup Range(held[p])
          /\ Range(held[p]) \subseteq InFlight
      BY <3>1, InFlightUpdate, RangeOfEmpty DEF InFlight
    <3>4. Buffered' = Buffered
      BY <3>1 DEF Buffered
    <3> QED
      BY <3>1, <3>2, <3>3, <3>4 DEF NoRowLost
  <2>3. ASSUME PutFails(p) PROVE NoRowLost'
    <3>1. UNCHANGED <<arrived, parts, held, dropped>>
      BY <2>3 DEF PutFails
    <3>2. stored' = stored \/ StoreHeld(p)
      BY <2>3 DEF PutFails
    <3>3. Archived' = Archived \/ Archived' = Archived \cup Range(held[p])
      BY <3>2, StoreHeldArchives DEF Archived
    <3>4. Range(held[p]) \subseteq InFlight
      BY DEF InFlight
    <3>5. Buffered' = Buffered /\ InFlight' = InFlight
      BY <3>1 DEF Buffered, InFlight
    <3> QED
      BY <3>1, <3>3, <3>4, <3>5 DEF NoRowLost
  <2>4. ASSUME Requeue(p) PROVE NoRowLost'
    <3> DEFINE k == PartOf[held[p][1]]
               s == held[p] \o parts[k]
    <3>1. held[p] \in Seq(Records) /\ k \in Parts /\ parts[k] \in Seq(Records)
      BY <2>4, BatchHasPartition DEF Requeue, TypeOK
    <3>2. Range(s) = Range(held[p]) \cup Range(parts[k])
      BY <3>1, RangeOfRequeue
    <3>3. /\ parts' = [parts EXCEPT ![k] = s]
          /\ held' = [held EXCEPT ![p] = <<>>]
          /\ UNCHANGED <<arrived, stored, dropped>>
      BY <2>4, <3>1 DEF Requeue, Requeued, TypeOK
    <3> HIDE DEF k, s
    <3>4. Buffered' = Buffered \cup Range(held[p])
      <4>1. /\ Buffered' \cup Range(parts[k]) = Buffered \cup Range(s)
               \cup Range(parts[k])
            /\ Range(s) \subseteq Buffered'
            /\ Buffered' \subseteq Buffered \cup Range(s)
        BY <3>1, <3>3, BufferedUpdate
      <4>2. Range(parts[k]) \subseteq Buffered
        BY <3>1 DEF Buffered
      <4> QED
        BY <3>2, <4>1, <4>2
    <3>5. /\ InFlight' \cup Range(held[p]) = InFlight \cup Range(held[p])
          /\ Range(held[p]) \subseteq InFlight
      BY <3>3, InFlightUpdate, RangeOfEmpty DEF InFlight
    <3>6. Archived' = Archived
      BY <3>3 DEF Archived
    <3> QED
      BY <3>3, <3>4, <3>5, <3>6 DEF NoRowLost
  <2> QED
    BY <1>2, <2>1, <2>2, <2>3, <2>4 DEF Work
<1>3. ASSUME UNCHANGED <<arrived, parts, held, stored, dropped>>
      PROVE  NoRowLost'
  BY <1>3 DEF NoRowLost, Buffered, InFlight, Archived
<1> QED
  BY <1>1, <1>2, <1>3 DEF Next, Tick, FinalFlush, Cancel, ShutdownFlush, Exit,
     ListenFails, Terminated, vars

\* No row is silently lost: in every execution each appended row is buffered, in
\* flight, archived, or dropped by the overflow rule.
THEOREM NoLoss == Spec => []NoRowLost
<1>1. Init => NoRowLost
  BY RangeOfEmpty DEF Init, NoRowLost, Buffered, InFlight, Archived
<1> QED
  BY <1>1, TypeCorrect, StepNoRowLost, PTL DEF Spec

----------------------------------------------------------------------------
(* One owner.  OneOwner is inductive relative to the types and to           *)
(* NoRowLost, which says that a row in memory has arrived: a row that is    *)
(* appended now is therefore nowhere yet.                                   *)

\* A row that has not arrived is neither in memory nor in the archive.
LEMMA NewRowIsNowhere ==
  ASSUME NoRowLost, NEW r, r \notin Range(arrived)
  PROVE  r \notin Buffered /\ r \notin InFlight /\ r \notin Archived
BY DEF NoRowLost

\* What the append leaves in the partition is what was there, and the new row.
LEMMA RowsAfterHandle ==
  ASSUME TypeOK, NEW r \in Records, HandleRecord(r)
  PROVE  /\ PartOf[r] \in Parts
         /\ parts' = [parts EXCEPT ![PartOf[r]] = Trim(Append(parts[PartOf[r]], r))]
         /\ Range(parts'[PartOf[r]]) \subseteq Range(parts[PartOf[r]]) \cup {r}
         /\ \A l \in Parts \ {PartOf[r]} : parts'[l] = parts[l]
         /\ Buffered' \subseteq Buffered \cup {r}
<1> DEFINE k == PartOf[r]
           rows == Append(parts[k], r)
<1>1. k \in Parts /\ parts[k] \in Seq(Records)
  BY PartOfAssumption DEF TypeOK
<1>2. rows \in Seq(Records) /\ Range(rows) = Range(parts[k]) \cup {r}
  BY <1>1, RangeOfAppend
<1>3. parts' = [parts EXCEPT ![k] = Trim(rows)]
  BY DEF HandleRecord
<1> HIDE DEF k, rows
<1>4. Range(Trim(rows)) \subseteq Range(parts[k]) \cup {r}
  BY <1>2, RangeOfTrim
<1>5. parts'[k] = Trim(rows) /\ \A l \in Parts \ {k} : parts'[l] = parts[l]
  BY <1>1, <1>3 DEF TypeOK
<1>6. Range(parts'[k]) \subseteq Range(parts[k]) \cup {r}
  BY <1>4, <1>5
<1>7. Buffered' \subseteq Buffered \cup {r}
  BY <1>1, <1>5, <1>6 DEF Buffered
<1> QED
  BY <1>1, <1>3, <1>5, <1>6, <1>7 DEF k, rows

\* A flush that finds rows moves the whole partition into its own hands.
LEMMA RowsAfterTake ==
  ASSUME TypeOK, NEW p \in Procs, NEW k \in Parts, TakeRows(p, k),
         ~UNCHANGED <<parts, held, phase>>
  PROVE  /\ held[p] = <<>> /\ parts[k] # <<>>
         /\ held'[p] = parts[k] /\ \A q \in Procs \ {p} : held'[q] = held[q]
         /\ parts'[k] = <<>> /\ \A l \in Parts \ {k} : parts'[l] = parts[l]
         /\ phase'[p] = "put" /\ \A q \in Procs \ {p} : phase'[q] = phase[q]
<1>1. /\ parts[k] # <<>>
      /\ held' = [held EXCEPT ![p] = parts[k]]
      /\ parts' = [parts EXCEPT ![k] = <<>>]
      /\ phase' = [phase EXCEPT ![p] = "put"]
  BY DEF TakeRows, NothingToFlush, RemoveRows
<1>2. held[p] = <<>>
  BY DEF TakeRows, TypeOK
<1> QED
  BY <1>1, <1>2 DEF TypeOK

\* A requeue empties the hands of p and puts its batch in front of the
\* partition of the batch's first row.
LEMMA RowsAfterRequeue ==
  ASSUME TypeOK, NEW p \in Procs, Requeue(p)
  PROVE  /\ held[p] \in Seq(Records) /\ held[p] # <<>>
         /\ PartOf[held[p][1]] \in Parts
         /\ parts'[PartOf[held[p][1]]] = held[p] \o parts[PartOf[held[p][1]]]
         /\ Range(parts'[PartOf[held[p][1]]]) =
              Range(held[p]) \cup Range(parts[PartOf[held[p][1]]])
         /\ \A l \in Parts \ {PartOf[held[p][1]]} : parts'[l] = parts[l]
         /\ held'[p] = <<>> /\ \A q \in Procs \ {p} : held'[q] = held[q]
         /\ phase'[p] = "ready" /\ \A q \in Procs \ {p} : phase'[q] = phase[q]
<1> DEFINE k == PartOf[held[p][1]]
<1>1. held[p] \in Seq(Records) /\ held[p] # <<>>
  BY DEF Requeue, TypeOK
<1>2. k \in Parts /\ parts[k] \in Seq(Records)
  BY <1>1, BatchHasPartition DEF TypeOK
<1>3. /\ parts' = [parts EXCEPT ![k] = held[p] \o parts[k]]
      /\ held' = [held EXCEPT ![p] = <<>>]
      /\ phase' = [phase EXCEPT ![p] = "ready"]
  BY <1>2 DEF Requeue, Requeued, TypeOK
<1>4. Range(held[p] \o parts[k]) = Range(held[p]) \cup Range(parts[k])
  BY <1>1, <1>2, RangeOfRequeue
<1> HIDE DEF k
<1>5. /\ parts'[k] = held[p] \o parts[k]
      /\ \A l \in Parts \ {k} : parts'[l] = parts[l]
      /\ held'[p] = <<>> /\ \A q \in Procs \ {p} : held'[q] = held[q]
      /\ phase'[p] = "ready" /\ \A q \in Procs \ {p} : phase'[q] = phase[q]
  BY <1>2, <1>3 DEF TypeOK
<1> QED
  BY <1>1, <1>2, <1>4, <1>5 DEF k

\* No step puts a row into a second batch, or both into a batch and into the
\* buffer, or into the wrong partition.
LEMMA StepOneOwner ==
  TypeOK /\ NoRowLost /\ OneOwner /\ [Next]_vars => OneOwner'
<1> SUFFICES ASSUME TypeOK, NoRowLost, OneOwner, [Next]_vars PROVE OneOwner'
  OBVIOUS
<1>0. /\ \A k \in Parts : Range(parts[k]) \subseteq Buffered
      /\ \A p \in Procs : Range(held[p]) \subseteq InFlight
  BY DEF Buffered, InFlight
<1>1. ASSUME NEW r \in Records, HandleRecord(r) PROVE OneOwner'
  <2>1. r \notin Buffered /\ r \notin InFlight
    BY <1>1, NewRowIsNowhere DEF HandleRecord
  <2>2. /\ Range(parts'[PartOf[r]]) \subseteq Range(parts[PartOf[r]]) \cup {r}
        /\ \A l \in Parts \ {PartOf[r]} : parts'[l] = parts[l]
        /\ Buffered' \subseteq Buffered \cup {r}
    BY <1>1, RowsAfterHandle
  <2>3. held' = held
    BY <1>1 DEF HandleRecord
  <2>4. \A k \in Parts : \A x \in Range(parts'[k]) : PartOf[x] = k
    BY <2>2 DEF OneOwner
  <2>5. \A p \in Procs : \A x \in Range(held[p]) : x \notin Buffered'
    BY <1>0, <2>1, <2>2 DEF OneOwner
  <2> QED
    BY <2>3, <2>4, <2>5 DEF OneOwner
<1>2. ASSUME NEW p \in Procs, Work(p) PROVE OneOwner'
  <2>1. ASSUME NEW k \in Parts, TakeRows(p, k) PROVE OneOwner'
    <3>1. CASE UNCHANGED <<parts, held, phase>>
      BY <3>1 DEF OneOwner, Buffered
    <3>2. CASE ~UNCHANGED <<parts, held, phase>>
      <4>1. /\ parts[k] # <<>>
            /\ held'[p] = parts[k] /\ \A q \in Procs \ {p} : held'[q] = held[q]
            /\ parts'[k] = <<>> /\ \A l \in Parts \ {k} : parts'[l] = parts[l]
        BY <2>1, <3>2, RowsAfterTake
      <4>2. \A l \in Parts : \A x \in Range(parts'[l]) : l # k /\ PartOf[x] = l
        BY <4>1, RangeOfEmpty DEF OneOwner
      <4>3. Buffered' \subseteq Buffered /\ \A x \in Buffered' : PartOf[x] # k
        BY <4>1, <4>2, RangeOfEmpty DEF Buffered
      <4>4. parts[k][1] \in Range(parts[k])
        BY <4>1, BatchHasPartition DEF TypeOK
      <4>5. \A x \in Range(parts[k]) : PartOf[x] = k /\ x \in Buffered
        BY <1>0 DEF OneOwner
      <4>6. ASSUME NEW q \in Procs, NEW x \in Range(held'[q])
            PROVE  /\ PartOf[x] = PartOf[held'[q][1]]
                   /\ x \notin Buffered'
                   /\ \A u \in Procs \ {q} : x \notin Range(held'[u])
        <5>1. CASE q = p
          BY <5>1, <4>1, <4>3, <4>4, <4>5, <4>6 DEF OneOwner
        <5>2. CASE q # p
          <6>1. x \in Range(held[q]) /\ held'[q] = held[q]
            BY <4>1, <4>6, <5>2
          <6>2. /\ PartOf[x] = PartOf[held'[q][1]]
                /\ x \notin Buffered
                /\ \A u \in Procs \ {q} : x \notin Range(held[u])
            BY <6>1 DEF OneOwner
          <6> QED
            BY <6>2, <4>1, <4>3, <4>5
        <5> QED
          BY <5>1, <5>2
      <4> QED
        BY <4>2, <4>6 DEF OneOwner
    <3> QED
      BY <3>1, <3>2
  <2>2. ASSUME PutSucceeds(p) PROVE OneOwner'
    <3>1. parts' = parts /\ Buffered' = Buffered
      BY <2>2 DEF PutSucceeds, Buffered
    <3>2. held'[p] = <<>> /\ \A q \in Procs \ {p} : held'[q] = held[q]
      BY <2>2 DEF PutSucceeds, TypeOK
    <3>3. Range(held'[p]) = {}
      BY <3>2, RangeOfEmpty
    <3> QED
      BY <3>1, <3>2, <3>3 DEF OneOwner
  <2>3. ASSUME PutFails(p) PROVE OneOwner'
    BY <2>3 DEF PutFails, OneOwner, Buffered
  <2>4. ASSUME Requeue(p) PROVE OneOwner'
    <3> DEFINE k == PartOf[held[p][1]]
    <3>1. /\ k \in Parts
          /\ Range(parts'[k]) = Range(held[p]) \cup Range(parts[k])
          /\ \A l \in Parts \ {k} : parts'[l] = parts[l]
          /\ held'[p] = <<>> /\ \A q \in Procs \ {p} : held'[q] = held[q]
      BY <2>4, RowsAfterRequeue
    <3>2. \A x \in Range(held[p]) : PartOf[x] = k
      BY DEF OneOwner
    <3> HIDE DEF k
    <3>3. \A l \in Parts : \A x \in Range(parts'[l]) : PartOf[x] = l
      BY <3>1, <3>2 DEF OneOwner
    <3>4. Buffered' \subseteq Buffered \cup Range(held[p])
      BY <3>1 DEF Buffered
    <3>5. Range(held'[p]) = {}
      BY <3>1, RangeOfEmpty
    <3> QED
      BY <3>1, <3>3, <3>4, <3>5 DEF OneOwner
  <2> QED
    BY <1>2, <2>1, <2>2, <2>3, <2>4 DEF Work
<1>3. ASSUME UNCHANGED <<parts, held>> PROVE OneOwner'
  BY <1>3 DEF OneOwner, Buffered
<1> QED
  BY <1>1, <1>2, <1>3 DEF Next, Tick, FinalFlush, Cancel, ShutdownFlush, Exit,
     ListenFails, Terminated, vars

\* However flushes of the same partition overlap with appends, failed writes and
\* requeues, a row in memory is in one place, and in its own partition.
THEOREM OneOwnerHolds == Spec => []OneOwner
<1>1. Init => OneOwner
  BY RangeOfEmpty DEF Init, OneOwner
<1> QED
  BY <1>1, TypeCorrect, NoLoss, StepOneOwner, PTL DEF Spec
----------------------------------------------------------------------------
(* At most one object per row.  The counters of a row differ only by its    *)
(* confirmed write: a write that the store applied in spite of its error    *)
(* raises both.                                                             *)

UnsureIsStored == \A r \in Records : unsure[r] <= stored[r]

\* A write counts for exactly the rows of its batch.
LEMMA StoredAfterWrite ==
  ASSUME TypeOK, NEW p \in Procs, StoreHeld(p), NEW r \in Records
  PROVE  stored'[r] = IF r \in Range(held[p]) THEN stored[r] + 1 ELSE stored[r]
BY DEF StoreHeld

\* A row that is written has one owner, so the batch that is confirmed takes its
\* rows out of memory, and no other batch can write them again.
LEMMA StepArchivedOnce ==
  TypeOK /\ NoRowLost /\ OneOwner /\ UnsureIsStored /\ ArchivedOnce /\ [Next]_vars
    => UnsureIsStored' /\ ArchivedOnce'
<1> SUFFICES ASSUME TypeOK, NoRowLost, OneOwner, UnsureIsStored, ArchivedOnce,
                    [Next]_vars
             PROVE  UnsureIsStored' /\ ArchivedOnce'
  OBVIOUS
<1>0. /\ \A r \in Records : stored[r] \in Nat /\ unsure[r] \in Nat
      /\ \A p \in Procs : Range(held[p]) \subseteq InFlight
  BY DEF TypeOK, InFlight
\* Steps that add nothing to memory and leave the archive alone.
<1>1. ASSUME Buffered' \cup InFlight' \subseteq Buffered \cup InFlight,
             UNCHANGED <<stored, unsure>>
      PROVE  UnsureIsStored' /\ ArchivedOnce'
  BY <1>1 DEF UnsureIsStored, ArchivedOnce
<1>2. ASSUME NEW r \in Records, HandleRecord(r) PROVE UnsureIsStored' /\ ArchivedOnce'
  <2>1. UNCHANGED <<held, stored, unsure>> /\ InFlight' = InFlight
    BY <1>2 DEF HandleRecord, InFlight
  <2>2. Buffered' \subseteq Buffered \cup {r}
    BY <1>2, RowsAfterHandle
  <2>3. stored[r] = 0 /\ unsure[r] = 0
    <3>1. r \notin Archived
      BY <1>2, NewRowIsNowhere DEF HandleRecord
    <3> QED
      BY <1>0, <3>1 DEF Archived, UnsureIsStored
  <2> QED
    BY <2>1, <2>2, <2>3 DEF UnsureIsStored, ArchivedOnce
<1>3. ASSUME NEW p \in Procs, Work(p) PROVE UnsureIsStored' /\ ArchivedOnce'
  <2>1. ASSUME NEW k \in Parts, TakeRows(p, k) PROVE UnsureIsStored' /\ ArchivedOnce'
    <3>1. UNCHANGED <<stored, unsure>>
      BY <2>1 DEF TakeRows
    <3>2. CASE UNCHANGED <<parts, held, phase>>
      BY <1>1, <3>1, <3>2 DEF Buffered, InFlight
    <3>3. CASE ~UNCHANGED <<parts, held, phase>>
      <4>1. /\ held'[p] = parts[k] /\ \A q \in Procs \ {p} : held'[q] = held[q]
            /\ parts'[k] = <<>> /\ \A l \in Parts \ {k} : parts'[l] = parts[l]
        BY <2>1, <3>3, RowsAfterTake
      <4>2. Buffered' \subseteq Buffered
        BY <4>1, RangeOfEmpty DEF Buffered
      <4>3. InFlight' \subseteq InFlight \cup Buffered
        BY <4>1 DEF Buffered, InFlight
      <4> QED
        BY <1>1, <3>1, <4>2, <4>3
    <3> QED
      BY <3>2, <3>3
  <2>2. ASSUME PutSucceeds(p) PROVE UnsureIsStored' /\ ArchivedOnce'
    <3>1. /\ parts' = parts /\ unsure' = unsure /\ StoreHeld(p)
          /\ held'[p] = <<>> /\ \A q \in Procs \ {p} : held'[q] = held[q]
      BY <2>2 DEF PutSucceeds, TypeOK
    <3>2. Buffered' = Buffered /\ InFlight' \subseteq InFlight
      BY <3>1, RangeOfEmpty DEF Buffered, InFlight
    <3>3. \A r \in Range(held[p]) : r \notin Buffered' /\ r \notin InFlight'
      BY <3>1, <3>2, RangeOfEmpty DEF OneOwner, InFlight
    <3>4. ASSUME NEW r \in Records
          PROVE  /\ unsure'[r] <= stored'[r]
                 /\ stored'[r] <= unsure'[r] + 1
                 /\ r \in Buffered' \cup InFlight' => stored'[r] = unsure'[r]
      <4>1. stored'[r] = IF r \in Range(held[p]) THEN stored[r] + 1 ELSE stored[r]
        BY <3>1, StoredAfterWrite
      <4>2. CASE r \in Range(held[p])
        BY <1>0, <3>1, <3>3, <4>1, <4>2 DEF ArchivedOnce
      <4>3. CASE r \notin Range(held[p])
        BY <1>0, <3>1, <3>2, <4>1, <4>3 DEF ArchivedOnce, UnsureIsStored
      <4> QED
        BY <4>2, <4>3
    <3> QED
      BY <3>4 DEF UnsureIsStored, ArchivedOnce
  <2>3. ASSUME PutFails(p) PROVE UnsureIsStored' /\ ArchivedOnce'
    <3>1. Buffered' = Buffered /\ InFlight' = InFlight
      BY <2>3 DEF PutFails, Buffered, InFlight
    <3>2. CASE UNCHANGED <<stored, unsure>>
      BY <1>1, <3>1, <3>2
    <3>3. CASE ~UNCHANGED <<stored, unsure>>
      <4>1. /\ StoreHeld(p)
            /\ unsure' = [r \in Records |-> IF r \in Range(held[p]) THEN unsure[r] + 1
                                                                    ELSE unsure[r]]
        BY <2>3, <3>3 DEF PutFails
      <4>2. \A r \in Records :
              \/ stored'[r] = stored[r] /\ unsure'[r] = unsure[r]
              \/ stored'[r] = stored[r] + 1 /\ unsure'[r] = unsure[r] + 1
        BY <4>1, StoredAfterWrite
      <4> QED
        BY <1>0, <3>1, <4>2 DEF UnsureIsStored, ArchivedOnce
    <3> QED
      BY <3>2, <3>3
  <2>4. ASSUME Requeue(p) PROVE UnsureIsStored' /\ ArchivedOnce'
    <3>1. /\ Range(parts'[PartOf[held[p][1]]]) =
               Range(held[p]) \cup Range(parts[PartOf[held[p][1]]])
          /\ PartOf[held[p][1]] \in Parts
          /\ \A l \in Parts \ {PartOf[held[p][1]]} : parts'[l] = parts[l]
          /\ held'[p] = <<>> /\ \A q \in Procs \ {p} : held'[q] = held[q]
      BY <2>4, RowsAfterRequeue
    <3>2. Buffered' \subseteq Buffered \cup InFlight
      BY <1>0, <3>1 DEF Buffered
    <3>3. InFlight' \subseteq InFlight
      BY <3>1, RangeOfEmpty DEF InFlight
    <3>4. UNCHANGED <<stored, unsure>>
      BY <2>4 DEF Requeue
    <3> QED
      BY <1>1, <3>2, <3>3, <3>4
  <2> QED
    BY <1>3, <2>1, <2>2, <2>3, <2>4 DEF Work
<1>4. ASSUME UNCHANGED <<parts, held, stored, unsure>>
      PROVE  UnsureIsStored' /\ ArchivedOnce'
  BY <1>1, <1>4 DEF Buffered, InFlight
<1> QED
  BY <1>2, <1>3, <1>4 DEF Next, Tick, FinalFlush, Cancel, ShutdownFlush, Exit,
     ListenFails, Terminated, vars

\* A row is in one archive object, plus one for every write that the store
\* applied although it reported an error.
THEOREM ArchivedOnceHolds == Spec => []ArchivedOnce
<1>1. Init => UnsureIsStored /\ ArchivedOnce
  BY DEF Init, UnsureIsStored, ArchivedOnce
<1>2. Spec => [](UnsureIsStored /\ ArchivedOnce)
  BY <1>1, TypeCorrect, NoLoss, OneOwnerHolds, StepArchivedOnce, PTL DEF Spec
<1> QED
  BY <1>2, PTL
----------------------------------------------------------------------------
(* The flush of main.  As long as no write failed, a row that was buffered  *)
(* when main began its flush and is neither settled nor in some flush's     *)
(* hands sits in a partition that main still has on its list.               *)

NoFailureNoRequeue == failures = 0 => \A p \in Procs : phase[p] # "requeue"

CutoffKept ==
  main \in {"flushing", "exited"} /\ failures = 0 =>
    \A r \in cutoff :
      \/ r \in Archived \cup dropped \cup InFlight
      \/ r \in Buffered /\ PartOf[r] \in todo[Main]

ExitIsIdle == main = "exited" => Idle(Main)

ShutdownInv == NoFailureNoRequeue /\ CutoffKept /\ ExitIsIdle

\* An append drops the buffered rows that it does not keep.
LEMMA HandleKeepsOrDrops ==
  ASSUME TypeOK, NEW r \in Records, HandleRecord(r)
  PROVE  Buffered \subseteq Buffered' \cup dropped'
<1> DEFINE k == PartOf[r]
           rows == Append(parts[k], r)
<1>1. k \in Parts /\ parts[k] \in Seq(Records) /\ Range(rows) = Range(parts[k]) \cup {r}
  BY PartOfAssumption, RangeOfAppend DEF TypeOK
<1>2. dropped' = dropped \cup Overflow(rows)
  BY DEF HandleRecord
<1>3. parts'[k] = Trim(rows) /\ \A l \in Parts \ {k} : parts'[l] = parts[l]
  BY <1>1, RowsAfterHandle DEF TypeOK
<1> HIDE DEF k, rows
<1>4. Range(parts[k]) \subseteq Range(parts'[k]) \cup dropped'
  BY <1>1, <1>2, <1>3 DEF Overflow
<1> QED
  BY <1>1, <1>3, <1>4 DEF Buffered

\* Every step keeps track of the rows that main found in the buffer.
LEMMA StepShutdownInv ==
  TypeOK /\ OneOwner /\ ShutdownInv /\ [Next]_vars => ShutdownInv'
<1> SUFFICES ASSUME TypeOK, OneOwner, ShutdownInv, [Next]_vars PROVE ShutdownInv'
  OBVIOUS
<1>0. /\ Main \in Procs /\ Loop \in Procs /\ Loop # Main
      /\ \A r \in Records : r \in Procs /\ r # Main
      /\ failures \in Nat /\ Archived \subseteq Records
  BY ProcsAssumption, MaxFailuresAssumption DEF Procs, TypeOK, Archived
<1>1. CASE UNCHANGED vars
  BY <1>1 DEF vars, ShutdownInv, NoFailureNoRequeue, CutoffKept, ExitIsIdle, Idle,
     Buffered, InFlight, Archived
<1>2. CASE main \in {"exited", "failed"}
  <2>1. UNCHANGED vars
    BY <1>2 DEF Next, Work, HandleRecord, TakeRows, PutSucceeds, PutFails, Requeue,
       Tick, FinalFlush, Cancel, ShutdownFlush, Exit, ListenFails, Terminated, Alive
  <2> QED
    BY <1>1, <2>1
<1>3. ASSUME main \in {"serving", "flushing"}, NEW r \in Records, HandleRecord(r)
      PROVE  ShutdownInv'
  <2>1. Buffered \subseteq Buffered' \cup dropped' /\ InFlight' = InFlight
    BY <1>3, HandleKeepsOrDrops DEF HandleRecord, InFlight
  <2>2. /\ UNCHANGED <<phase, stored, failures, main, cutoff>>
        /\ dropped \subseteq dropped' /\ todo'[Main] = todo[Main]
    BY <1>0, <1>3 DEF HandleRecord, TypeOK
  <2>3. Archived' = Archived
    BY <2>2 DEF Archived
  <2>4. CutoffKept'
    BY <2>1, <2>2, <2>3 DEF ShutdownInv, CutoffKept
  <2> QED
    BY <1>3, <2>2, <2>4 DEF ShutdownInv, NoFailureNoRequeue, ExitIsIdle
<1>4. ASSUME main \in {"serving", "flushing"}, NEW p \in Procs, Work(p)
      PROVE  ShutdownInv'
  <2>0. main' = main /\ cutoff' = cutoff /\ ExitIsIdle'
    BY <1>4 DEF Work, TakeRows, PutSucceeds, PutFails, Requeue, ExitIsIdle
  <2>1. ASSUME NEW k \in Parts, TakeRows(p, k) PROVE ShutdownInv'
    <3>1. /\ UNCHANGED <<stored, dropped, failures>>
          /\ todo[Main] \subseteq todo'[Main] \cup {k}
          /\ Archived' = Archived
      BY <1>0, <2>1 DEF TakeRows, TypeOK, Archived
    <3>2. CASE UNCHANGED <<parts, held, phase>>
      <4>1. parts[k] = <<>>
        BY <2>1, <3>2 DEF TakeRows, NothingToFlush, TypeOK
      <4>2. \A r \in Buffered : PartOf[r] # k
        BY <4>1, RangeOfEmpty DEF Buffered, OneOwner
      <4>3. CutoffKept'
        BY <2>0, <3>1, <3>2, <4>2 DEF ShutdownInv, CutoffKept, Buffered, InFlight
      <4> QED
        BY <2>0, <3>1, <3>2, <4>3 DEF ShutdownInv, NoFailureNoRequeue
    <3>3. CASE ~UNCHANGED <<parts, held, phase>>
      <4>1. /\ held[p] = <<>>
            /\ held'[p] = parts[k] /\ \A q \in Procs \ {p} : held'[q] = held[q]
            /\ parts'[k] = <<>> /\ \A l \in Parts \ {k} : parts'[l] = parts[l]
            /\ phase'[p] = "put" /\ \A q \in Procs \ {p} : phase'[q] = phase[q]
        BY <2>1, <3>3, RowsAfterTake
      <4>2. InFlight \subseteq InFlight'
        BY <4>1, RangeOfEmpty DEF InFlight
      <4>3. \A r \in Buffered : r \in InFlight' \/ (r \in Buffered' /\ PartOf[r] # k)
        BY <4>1 DEF Buffered, InFlight, OneOwner
      <4>4. CutoffKept'
        BY <2>0, <3>1, <4>2, <4>3 DEF ShutdownInv, CutoffKept
      <4>5. NoFailureNoRequeue'
        BY <3>1, <4>1 DEF ShutdownInv, NoFailureNoRequeue
      <4> QED
        BY <2>0, <4>4, <4>5 DEF ShutdownInv
    <3> QED
      BY <3>2, <3>3
  <2>2. ASSUME PutSucceeds(p) PROVE ShutdownInv'
    <3>1. /\ UNCHANGED <<parts, todo, dropped, failures>>
          /\ held'[p] = <<>> /\ \A q \in Procs \ {p} : held'[q] = held[q]
          /\ phase'[p] = "ready" /\ \A q \in Procs \ {p} : phase'[q] = phase[q]
      BY <2>2 DEF PutSucceeds, TypeOK
    <3>2. Archived' = Archived \cup Range(held[p])
      BY <2>2, StoreHeldArchives DEF PutSucceeds
    <3>3. InFlight \subseteq InFlight' \cup Range(held[p]) /\ Buffered' = Buffered
      BY <3>1 DEF InFlight, Buffered
    <3>4. CutoffKept'
      BY <2>0, <3>1, <3>2, <3>3 DEF ShutdownInv, CutoffKept
    <3>5. NoFailureNoRequeue'
      BY <3>1 DEF ShutdownInv, NoFailureNoRequeue
    <3> QED
      BY <2>0, <3>4, <3>5 DEF ShutdownInv
  <2>3. ASSUME PutFails(p) PROVE ShutdownInv'
    <3>1. failures' # 0
      BY <1>0, <2>3 DEF PutFails
    <3> QED
      BY <2>0, <3>1 DEF ShutdownInv, CutoffKept, NoFailureNoRequeue
  <2>4. ASSUME Requeue(p) PROVE ShutdownInv'
    <3>1. failures' # 0
      BY <2>4 DEF Requeue, ShutdownInv, NoFailureNoRequeue
    <3> QED
      BY <2>0, <3>1 DEF ShutdownInv, CutoffKept, NoFailureNoRequeue
  <2> QED
    BY <1>4, <2>1, <2>2, <2>3, <2>4 DEF Work
<1>5. ASSUME Tick \/ FinalFlush \/ Cancel PROVE ShutdownInv'
  <2>1. /\ UNCHANGED <<parts, phase, held, stored, dropped, failures, main, cutoff>>
        /\ todo'[Main] = todo[Main]
    BY <1>0, <1>5 DEF Tick, FinalFlush, Cancel, CollectKeys, TypeOK
  <2> QED
    BY <2>1 DEF ShutdownInv, NoFailureNoRequeue, CutoffKept, ExitIsIdle, Idle,
       Buffered, InFlight, Archived
<1>6. ASSUME ShutdownFlush PROVE ShutdownInv'
  <2>1. /\ UNCHANGED <<parts, phase, failures>> /\ main' = "flushing"
        /\ cutoff' = Buffered /\ todo'[Main] = NonEmpty
    BY <1>0, <1>6 DEF ShutdownFlush, CollectKeys, TypeOK
  <2>2. \A r \in Buffered : r \in Buffered' /\ PartOf[r] \in NonEmpty
    BY <2>1, RangeOfEmpty DEF Buffered, NonEmpty, OneOwner
  <2> QED
    BY <2>1, <2>2 DEF ShutdownInv, NoFailureNoRequeue, CutoffKept, ExitIsIdle
<1>7. ASSUME Exit PROVE ShutdownInv'
  <2>1. /\ UNCHANGED <<parts, todo, phase, held, stored, dropped, failures, cutoff>>
        /\ Idle(Main) /\ main = "flushing"
    BY <1>7 DEF Exit, MayExit
  <2> QED
    BY <2>1 DEF ShutdownInv, NoFailureNoRequeue, CutoffKept, ExitIsIdle, Idle,
       Buffered, InFlight, Archived
<1>8. ASSUME ListenFails PROVE ShutdownInv'
  BY <1>8 DEF ListenFails, ShutdownInv, NoFailureNoRequeue, CutoffKept, ExitIsIdle
<1>9. main \in {"serving", "flushing", "exited", "failed"}
  BY DEF TypeOK
<1> QED
  BY <1>1, <1>2, <1>3, <1>4, <1>5, <1>6, <1>7, <1>8, <1>9 DEF Next, Terminated

\* What the last flush guarantees: after an exit without a failed write, a row
\* that was buffered when main began its flush is archived or dropped, or some
\* other goroutine was stopped in the middle of its write.
THEOREM ShutdownFlushes == Spec => []ShutdownFlushesBuffer
<1>1. Init => ShutdownInv
  BY DEF Init, ShutdownInv, NoFailureNoRequeue, CutoffKept, ExitIsIdle
<1>2. Spec => []ShutdownInv
  BY <1>1, TypeCorrect, OneOwnerHolds, StepShutdownInv, PTL DEF Spec
<1>3. TypeOK /\ ShutdownInv => ShutdownFlushesBuffer
  <2> SUFFICES ASSUME TypeOK, ShutdownInv, main = "exited", failures = 0,
                      NEW r \in cutoff \ (Archived \cup dropped)
               PROVE  \E p \in Procs \ {Main} : r \in Range(held[p])
    BY DEF ShutdownFlushesBuffer
  <2>1. todo[Main] = {} /\ held[Main] = <<>>
    BY DEF ShutdownInv, ExitIsIdle, Idle, TypeOK, Procs
  <2>2. r \in InFlight
    BY <2>1 DEF ShutdownInv, CutoffKept
  <2> QED
    BY <2>1, <2>2, RangeOfEmpty DEF InFlight
<1> QED
  BY <1>2, <1>3, TypeCorrect, PTL
----------------------------------------------------------------------------
(* The backlog.  Without failed writes, the rows of a partition beyond the  *)
(* flush threshold are paid for by handlers that are about to flush it.     *)

\* Only the handler of a row that was appended has a partition to flush.
FlushersArrived == \A r \in Records : todo[r] # {} => r \in Range(arrived)

BacklogInv == FlushersArrived /\ NoFailureNoRequeue /\ BacklogBound

\* A sequence has finitely many elements.
LEMMA FiniteRange ==
  ASSUME NEW S, NEW s \in Seq(S)
  PROVE  IsFiniteSet(Range(s))
<1>1. Len(s) \in Nat /\ s \in [1..Len(s) -> S] /\ Range(s) = {s[i] : i \in 1..Len(s)}
  BY LenProperties, RangeEquality
<1>2. s \in Surjection(1..Len(s), Range(s))
  BY <1>1 DEF Surjection
<1>3. ExistsSurjection(1..Len(s), Range(s))
  BY <1>2 DEF ExistsSurjection
<1> QED
  BY <1>1, <1>3, FS_NatSurjection

\* Trimming never makes a partition longer, and bounds it.
LEMMA LengthOfTrim ==
  ASSUME NEW rows \in Seq(Records)
  PROVE  /\ Len(Trim(rows)) \in Nat
         /\ Len(Trim(rows)) <= Len(rows)
         /\ Len(Trim(rows)) <= MaxRows
<1> DEFINE m == Len(rows) - MaxRows + 1
<1>0. Len(rows) \in Nat
  BY LenProperties
<1>1. CASE Len(rows) > MaxRows
  <2>1. m \in Int /\ m >= 1 /\ m <= Len(rows) /\ Trim(rows) = SubSeq(rows, m, Len(rows))
    BY <1>0, <1>1, MaxRowsAssumption DEF Trim
  <2>2. \A i \in m..Len(rows) : rows[i] \in Records
    BY <1>0, <2>1, ElementOfSeq
  <2>3. Len(Trim(rows)) = Len(rows) - m + 1
    <3> HIDE DEF m
    <3> QED BY <1>0, <2>1, <2>2, SubSeqProperties
  <2> QED
    BY <1>0, <2>3, <1>1, MaxRowsAssumption
<1>2. CASE ~(Len(rows) > MaxRows)
  BY <1>0, <1>2, MaxRowsAssumption DEF Trim
<1> QED
  BY <1>1, <1>2

\* The handlers about to flush a partition are finitely many.
LEMMA FiniteFlushers ==
  ASSUME TypeOK, FlushersArrived, NEW k
  PROVE  /\ IsFiniteSet(Flushers(k))
         /\ Cardinality(Flushers(k)) \in Nat
<1>1. Flushers(k) \subseteq Range(arrived)
  BY DEF Flushers, FlushersArrived
<1>2. IsFiniteSet(Range(arrived))
  BY FiniteRange DEF TypeOK
<1>3. IsFiniteSet(Flushers(k))
  BY <1>1, <1>2, FS_Subset
<1> QED
  BY <1>3, FS_CardinalityType

\* An append that reaches the threshold makes its handler a flusher; a flush
\* that stops being counted leaves an empty partition behind.
LEMMA StepBacklogInv == TypeOK /\ BacklogInv /\ [Next]_vars => BacklogInv'
<1> SUFFICES ASSUME TypeOK, BacklogInv, [Next]_vars PROVE BacklogInv'
  OBVIOUS
<1>0. /\ Main \notin Records /\ Loop \notin Records /\ Records \subseteq Procs
      /\ FlushRows \in Nat /\ FlushRows > 0 /\ failures \in Nat
      /\ \A l \in Parts : parts[l] \in Seq(Records) /\ Len(parts[l]) \in Nat
      /\ \A l \in Parts : Cardinality(Flushers(l)) \in Nat
  BY ProcsAssumption, FlushRowsAssumption, MaxFailuresAssumption, FiniteFlushers,
     LenProperties DEF Procs, TypeOK, BacklogInv
<1>1. ASSUME UNCHANGED <<arrived, parts, phase, failures>>,
             \A r \in Records : todo'[r] = todo[r]
      PROVE  BacklogInv'
  <2>1. \A l \in Parts : Flushers(l)' = Flushers(l)
    BY <1>1 DEF Flushers
  <2> QED
    BY <1>1, <2>1 DEF BacklogInv, FlushersArrived, NoFailureNoRequeue, BacklogBound
<1>2. ASSUME NEW r \in Records, HandleRecord(r) PROVE BacklogInv'
  <2> DEFINE k == PartOf[r]
             rows == Append(parts[k], r)
             kept == Trim(rows)
  <2>1. k \in Parts /\ rows \in Seq(Records) /\ Len(rows) = Len(parts[k]) + 1
    BY <1>0, PartOfAssumption, AppendProperties
  <2>2. /\ arrived' = Append(arrived, r)
        /\ parts' = [parts EXCEPT ![k] = kept]
        /\ todo' = [todo EXCEPT ![r] = IF ShouldFlush(kept) THEN {k} ELSE {}]
        /\ UNCHANGED <<phase, failures>>
    BY <1>2 DEF HandleRecord
  <2>3. Range(arrived') = Range(arrived) \cup {r} /\ r \notin Range(arrived)
    BY <1>2, <2>2, RangeOfAppend DEF TypeOK, HandleRecord
  <2>4. todo[r] = {}
    BY <2>3 DEF BacklogInv, FlushersArrived
  <2> HIDE DEF k, rows, kept
  <2>5. /\ parts'[k] = kept /\ \A l \in Parts \ {k} : parts'[l] = parts[l]
        /\ todo'[r] = IF ShouldFlush(kept) THEN {k} ELSE {}
        /\ \A q \in Procs \ {r} : todo'[q] = todo[q]
    BY <1>0, <2>1, <2>2 DEF TypeOK
  <2>6. FlushersArrived'
    BY <1>0, <2>3, <2>5 DEF BacklogInv, FlushersArrived
  <2>7. Len(kept) \in Nat /\ Len(kept) <= Len(parts[k]) + 1
    BY <2>1, LengthOfTrim DEF kept
  <2>8. ASSUME failures = 0, NEW l \in Parts
        PROVE  Len(parts'[l]) < FlushRows + Cardinality(Flushers(l)')
    <3>1. Len(parts[l]) < FlushRows + Cardinality(Flushers(l))
      BY <2>8 DEF BacklogInv, BacklogBound
    <3>2. CASE l # k
      <4>1. Flushers(l)' = Flushers(l)
        BY <1>0, <2>4, <2>5, <3>2 DEF Flushers
      <4> QED
        BY <2>5, <3>1, <3>2, <4>1
    <3>3. CASE l = k /\ ShouldFlush(kept)
      <4>1. Flushers(k)' = Flushers(k) \cup {r} /\ r \notin Flushers(k)
        BY <1>0, <2>4, <2>5, <3>3 DEF Flushers
      <4>2. Cardinality(Flushers(k)') = Cardinality(Flushers(k)) + 1
        BY <4>1, FiniteFlushers, FS_AddElement DEF BacklogInv
      <4> QED
        BY <1>0, <2>5, <2>7, <3>1, <3>3, <4>2
    <3>4. CASE l = k /\ ~ShouldFlush(kept)
      <4>1. Flushers(k)' = Flushers(k)
        BY <1>0, <2>4, <2>5, <3>4 DEF Flushers
      <4> QED
        BY <1>0, <2>5, <2>7, <3>4, <4>1 DEF ShouldFlush
    <3> QED
      BY <3>2, <3>3, <3>4
  <2>9. BacklogBound'
    BY <2>2, <2>8 DEF BacklogBound
  <2> QED
    BY <2>2, <2>6, <2>9 DEF BacklogInv, NoFailureNoRequeue
<1>3. ASSUME NEW p \in Procs, Work(p) PROVE BacklogInv'
  <2>1. ASSUME NEW k \in Parts, TakeRows(p, k) PROVE BacklogInv'
    <3>1. /\ UNCHANGED <<arrived, failures>>
          /\ todo'[p] = todo[p] \ {k} /\ \A q \in Procs \ {p} : todo'[q] = todo[q]
      BY <2>1 DEF TakeRows, TypeOK
    <3>2. /\ parts'[k] = <<>> /\ \A l \in Parts \ {k} : parts'[l] = parts[l]
          /\ \A q \in Procs : phase'[q] = "requeue" => phase[q] = "requeue"
      BY <2>1 DEF TakeRows, NothingToFlush, RemoveRows, TypeOK
    <3>3. FlushersArrived'
      BY <1>0, <3>1 DEF BacklogInv, FlushersArrived
    <3>4. NoFailureNoRequeue'
      BY <3>1, <3>2 DEF BacklogInv, NoFailureNoRequeue
    <3>5. \A l \in Parts \ {k} : Flushers(l)' = Flushers(l)
      BY <1>0, <3>1 DEF Flushers
    <3>6. Cardinality(Flushers(k)') \in Nat
      <4>1. Flushers(k)' \subseteq Flushers(k)
        BY <1>0, <3>1 DEF Flushers
      <4> QED
        BY <4>1, FiniteFlushers, FS_Subset, FS_CardinalityType DEF BacklogInv
    <3>7. Len(parts'[k]) = 0
      BY <3>2, EmptySeq
    <3>8. BacklogBound'
      BY <1>0, <3>1, <3>2, <3>5, <3>6, <3>7 DEF BacklogInv, BacklogBound
    <3> QED
      BY <3>3, <3>4, <3>8 DEF BacklogInv
  <2>2. ASSUME PutSucceeds(p) PROVE BacklogInv'
    <3>1. /\ UNCHANGED <<arrived, parts, todo, failures>>
          /\ \A q \in Procs : phase'[q] = "requeue" => phase[q] = "requeue"
      BY <2>2 DEF PutSucceeds, TypeOK
    <3>2. \A l \in Parts : Flushers(l)' = Flushers(l)
      BY <3>1 DEF Flushers
    <3> QED
      BY <3>1, <3>2 DEF BacklogInv, FlushersArrived, NoFailureNoRequeue, BacklogBound
  <2>3. ASSUME PutFails(p) \/ Requeue(p) PROVE BacklogInv'
    <3>1. failures' # 0 /\ UNCHANGED <<arrived, todo>>
      BY <1>0, <2>3 DEF PutFails, Requeue, BacklogInv, NoFailureNoRequeue
    <3> QED
      BY <3>1 DEF BacklogInv, FlushersArrived, NoFailureNoRequeue, BacklogBound
  <2> QED
    BY <1>3, <2>1, <2>2, <2>3 DEF Work
<1>4. ASSUME Tick \/ FinalFlush \/ ShutdownFlush PROVE BacklogInv'
  <2>1. /\ UNCHANGED <<arrived, parts, phase, failures>>
        /\ \A r \in Records : todo'[r] = todo[r]
    BY <1>0, <1>4 DEF Tick, FinalFlush, ShutdownFlush, CollectKeys, TypeOK
  <2> QED
    BY <1>1, <2>1
<1>5. ASSUME Cancel \/ Exit \/ ListenFails \/ UNCHANGED vars PROVE BacklogInv'
  BY <1>1, <1>5 DEF Cancel, Exit, ListenFails, vars
<1> QED
  BY <1>2, <1>3, <1>4, <1>5 DEF Next, Terminated

\* While no write fails, the buffer of a partition stays below the flush
\* threshold, except for one row per handler that is about to flush it.
THEOREM BacklogBounded == Spec => []BacklogBound
<1>1. Init => BacklogInv
  <2> SUFFICES ASSUME Init PROVE BacklogInv
    OBVIOUS
  <2>1. \A r \in Records : todo[r] = {}
    BY DEF Init, Procs
  <2>2. ASSUME NEW k \in Parts PROVE Cardinality(Flushers(k)) = 0
    <3>1. Flushers(k) = {}
      BY <2>1 DEF Flushers
    <3> QED
      BY <3>1, FS_EmptySet
  <2>3. ASSUME NEW k \in Parts PROVE Len(parts[k]) = 0
    <3>1. parts[k] = <<>>
      BY DEF Init
    <3> QED
      BY <3>1, EmptySeq
  <2>4. BacklogBound
    BY <2>2, <2>3, FlushRowsAssumption DEF BacklogBound
  <2>5. NoFailureNoRequeue
    BY DEF Init, NoFailureNoRequeue
  <2> QED
    BY <2>1, <2>4, <2>5 DEF BacklogInv, FlushersArrived
<1>2. Spec => []BacklogInv
  BY <1>1, TypeCorrect, StepBacklogInv, PTL DEF Spec
<1> QED
  BY <1>2, PTL DEF BacklogInv
----------------------------------------------------------------------------
(* The order of rows.  Up to the first requeue the buffer and every batch   *)
(* are in order of arrival, and a batch that may still go back is older     *)
(* than what its partition holds.  A second failed write breaks that: two   *)
(* batches of a partition may go back in either order.                      *)

InOrder(arr, a, b) == \E i, j \in 1..Len(arr) : i < j /\ arr[i] = a /\ arr[j] = b

Sorted(arr, s) == \A i, j \in 1..Len(s) : i < j => InOrder(arr, s[i], s[j])

Precedes(arr, s, t) == \A a \in Range(s), b \in Range(t) : InOrder(arr, a, b)

OneRequeue ==
  failures <= 1 =>
    \A p, q \in Procs : phase[p] = "requeue" /\ phase[q] = "requeue" => p = q

BatchIsOlder(p) ==
  failures = 0 \/ phase[p] = "requeue" =>
    Precedes(arrived, held[p], parts[PartOf[held[p][1]]])

OrderInv ==
  /\ NoFailureNoRequeue
  /\ OneRequeue
  /\ failures <= 1 =>
       /\ \A k \in Parts : Sorted(arrived, parts[k])
       /\ \A p \in Procs : Sorted(arrived, held[p])
       /\ \A p \in Procs : held[p] # <<>> => BatchIsOlder(p)

\* Later arrivals do not change the order of earlier ones, and come after them.
LEMMA OrderGrows ==
  ASSUME NEW arr \in Seq(Records), NEW e \in Records
  PROVE  /\ \A a, b : InOrder(arr, a, b) => InOrder(Append(arr, e), a, b)
         /\ \A a \in Range(arr) : InOrder(Append(arr, e), a, e)
<1> DEFINE new == Append(arr, e)
<1>1. /\ Len(arr) \in Nat /\ Len(new) = Len(arr) + 1
      /\ \A i \in 1..Len(arr) : new[i] = arr[i]
      /\ new[Len(arr) + 1] = e
  BY AppendProperties, LenProperties
<1>2. Range(arr) = {arr[i] : i \in 1..Len(arr)}
  BY RangeEquality
<1> HIDE DEF new
<1>3. ASSUME NEW a, NEW b, InOrder(arr, a, b) PROVE InOrder(new, a, b)
  <2>1. PICK i \in 1..Len(arr), j \in 1..Len(arr) : i < j /\ arr[i] = a /\ arr[j] = b
    BY <1>3 DEF InOrder
  <2>2. i \in 1..Len(new) /\ j \in 1..Len(new) /\ new[i] = a /\ new[j] = b
    BY <1>1, <2>1
  <2> QED
    BY <2>1, <2>2 DEF InOrder
<1>4. ASSUME NEW a \in Range(arr) PROVE InOrder(new, a, e)
  <2>1. PICK i \in 1..Len(arr) : arr[i] = a
    BY <1>2
  <2>2. /\ i \in 1..Len(new) /\ Len(arr) + 1 \in 1..Len(new) /\ i < Len(arr) + 1
        /\ new[i] = a /\ new[Len(arr) + 1] = e
    BY <1>1, <2>1
  <2> QED
    BY <2>2 DEF InOrder
<1> QED
  BY <1>3, <1>4 DEF new

\* What was in order stays so when a record arrives.
LEMMA OrderSurvives ==
  ASSUME NEW arr \in Seq(Records), NEW e \in Records, NEW s, NEW t
  PROVE  /\ Sorted(arr, s) => Sorted(Append(arr, e), s)
         /\ Precedes(arr, s, t) => Precedes(Append(arr, e), s, t)
BY OrderGrows DEF Sorted, Precedes

\* The record that arrives last may be appended to rows that have arrived.
LEMMA SortedAppend ==
  ASSUME NEW arr \in Seq(Records), NEW e \in Records, NEW s \in Seq(Records),
         Sorted(arr, s), Range(s) \subseteq Range(arr)
  PROVE  Sorted(Append(arr, e), Append(s, e))
<1> DEFINE t == Append(s, e)
<1>1. /\ Len(s) \in Nat /\ Len(t) = Len(s) + 1
      /\ \A i \in 1..Len(s) : t[i] = s[i]
      /\ t[Len(s) + 1] = e
  BY AppendProperties, LenProperties
<1>2. \A i \in 1..Len(s) : s[i] \in Range(arr)
  BY RangeEquality
<1> HIDE DEF t
<1>3. ASSUME NEW i \in 1..Len(t), NEW j \in 1..Len(t), i < j
      PROVE  InOrder(Append(arr, e), t[i], t[j])
  <2>1. i \in 1..Len(s)
    BY <1>1, <1>3
  <2>2. CASE j = Len(s) + 1
    BY <1>1, <1>2, <2>1, <2>2, OrderGrows
  <2>3. CASE j # Len(s) + 1
    <3>1. j \in 1..Len(s)
      BY <1>1, <2>3
    <3>2. InOrder(arr, s[i], s[j])
      BY <1>3, <2>1, <3>1 DEF Sorted
    <3> QED
      BY <1>1, <2>1, <3>1, <3>2, OrderGrows
  <2> QED
    BY <2>2, <2>3
<1> QED
  BY <1>3 DEF Sorted, t

\* A batch in front of younger rows.
LEMMA SortedConcat ==
  ASSUME NEW arr, NEW s \in Seq(Records), NEW t \in Seq(Records),
         Sorted(arr, s), Sorted(arr, t), Precedes(arr, s, t)
  PROVE  Sorted(arr, s \o t)
<1> DEFINE u == s \o t
<1>1. /\ Len(s) \in Nat /\ Len(t) \in Nat /\ Len(u) = Len(s) + Len(t)
      /\ \A i \in 1..Len(u) : u[i] = IF i <= Len(s) THEN s[i] ELSE t[i - Len(s)]
  BY ConcatProperties, LenProperties
<1>2. Range(s) = {s[i] : i \in 1..Len(s)} /\ Range(t) = {t[i] : i \in 1..Len(t)}
  BY RangeEquality
<1> HIDE DEF u
<1>3. ASSUME NEW i \in 1..Len(u), NEW j \in 1..Len(u), i < j
      PROVE  InOrder(arr, u[i], u[j])
  <2>1. CASE j <= Len(s)
    <3>1. i \in 1..Len(s) /\ j \in 1..Len(s) /\ u[i] = s[i] /\ u[j] = s[j]
      BY <1>1, <1>3, <2>1
    <3> QED
      BY <1>3, <3>1 DEF Sorted
  <2>2. CASE i <= Len(s) /\ ~(j <= Len(s))
    <3>1. /\ i \in 1..Len(s) /\ j - Len(s) \in 1..Len(t)
          /\ u[i] = s[i] /\ u[j] = t[j - Len(s)]
      BY <1>1, <1>3, <2>2
    <3> QED
      BY <1>2, <3>1 DEF Precedes
  <2>3. CASE ~(i <= Len(s))
    <3>1. /\ i - Len(s) \in 1..Len(t) /\ j - Len(s) \in 1..Len(t)
          /\ i - Len(s) < j - Len(s)
          /\ u[i] = t[i - Len(s)] /\ u[j] = t[j - Len(s)]
      BY <1>1, <1>3, <2>3
    <3> QED
      BY <3>1 DEF Sorted
  <2> QED
    BY <1>1, <1>3, <2>1, <2>2, <2>3
<1> QED
  BY <1>3 DEF Sorted, u

\* Trimming cuts off a prefix.
LEMMA TrimCutsPrefix ==
  ASSUME NEW rows \in Seq(Records)
  PROVE  \E c \in Nat :
           /\ Len(Trim(rows)) = Len(rows) - c
           /\ \A i \in 1..Len(Trim(rows)) : Trim(rows)[i] = rows[i + c]
<1>0. Len(rows) \in Nat
  BY LenProperties
<1>1. CASE Len(rows) > MaxRows
  <2> DEFINE c == Len(rows) - MaxRows
  <2>1. /\ c \in Nat /\ c + 1 \in Int /\ c + 1 >= 1 /\ c + 1 <= Len(rows)
        /\ Trim(rows) = SubSeq(rows, c + 1, Len(rows))
    BY <1>0, <1>1, MaxRowsAssumption DEF Trim
  <2> HIDE DEF c
  <2>2. \A i \in (c + 1)..Len(rows) : rows[i] \in Records
    BY <1>0, <2>1, ElementOfSeq
  <2>3. /\ Len(Trim(rows)) = Len(rows) - (c + 1) + 1
        /\ \A i \in 1..(Len(rows) - (c + 1) + 1) : Trim(rows)[i] = rows[(c + 1) + i - 1]
    BY <1>0, <2>1, <2>2, SubSeqProperties
  <2>4. Len(Trim(rows)) = Len(rows) - c
    BY <1>0, <2>1, <2>3
  <2>5. ASSUME NEW i \in 1..Len(Trim(rows)) PROVE Trim(rows)[i] = rows[i + c]
    <3>1. (c + 1) + i - 1 = i + c /\ i \in 1..(Len(rows) - (c + 1) + 1)
      BY <1>0, <2>1, <2>4
    <3>2. Trim(rows)[i] = rows[(c + 1) + i - 1]
      BY <2>3, <3>1
    <3> QED
      BY <3>1, <3>2
  <2> QED
    BY <2>1, <2>4, <2>5
<1>2. CASE ~(Len(rows) > MaxRows)
  <2>1. Trim(rows) = rows
    BY <1>2 DEF Trim
  <2> QED
    BY <1>0, <2>1
<1> QED
  BY <1>1, <1>2

\* What trimming keeps of sorted rows is sorted and younger than what it cuts.
LEMMA SortedTrim ==
  ASSUME NEW arr, NEW rows \in Seq(Records), Sorted(arr, rows)
  PROVE  /\ Sorted(arr, Trim(rows))
         /\ \A d \in Overflow(rows), x \in Range(Trim(rows)) : InOrder(arr, d, x)
<1>0. Len(rows) \in Nat /\ Trim(rows) \in Seq(Records)
  BY LenProperties, RangeOfTrim
<1>1. PICK c \in Nat : /\ Len(Trim(rows)) = Len(rows) - c
                       /\ \A i \in 1..Len(Trim(rows)) : Trim(rows)[i] = rows[i + c]
  BY TrimCutsPrefix
<1>2. /\ Range(rows) = {rows[i] : i \in 1..Len(rows)}
      /\ Range(Trim(rows)) = {Trim(rows)[i] : i \in 1..Len(Trim(rows))}
  BY <1>0, RangeEquality
<1>3. Sorted(arr, Trim(rows))
  <2> SUFFICES ASSUME NEW i \in 1..Len(Trim(rows)), NEW j \in 1..Len(Trim(rows)), i < j
               PROVE  InOrder(arr, Trim(rows)[i], Trim(rows)[j])
    BY DEF Sorted
  <2>1. i + c \in 1..Len(rows) /\ j + c \in 1..Len(rows) /\ i + c < j + c
    BY <1>0, <1>1
  <2> QED
    BY <1>1, <2>1 DEF Sorted
<1>4. ASSUME NEW d \in Overflow(rows), NEW x \in Range(Trim(rows))
      PROVE  InOrder(arr, d, x)
  <2>1. PICK i \in 1..Len(rows) : d = rows[i]
    BY <1>2 DEF Overflow
  <2>2. PICK j \in 1..Len(Trim(rows)) : x = rows[j + c]
    BY <1>1, <1>2
  <2>3. ~(i > c)
    <3> SUFFICES ASSUME i > c PROVE FALSE
      OBVIOUS
    <3>1. i - c \in 1..Len(Trim(rows)) /\ (i - c) + c = i
      BY <1>0, <1>1
    <3>2. Trim(rows)[i - c] = d
      BY <1>1, <2>1, <3>1
    <3> QED
      BY <1>2, <3>1, <3>2 DEF Overflow
  <2>4. j + c \in 1..Len(rows) /\ i < j + c
    BY <1>0, <1>1, <2>3
  <2> QED
    BY <2>1, <2>2, <2>4 DEF Sorted
<1> QED
  BY <1>3, <1>4
\* Appends keep the order, a batch that leaves or returns keeps it too, and after
\* two failed writes nothing is claimed any more.
LEMMA StepOrderInv ==
  TypeOK /\ NoRowLost /\ OneOwner /\ OrderInv /\ [Next]_vars => OrderInv'
<1> SUFFICES ASSUME TypeOK, NoRowLost, OneOwner, OrderInv, [Next]_vars PROVE OrderInv'
  OBVIOUS
<1>0. /\ failures \in Nat
      /\ \A k \in Parts : parts[k] \in Seq(Records) /\ Range(parts[k]) \subseteq Range(arrived)
      /\ \A p \in Procs : held[p] \in Seq(Records) /\ Range(held[p]) \subseteq Range(arrived)
  BY MaxFailuresAssumption DEF TypeOK, NoRowLost, Buffered, InFlight
<1>1. CASE UNCHANGED <<arrived, parts, phase, held, failures>>
  BY <1>1 DEF OrderInv, NoFailureNoRequeue, OneRequeue, BatchIsOlder
<1>2. ASSUME NEW r \in Records, HandleRecord(r) PROVE OrderInv'
  <2> DEFINE k == PartOf[r]
             rows == Append(parts[k], r)
  <2>1. /\ k \in Parts /\ parts' = [parts EXCEPT ![k] = Trim(rows)]
        /\ \A l \in Parts \ {k} : parts'[l] = parts[l]
    BY <1>2, RowsAfterHandle
  <2>2. /\ arrived \in Seq(Records) /\ arrived' = Append(arrived, r)
        /\ UNCHANGED <<phase, held, failures>>
    BY <1>2 DEF HandleRecord, TypeOK
  <2>3. rows \in Seq(Records) /\ Range(rows) = Range(parts[k]) \cup {r}
    BY <1>0, <2>1, RangeOfAppend
  <2>4. ASSUME failures <= 1 PROVE Sorted(arrived', Trim(rows))
    <3>1. Sorted(arrived, parts[k])
      BY <2>1, <2>4 DEF OrderInv
    <3>2. Sorted(arrived', rows)
      BY <1>0, <2>1, <2>2, <3>1, SortedAppend
    <3> QED
      BY <2>3, <3>2, SortedTrim
  <2> HIDE DEF k, rows
  <2>5. parts'[k] = Trim(rows) /\ Range(Trim(rows)) \subseteq Range(parts[k]) \cup {r}
    BY <2>1, <2>3, RangeOfTrim DEF TypeOK
  <2>6. ASSUME failures <= 1, NEW l \in Parts PROVE Sorted(arrived', parts'[l])
    <3>1. CASE l = k
      BY <2>4, <2>5, <2>6, <3>1
    <3>2. CASE l # k
      <4>1. Sorted(arrived, parts[l]) /\ parts'[l] = parts[l]
        BY <2>1, <2>6, <3>2 DEF OrderInv
      <4> QED
        BY <2>2, <4>1, OrderSurvives
    <3> QED
      BY <3>1, <3>2
  <2>7. ASSUME failures <= 1, NEW p \in Procs PROVE Sorted(arrived', held'[p])
    BY <2>2, <2>7, OrderSurvives DEF OrderInv
  <2>8. ASSUME failures <= 1, NEW p \in Procs, held'[p] # <<>> PROVE BatchIsOlder(p)'
    <3> DEFINE l == PartOf[held[p][1]]
    <3> SUFFICES ASSUME failures = 0 \/ phase[p] = "requeue",
                        NEW a \in Range(held[p]), NEW b \in Range(parts'[l])
                 PROVE  InOrder(arrived', a, b)
      BY <2>2 DEF BatchIsOlder, Precedes
    <3>1. l \in Parts
      BY <1>0, <2>2, <2>8, BatchHasPartition
    <3>2. Precedes(arrived, held[p], parts[l])
      BY <2>2, <2>8 DEF OrderInv, BatchIsOlder
    <3> HIDE DEF l
    <3>3. b \in Range(parts[l]) \/ b = r
      BY <2>1, <2>5, <3>1
    <3>4. CASE b \in Range(parts[l])
      BY <2>2, <3>2, <3>4, OrderGrows DEF Precedes
    <3>5. CASE b = r
      BY <1>0, <2>2, <3>5, OrderGrows
    <3> QED
      BY <3>3, <3>4, <3>5
  <2> QED
    BY <2>2, <2>6, <2>7, <2>8 DEF OrderInv, NoFailureNoRequeue, OneRequeue
<1>3. ASSUME NEW p \in Procs, Work(p) PROVE OrderInv'
  <2>1. ASSUME NEW k \in Parts, TakeRows(p, k) PROVE OrderInv'
    <3>1. UNCHANGED <<arrived, failures>>
      BY <2>1 DEF TakeRows
    <3>2. CASE UNCHANGED <<parts, held, phase>>
      BY <1>1, <3>1, <3>2
    <3>3. CASE ~UNCHANGED <<parts, held, phase>>
      <4>1. /\ parts[k] # <<>>
            /\ held'[p] = parts[k] /\ \A q \in Procs \ {p} : held'[q] = held[q]
            /\ parts'[k] = <<>> /\ \A l \in Parts \ {k} : parts'[l] = parts[l]
            /\ phase'[p] = "put" /\ \A q \in Procs \ {p} : phase'[q] = phase[q]
        BY <2>1, <3>3, RowsAfterTake
      <4>2. PartOf[parts[k][1]] = k
        BY <1>0, <4>1, BatchHasPartition DEF OneOwner
      <4>3. \A arr : Sorted(arr, <<>>) /\ \A s : Precedes(arr, s, <<>>)
        BY RangeOfEmpty DEF Sorted, Precedes
      <4>4. ASSUME failures <= 1
            PROVE  /\ \A l \in Parts : Sorted(arrived', parts'[l])
                   /\ \A q \in Procs : Sorted(arrived', held'[q])
        BY <3>1, <4>1, <4>3, <4>4 DEF OrderInv
      <4>5. ASSUME failures <= 1, NEW q \in Procs, held'[q] # <<>> PROVE BatchIsOlder(q)'
        <5>1. CASE q = p
          BY <4>1, <4>2, <4>3, <5>1 DEF BatchIsOlder
        <5>2. CASE q # p
          <6>1. BatchIsOlder(q) /\ held'[q] = held[q] /\ phase'[q] = phase[q]
            BY <4>1, <4>5, <5>2 DEF OrderInv
          <6>2. PartOf[held[q][1]] \in Parts
            BY <1>0, <4>5, <6>1, BatchHasPartition
          <6> QED
            BY <3>1, <4>1, <4>3, <6>1, <6>2 DEF BatchIsOlder
        <5> QED
          BY <5>1, <5>2
      <4>6. NoFailureNoRequeue' /\ OneRequeue'
        BY <3>1, <4>1 DEF OrderInv, NoFailureNoRequeue, OneRequeue
      <4> QED
        BY <3>1, <4>4, <4>5, <4>6 DEF OrderInv
    <3> QED
      BY <3>2, <3>3
  <2>2. ASSUME PutSucceeds(p) PROVE OrderInv'
    <3>1. /\ UNCHANGED <<arrived, parts, failures>>
          /\ held'[p] = <<>> /\ \A q \in Procs \ {p} : held'[q] = held[q]
          /\ phase'[p] = "ready" /\ \A q \in Procs \ {p} : phase'[q] = phase[q]
      BY <2>2 DEF PutSucceeds, TypeOK
    <3>2. Sorted(arrived, <<>>)
      BY EmptySeq DEF Sorted
    <3>3. NoFailureNoRequeue' /\ OneRequeue'
      BY <3>1 DEF OrderInv, NoFailureNoRequeue, OneRequeue
    <3>4. \A q \in Procs : held'[q] # <<>> =>
            /\ held[q] # <<>> /\ held'[q] = held[q] /\ phase'[q] = phase[q]
      BY <3>1
    <3>5. failures <= 1 =>
            /\ \A l \in Parts : Sorted(arrived', parts'[l])
            /\ \A q \in Procs : Sorted(arrived', held'[q])
            /\ \A q \in Procs : held'[q] # <<>> => BatchIsOlder(q)'
      BY <3>1, <3>2, <3>4 DEF OrderInv, BatchIsOlder
    <3> QED
      BY <3>1, <3>3, <3>5 DEF OrderInv
  <2>3. ASSUME PutFails(p) PROVE OrderInv'
    <3>1. /\ UNCHANGED <<arrived, parts, held>> /\ failures' = failures + 1
          /\ phase'[p] = "requeue" /\ \A q \in Procs \ {p} : phase'[q] = phase[q]
      BY <2>3 DEF PutFails, TypeOK
    <3>2. CASE failures = 0
      <4>1. \A q \in Procs \ {p} : phase'[q] # "requeue"
        BY <3>1, <3>2 DEF OrderInv, NoFailureNoRequeue
      <4>2. \A q \in Procs : held[q] # <<>> => BatchIsOlder(q)'
        BY <3>1, <3>2 DEF OrderInv, BatchIsOlder
      <4>3. NoFailureNoRequeue' /\ OneRequeue'
        BY <3>1, <3>2, <4>1 DEF NoFailureNoRequeue, OneRequeue
      <4> QED
        BY <3>1, <3>2, <4>2, <4>3 DEF OrderInv
    <3>3. CASE failures # 0
      BY <1>0, <3>1, <3>3 DEF OrderInv, NoFailureNoRequeue, OneRequeue
    <3> QED
      BY <3>2, <3>3
  <2>4. ASSUME Requeue(p) PROVE OrderInv'
    <3> DEFINE k == PartOf[held[p][1]]
    <3>1. /\ held[p] \in Seq(Records) /\ held[p] # <<>> /\ k \in Parts
          /\ parts'[k] = held[p] \o parts[k]
          /\ \A l \in Parts \ {k} : parts'[l] = parts[l]
          /\ held'[p] = <<>> /\ \A q \in Procs \ {p} : held'[q] = held[q]
          /\ phase'[p] = "ready" /\ \A q \in Procs \ {p} : phase'[q] = phase[q]
      BY <2>4, RowsAfterRequeue
    <3>2. UNCHANGED <<arrived, failures>> /\ phase[p] = "requeue" /\ failures # 0
      BY <2>4 DEF Requeue, OrderInv, NoFailureNoRequeue
    <3>3. ASSUME failures <= 1 PROVE Sorted(arrived, parts'[k])
      <4>1. /\ Sorted(arrived, held[p]) /\ Sorted(arrived, parts[k])
            /\ Precedes(arrived, held[p], parts[k])
        BY <3>1, <3>2, <3>3 DEF OrderInv, BatchIsOlder
      <4> QED
        BY <1>0, <3>1, <4>1, SortedConcat
    <3> HIDE DEF k
    <3>4. Sorted(arrived, <<>>)
      BY EmptySeq DEF Sorted
    <3>5. ASSUME failures <= 1, NEW q \in Procs PROVE phase'[q] # "requeue"
      BY <3>1, <3>2, <3>5 DEF OrderInv, OneRequeue
    <3>6. ASSUME failures <= 1
          PROVE  /\ \A l \in Parts : Sorted(arrived', parts'[l])
                 /\ \A q \in Procs : Sorted(arrived', held'[q])
                 /\ \A q \in Procs : BatchIsOlder(q)'
      BY <3>1, <3>2, <3>3, <3>4, <3>5, <3>6 DEF OrderInv, BatchIsOlder
    <3> QED
      BY <3>2, <3>5, <3>6 DEF OrderInv, NoFailureNoRequeue, OneRequeue
  <2> QED
    BY <1>3, <2>1, <2>2, <2>3, <2>4 DEF Work
<1> QED
  BY <1>1, <1>2, <1>3 DEF Next, Tick, FinalFlush, Cancel, ShutdownFlush, Exit,
     ListenFails, Terminated, vars

\* An append that overflows drops rows that arrived before all that stay, as
\* long as at most one write failed.
LEMMA StepDropsOldest ==
  TypeOK /\ NoRowLost /\ OneOwner /\ OrderInv /\ [Next]_vars
    => [failures <= 1 => DropsOldest]_vars
<1> SUFFICES ASSUME TypeOK, NoRowLost, OneOwner, OrderInv, Next, failures <= 1,
                    NEW d \in dropped' \ dropped, NEW x \in Range(parts'[PartOf[d]])
             PROVE  Before(d, x)'
  BY DEF DropsOldest
<1>1. PICK r \in Records : HandleRecord(r)
  BY DEF Next, Work, TakeRows, PutSucceeds, PutFails, Requeue, Tick, FinalFlush,
     Cancel, ShutdownFlush, Exit, ListenFails, Terminated, vars
<1> DEFINE k == PartOf[r]
           rows == Append(parts[k], r)
<1>2. k \in Parts /\ parts[k] \in Seq(Records) /\ arrived \in Seq(Records)
  BY PartOfAssumption DEF TypeOK
<1>3. rows \in Seq(Records) /\ Range(rows) = Range(parts[k]) \cup {r}
  BY <1>2, RangeOfAppend
<1>4. parts'[k] = Trim(rows)
  BY <1>1, <1>2, RowsAfterHandle DEF TypeOK
<1>5. arrived' = Append(arrived, r) /\ d \in Overflow(rows)
  BY <1>1 DEF HandleRecord
<1>6. Sorted(arrived', rows)
  <2>1. Sorted(arrived, parts[k]) /\ Range(parts[k]) \subseteq Range(arrived)
    BY <1>2 DEF OrderInv, NoRowLost, Buffered
  <2> QED
    BY <1>2, <1>5, <2>1, SortedAppend
<1>7. \A y \in Range(rows) : PartOf[y] = k
  BY <1>2, <1>3 DEF OneOwner
<1> HIDE DEF rows
<1>8. PartOf[d] = k
  BY <1>5, <1>7 DEF Overflow
<1>9. InOrder(arrived', d, x)
  BY <1>3, <1>4, <1>5, <1>6, <1>8, SortedTrim
<1> QED
  BY <1>9 DEF InOrder, Before

\* The overflow rule drops the oldest rows in every execution with at most one
\* failed write.
THEOREM DropsOldestHolds == Spec => DropsOldestFirstIfInOrder
<1>1. Init => OrderInv
  <2> SUFFICES ASSUME Init PROVE OrderInv
    OBVIOUS
  <2>1. \A k \in Parts : Sorted(arrived, parts[k])
    BY EmptySeq DEF Init, Sorted
  <2>2. \A p \in Procs : Sorted(arrived, held[p]) /\ held[p] = <<>> /\ phase[p] = "ready"
    BY EmptySeq DEF Init, Sorted
  <2> QED
    BY <2>1, <2>2 DEF OrderInv, NoFailureNoRequeue, OneRequeue
<1>2. Spec => []OrderInv
  BY <1>1, TypeCorrect, NoLoss, OneOwnerHolds, StepOrderInv, PTL DEF Spec
<1> QED
  BY <1>2, TypeCorrect, NoLoss, OneOwnerHolds, StepDropsOldest, PTL
     DEF Spec, DropsOldestFirstIfInOrder
----------------------------------------------------------------------------
(* The writer implements the archive log, step by step.  What the log      *)
(* counts are rows, so the proof needs that no sequence holds a row twice.  *)

Distinct(s) == \A i, j \in 1..Len(s) : s[i] = s[j] => i = j

NoRowTwice ==
  /\ \A k \in Parts : Distinct(parts[k])
  /\ \A p \in Procs : Distinct(held[p])

DroppedIsGone == dropped \cap (Buffered \cup InFlight) = {}

\* A new row may be appended.
LEMMA DistinctAppend ==
  ASSUME NEW s \in Seq(Records), NEW e \in Records, Distinct(s), e \notin Range(s)
  PROVE  Distinct(Append(s, e))
<1>1. /\ Len(s) \in Nat /\ Len(Append(s, e)) = Len(s) + 1
      /\ \A i \in 1..Len(s) : Append(s, e)[i] = s[i]
      /\ Append(s, e)[Len(s) + 1] = e
  BY AppendProperties, LenProperties
<1>2. \A i \in 1..Len(s) : s[i] # e
  BY RangeEquality
<1> QED
  BY <1>1, <1>2 DEF Distinct

\* What trimming keeps has no row twice.
LEMMA DistinctTrim ==
  ASSUME NEW rows \in Seq(Records), Distinct(rows)
  PROVE  Distinct(Trim(rows))
<1>1. PICK c \in Nat : /\ Len(Trim(rows)) = Len(rows) - c
                       /\ \A i \in 1..Len(Trim(rows)) : Trim(rows)[i] = rows[i + c]
  BY TrimCutsPrefix
<1> SUFFICES ASSUME NEW i \in 1..Len(Trim(rows)), NEW j \in 1..Len(Trim(rows)),
                    Trim(rows)[i] = Trim(rows)[j]
             PROVE  i = j
  BY DEF Distinct
<1>2. /\ Len(rows) \in Nat
      /\ i + c \in 1..Len(rows) /\ j + c \in 1..Len(rows) /\ rows[i + c] = rows[j + c]
  BY <1>1, LenProperties
<1> QED
  BY <1>1, <1>2 DEF Distinct

\* A batch may go back in front of rows that it does not hold.
LEMMA DistinctConcat ==
  ASSUME NEW s \in Seq(Records), NEW t \in Seq(Records), Distinct(s), Distinct(t),
         Range(s) \cap Range(t) = {}
  PROVE  Distinct(s \o t)
<1> DEFINE u == s \o t
<1>1. /\ Len(s) \in Nat /\ Len(t) \in Nat /\ Len(u) = Len(s) + Len(t)
      /\ \A i \in 1..Len(u) : u[i] = IF i <= Len(s) THEN s[i] ELSE t[i - Len(s)]
  BY ConcatProperties, LenProperties
<1>2. Range(s) = {s[i] : i \in 1..Len(s)} /\ Range(t) = {t[i] : i \in 1..Len(t)}
  BY RangeEquality
<1>3. \A i \in 1..Len(s), j \in 1..Len(t) : s[i] # t[j]
  BY <1>2
<1> HIDE DEF u
<1>4. ASSUME NEW i \in 1..Len(u), NEW j \in 1..Len(u), u[i] = u[j] PROVE i = j
  <2>1. CASE i <= Len(s) /\ j <= Len(s)
    BY <1>1, <1>4, <2>1 DEF Distinct
  <2>2. CASE i <= Len(s) /\ ~(j <= Len(s))
    BY <1>1, <1>3, <1>4, <2>2
  <2>3. CASE ~(i <= Len(s)) /\ j <= Len(s)
    <3>1. j \in 1..Len(s) /\ i - Len(s) \in 1..Len(t)
      BY <1>1, <2>3
    <3>2. s[j] = u[j] /\ t[i - Len(s)] = u[i]
      BY <1>1, <2>3
    <3> QED
      BY <1>3, <1>4, <3>1, <3>2
  <2>4. CASE ~(i <= Len(s)) /\ ~(j <= Len(s))
    <3>1. /\ i - Len(s) \in 1..Len(t) /\ j - Len(s) \in 1..Len(t)
          /\ t[i - Len(s)] = t[j - Len(s)]
      BY <1>1, <1>4, <2>4
    <3>2. i - Len(s) = j - Len(s)
      BY <3>1 DEF Distinct
    <3> QED
      BY <1>1, <3>2
  <2> QED
    BY <2>1, <2>2, <2>3, <2>4
<1> QED
  BY <1>4 DEF Distinct, u

\* A sequence without repetition has as many rows as it is long.
LEMMA DistinctCounts ==
  ASSUME NEW s \in Seq(Records), Distinct(s)
  PROVE  IsFiniteSet(Range(s)) /\ Cardinality(Range(s)) = Len(s)
<1>1. Len(s) \in Nat /\ s \in [1..Len(s) -> Records] /\ Range(s) = {s[i] : i \in 1..Len(s)}
  BY LenProperties, RangeEquality
<1>2. s \in Bijection(1..Len(s), Range(s))
  BY <1>1 DEF Bijection, Injection, Surjection, Distinct, IsInjective
<1>3. ExistsBijection(1..Len(s), Range(s))
  BY <1>2 DEF ExistsBijection
<1> QED
  BY <1>1, <1>3, FS_CountingElements, FiniteRange

\* No step repeats a row, and a dropped row does not come back.
LEMMA StepNoRowTwice ==
  /\ TypeOK /\ NoRowLost /\ OneOwner /\ NoRowTwice /\ DroppedIsGone /\ [Next]_vars
  => NoRowTwice' /\ DroppedIsGone'
<1> SUFFICES ASSUME TypeOK, NoRowLost, OneOwner, NoRowTwice, DroppedIsGone, [Next]_vars
             PROVE  NoRowTwice' /\ DroppedIsGone'
  OBVIOUS
<1>0. /\ \A k \in Parts : parts[k] \in Seq(Records) /\ Range(parts[k]) \subseteq Buffered
      /\ \A p \in Procs : held[p] \in Seq(Records) /\ Range(held[p]) \subseteq InFlight
      /\ Distinct(<<>>)
  BY EmptySeq DEF TypeOK, Buffered, InFlight, Distinct
<1>1. CASE UNCHANGED <<parts, held, dropped>>
  BY <1>1 DEF NoRowTwice, DroppedIsGone, Buffered, InFlight
<1>2. ASSUME NEW r \in Records, HandleRecord(r) PROVE NoRowTwice' /\ DroppedIsGone'
  <2> DEFINE k == PartOf[r]
             rows == Append(parts[k], r)
  <2>1. /\ k \in Parts /\ parts' = [parts EXCEPT ![k] = Trim(rows)]
        /\ \A l \in Parts \ {k} : parts'[l] = parts[l]
        /\ Buffered' \subseteq Buffered \cup {r}
    BY <1>2, RowsAfterHandle
  <2>2. /\ r \notin Buffered /\ r \notin InFlight /\ r \notin dropped
        /\ held' = held /\ dropped' = dropped \cup Overflow(rows)
    BY <1>2, NewRowIsNowhere DEF HandleRecord, NoRowLost
  <2>3. rows \in Seq(Records) /\ Range(rows) = Range(parts[k]) \cup {r}
    BY <1>0, <2>1, RangeOfAppend
  <2>4. Distinct(Trim(rows))
    BY <1>0, <2>1, <2>2, <2>3, DistinctAppend, DistinctTrim DEF NoRowTwice
  <2>5. \A y \in Range(rows) : PartOf[y] = k /\ y \notin InFlight
    <3>1. \A y \in Range(parts[k]) : PartOf[y] = k /\ y \notin InFlight
      BY <1>0, <2>1 DEF OneOwner, InFlight
    <3> QED
      BY <2>2, <2>3, <3>1
  <2> HIDE DEF k, rows
  <2>6. parts'[k] = Trim(rows)
    BY <2>1 DEF TypeOK
  <2>7. NoRowTwice'
    BY <2>1, <2>2, <2>4, <2>6 DEF NoRowTwice
  <2>8. Overflow(rows) \cap (Buffered' \cup InFlight) = {}
    BY <2>1, <2>5, <2>6 DEF Overflow, Buffered, OneOwner
  <2>9. InFlight' = InFlight
    BY <2>2 DEF InFlight
  <2> QED
    BY <2>1, <2>2, <2>7, <2>8, <2>9 DEF DroppedIsGone
<1>3. ASSUME NEW p \in Procs, Work(p) PROVE NoRowTwice' /\ DroppedIsGone'
  <2>1. ASSUME NEW k \in Parts, TakeRows(p, k) PROVE NoRowTwice' /\ DroppedIsGone'
    <3>1. dropped' = dropped
      BY <2>1 DEF TakeRows
    <3>2. CASE UNCHANGED <<parts, held, phase>>
      BY <1>1, <3>1, <3>2
    <3>3. CASE ~UNCHANGED <<parts, held, phase>>
      <4>1. /\ held'[p] = parts[k] /\ \A q \in Procs \ {p} : held'[q] = held[q]
            /\ parts'[k] = <<>> /\ \A l \in Parts \ {k} : parts'[l] = parts[l]
        BY <2>1, <3>3, RowsAfterTake
      <4>2. NoRowTwice'
        BY <1>0, <4>1 DEF NoRowTwice
      <4>3. Buffered' \subseteq Buffered /\ InFlight' \subseteq InFlight \cup Buffered
        BY <4>1, RangeOfEmpty DEF Buffered, InFlight
      <4> QED
        BY <3>1, <4>2, <4>3 DEF DroppedIsGone
    <3> QED
      BY <3>2, <3>3
  <2>2. ASSUME PutSucceeds(p) PROVE NoRowTwice' /\ DroppedIsGone'
    <3>1. /\ UNCHANGED <<parts, dropped>>
          /\ held'[p] = <<>> /\ \A q \in Procs \ {p} : held'[q] = held[q]
      BY <2>2 DEF PutSucceeds, TypeOK
    <3>2. Buffered' = Buffered /\ InFlight' \subseteq InFlight
      BY <3>1, RangeOfEmpty DEF Buffered, InFlight
    <3> QED
      BY <1>0, <3>1, <3>2 DEF NoRowTwice, DroppedIsGone
  <2>3. ASSUME PutFails(p) PROVE NoRowTwice' /\ DroppedIsGone'
    BY <1>1, <2>3 DEF PutFails
  <2>4. ASSUME Requeue(p) PROVE NoRowTwice' /\ DroppedIsGone'
    <3> DEFINE k == PartOf[held[p][1]]
    <3>1. /\ k \in Parts /\ parts'[k] = held[p] \o parts[k]
          /\ Range(parts'[k]) = Range(held[p]) \cup Range(parts[k])
          /\ \A l \in Parts \ {k} : parts'[l] = parts[l]
          /\ held'[p] = <<>> /\ \A q \in Procs \ {p} : held'[q] = held[q]
      BY <2>4, RowsAfterRequeue
    <3> HIDE DEF k
    <3>2. dropped' = dropped
      BY <2>4 DEF Requeue
    <3>3. Range(held[p]) \cap Range(parts[k]) = {}
      BY <1>0, <3>1 DEF OneOwner
    <3>4. Distinct(parts'[k])
      BY <1>0, <3>1, <3>3, DistinctConcat DEF NoRowTwice
    <3>5. Buffered' \subseteq Buffered \cup InFlight
      <4>1. Range(held[p]) \subseteq InFlight /\ Range(parts[k]) \subseteq Buffered
        BY <3>1 DEF Buffered, InFlight
      <4>2. \A l \in Parts : Range(parts'[l]) \subseteq Buffered \cup InFlight
        BY <3>1, <4>1 DEF Buffered
      <4> QED
        BY <4>2 DEF Buffered
    <3>6. InFlight' \subseteq InFlight
      BY <3>1, RangeOfEmpty DEF InFlight
    <3>7. NoRowTwice'
      BY <1>0, <3>1, <3>4 DEF NoRowTwice
    <3> QED
      BY <3>2, <3>5, <3>6, <3>7 DEF DroppedIsGone
  <2> QED
    BY <1>3, <2>1, <2>2, <2>3, <2>4 DEF Work
<1> QED
  BY <1>1, <1>2, <1>3 DEF Next, Tick, FinalFlush, Cancel, ShutdownFlush, Exit,
     ListenFails, Terminated, vars

\* In every execution no row is twice in memory, and a dropped row stays away.
LEMMA NoRowTwiceHolds == Spec => [](NoRowTwice /\ DroppedIsGone)
<1>1. Init => NoRowTwice /\ DroppedIsGone
  <2> SUFFICES ASSUME Init PROVE NoRowTwice /\ DroppedIsGone
    OBVIOUS
  <2>1. Distinct(<<>>)
    BY EmptySeq DEF Distinct
  <2> QED
    BY <2>1 DEF Init, NoRowTwice, DroppedIsGone
<1> QED
  BY <1>1, TypeCorrect, NoLoss, OneOwnerHolds, StepNoRowTwice, PTL DEF Spec
RefinementInv ==
  /\ TypeOK /\ NoRowLost /\ OneOwner /\ UnsureIsStored /\ ArchivedOnce
  /\ NoRowTwice /\ DroppedIsGone

\* Rows in memory are pending, whatever unconfirmed writes they have behind them.
LEMMA MemoryIsPending ==
  ASSUME RefinementInv, NEW r \in Buffered \cup InFlight
  PROVE  /\ r \in Records /\ stored[r] = unsure[r] /\ r \notin dropped
         /\ r \in Range(arrived) /\ FateOf(r) = "pending"
<1>1. r \in Range(arrived) /\ r \in Records
  BY RangeOfSeq DEF RefinementInv, NoRowLost, TypeOK
<1>2. stored[r] = unsure[r] /\ unsure[r] \in Nat /\ r \notin dropped
  BY <1>1 DEF RefinementInv, ArchivedOnce, DroppedIsGone, TypeOK
<1> QED
  BY <1>1, <1>2 DEF FateOf

\* What the log sees of a step.
LEMMA FateUnchanged ==
  ASSUME UNCHANGED <<arrived, stored, unsure, dropped>>
  PROVE  [r \in Records |-> FateOf(r)]' = [r \in Records |-> FateOf(r)]
BY DEF FateOf

\* The log counts with the same cardinality (it has an instance of its own of
\* the module that defines it).
LEMMA SameCardinality == \A S : Log!Cardinality(S) = Cardinality(S)
BY DEF Log!Cardinality, Cardinality

\* An append is Accept of the log: the rows it drops were pending, and if it
\* drops any then the partition keeps MaxRows rows, none of them twice.
LEMMA HandleIsAccept ==
  ASSUME RefinementInv, NEW r \in Records, HandleRecord(r)
  PROVE  Log!Accept(r)
<1> DEFINE k == PartOf[r]
           rows == Append(parts[k], r)
           D == Overflow(rows)
<1>1. /\ TypeOK /\ NoRowLost /\ OneOwner /\ NoRowTwice
      /\ r \notin Range(arrived) /\ r \notin Buffered /\ r \notin Archived
      /\ r \notin dropped
      /\ arrived \in Seq(Records) /\ Range(arrived) \subseteq Records
  BY NewRowIsNowhere, RangeOfSeq DEF RefinementInv, HandleRecord, NoRowLost, TypeOK
<1>2. k \in Parts /\ parts[k] \in Seq(Records) /\ Range(parts[k]) \subseteq Buffered
  BY <1>1, PartOfAssumption DEF TypeOK, Buffered
<1>3. /\ rows \in Seq(Records) /\ Range(rows) = Range(parts[k]) \cup {r}
      /\ Len(rows) \in Nat /\ Len(rows) >= 1 /\ rows[Len(rows)] = r
  BY <1>2, RangeOfAppend, AppendProperties, LenProperties
<1>4. Distinct(rows)
  BY <1>1, <1>2, DistinctAppend DEF NoRowTwice
<1>5. /\ ~(~Alive) /\ (~Alive)' = ~Alive /\ dropped' = dropped \cup D
      /\ Range(arrived') = Range(arrived) \cup {r}
      /\ UNCHANGED <<stored, unsure>>
  BY <1>1, RangeOfAppend DEF HandleRecord, Alive
<1> HIDE DEF rows, D
<1>6. PICK c \in Nat : /\ Len(Trim(rows)) = Len(rows) - c
                       /\ \A i \in 1..Len(Trim(rows)) : Trim(rows)[i] = rows[i + c]
  BY <1>3, TrimCutsPrefix
<1>7. Trim(rows) \in Seq(Records) /\ Range(Trim(rows)) \subseteq Range(rows)
  BY <1>3, RangeOfTrim
<1>8. Len(Trim(rows)) = IF Len(rows) > MaxRows THEN MaxRows ELSE Len(rows)
  <2>1. CASE Len(rows) > MaxRows
    <3> DEFINE m == Len(rows) - MaxRows + 1
    <3>1. /\ m \in Int /\ m >= 1 /\ m <= Len(rows) /\ Trim(rows) = SubSeq(rows, m, Len(rows))
          /\ Len(rows) - m + 1 = MaxRows
      BY <1>3, <2>1, MaxRowsAssumption DEF Trim
    <3>2. \A i \in m..Len(rows) : rows[i] \in Records
      BY <1>3, <3>1, ElementOfSeq
    <3> HIDE DEF m
    <3> QED BY <1>3, <2>1, <3>1, <3>2, SubSeqProperties
  <2>2. CASE ~(Len(rows) > MaxRows)
    BY <2>2 DEF Trim
  <2> QED
    BY <2>1, <2>2
<1>9. r \in Range(Trim(rows))
  <2>1. Len(Trim(rows)) \in 1..Len(Trim(rows)) /\ Len(Trim(rows)) + c = Len(rows)
    BY <1>3, <1>6, <1>8, MaxRowsAssumption
  <2>2. Trim(rows)[Len(Trim(rows))] = r
    BY <1>3, <1>6, <2>1
  <2> QED
    BY <1>7, <2>1, <2>2, RangeEquality
<1>10. FateOf(r) = "new"
  <2>1. stored[r] = 0 /\ unsure[r] \in Nat
    BY <1>1 DEF Archived, TypeOK
  <2> QED
    BY <1>1, <2>1 DEF FateOf
<1>11. Range(parts[k]) \subseteq Log!Pending(k)
  <2> SUFFICES ASSUME NEW x \in Range(parts[k]) PROVE x \in Log!Pending(k)
    OBVIOUS
  <2>1. x \in Records /\ FateOf(x) = "pending" /\ PartOf[x] = k
    BY <1>1, <1>2, MemoryIsPending DEF OneOwner
  <2> QED
    BY <2>1 DEF Log!Pending
<1>12. D \subseteq Range(parts[k]) /\ r \notin D /\ D \in SUBSET Log!Pending(k)
  BY <1>3, <1>9, <1>11 DEF D, Overflow
<1>13. ASSUME D # {} PROVE Cardinality(Log!Pending(k) \ D) + 1 >= MaxRows
  <2>1. Len(Trim(rows)) = MaxRows
    BY <1>8, <1>13 DEF D, Overflow, Trim
  <2>2. /\ IsFiniteSet(Range(Trim(rows)))
        /\ Cardinality(Range(Trim(rows))) = MaxRows
    BY <1>3, <1>4, <1>7, <2>1, DistinctTrim, DistinctCounts
  <2>3. /\ IsFiniteSet(Range(Trim(rows)) \ {r})
        /\ Cardinality(Range(Trim(rows)) \ {r}) = MaxRows - 1
    BY <1>9, <2>2, FS_RemoveElement
  <2>4. Range(Trim(rows)) \ {r} \subseteq Log!Pending(k) \ D
    BY <1>3, <1>7, <1>11 DEF D, Overflow
  <2>5. IsFiniteSet(Log!Pending(k) \ D)
    <3>1. Log!Pending(k) \ D \subseteq Range(arrived)
      <4>1. \A x \in Records : FateOf(x) = "pending" => x \in Range(arrived)
        BY DEF FateOf
      <4> QED
        BY <4>1 DEF Log!Pending
    <3> QED
      BY <1>1, <3>1, FiniteRange, FS_Subset
  <2>6. /\ Cardinality(Range(Trim(rows)) \ {r}) <= Cardinality(Log!Pending(k) \ D)
        /\ Cardinality(Log!Pending(k) \ D) \in Nat
    BY <2>4, <2>5, FS_Subset, FS_CardinalityType
  <2> QED
    BY <2>3, <2>6, MaxRowsAssumption
<1>14. [x \in Records |-> FateOf(x)]'
        = [Log!Settle(D, "dropped") EXCEPT ![r] = "pending"]
  <2>1. ASSUME NEW x \in Records
        PROVE  FateOf(x)' = IF x = r THEN "pending"
                            ELSE IF x \in D THEN "dropped" ELSE FateOf(x)
    <3>1. CASE x = r
      <4>1. stored[r] = 0 /\ unsure[r] \in Nat
        BY <1>1 DEF Archived, TypeOK
      <4> QED
        BY <1>1, <1>5, <1>12, <3>1, <4>1 DEF FateOf
    <3>2. CASE x # r /\ x \in D
      <4>1. stored[x] = unsure[x] /\ unsure[x] \in Nat
        BY <1>2, <1>12, <3>2, MemoryIsPending DEF TypeOK, RefinementInv
      <4> QED
        BY <1>5, <3>2, <4>1 DEF FateOf
    <3>3. CASE x # r /\ x \notin D
      <4>1. (x \in dropped') = (x \in dropped) /\ (x \in Range(arrived')) = (x \in Range(arrived))
        BY <1>5, <3>3
      <4> QED
        BY <1>5, <3>3, <4>1 DEF FateOf
    <3> QED
      BY <3>1, <3>2, <3>3
  <2>2. Log!Settle(D, "dropped") = [x \in Records |-> IF x \in D THEN "dropped" ELSE FateOf(x)]
    BY DEF Log!Settle
  <2>3. [Log!Settle(D, "dropped") EXCEPT ![r] = "pending"]
          = [x \in Records |-> IF x = r THEN "pending"
                               ELSE IF x \in D THEN "dropped" ELSE FateOf(x)]
    BY <2>2
  <2>4. [x \in Records |-> FateOf(x)]' = [x \in Records |-> FateOf(x)']
    OBVIOUS
  <2> QED
    BY <2>1, <2>3, <2>4
<1>15. [x \in Records |-> FateOf(x)][r] = "new"
  BY <1>10
<1>16. \E E \in SUBSET Log!Pending(k) :
         /\ E # {} => Cardinality(Log!Pending(k) \ E) + 1 >= MaxRows
         /\ [x \in Records |-> FateOf(x)]'
              = [Log!Settle(E, "dropped") EXCEPT ![r] = "pending"]
  BY <1>12, <1>13, <1>14
<1> QED
  BY <1>5, <1>15, <1>16, SameCardinality DEF Log!Accept

\* A confirmed write is Archive of the log: the batch's rows were all pending in
\* one partition, and all of them become durable in the same step.
LEMMA PutIsArchive ==
  ASSUME RefinementInv, NEW p \in Procs, PutSucceeds(p)
  PROVE  \E k \in Parts : Log!Archive(k)
<1> DEFINE S == Range(held[p])
           k == PartOf[held[p][1]]
<1>1. TypeOK /\ OneOwner /\ held[p] \in Seq(Records) /\ held[p] # <<>>
  BY DEF RefinementInv, TypeOK, PutSucceeds
<1>2. k \in Parts /\ held[p][1] \in S /\ S \subseteq InFlight
  BY <1>1, BatchHasPartition DEF InFlight
<1>3. S \in SUBSET Log!Pending(k)
  <2> SUFFICES ASSUME NEW x \in S PROVE x \in Log!Pending(k)
    OBVIOUS
  <2>1. x \in Records /\ FateOf(x) = "pending" /\ PartOf[x] = k
    BY <1>1, <1>2, MemoryIsPending DEF OneOwner
  <2> QED
    BY <2>1 DEF Log!Pending
<1>4. /\ ~(~Alive) /\ (~Alive)' = ~Alive
      /\ UNCHANGED <<arrived, unsure, dropped>> /\ StoreHeld(p)
  BY DEF PutSucceeds, Alive
<1> HIDE DEF k
<1>5. ASSUME NEW x \in Records
      PROVE  FateOf(x)' = IF x \in S THEN "durable" ELSE FateOf(x)
  <2>1. stored'[x] = IF x \in S THEN stored[x] + 1 ELSE stored[x]
    BY <1>1, <1>4, StoredAfterWrite
  <2>2. CASE x \in S
    <3>1. stored[x] = unsure[x] /\ unsure[x] \in Nat
      BY <1>1, <1>2, <2>2, MemoryIsPending DEF TypeOK
    <3> QED
      BY <1>4, <2>1, <2>2, <3>1 DEF FateOf
  <2>3. CASE x \notin S
    BY <1>4, <2>1, <2>3 DEF FateOf
  <2> QED
    BY <2>2, <2>3
<1>6. [x \in Records |-> FateOf(x)]' = Log!Settle(S, "durable")
  <2>1. [x \in Records |-> FateOf(x)]' = [x \in Records |-> FateOf(x)']
    OBVIOUS
  <2>2. Log!Settle(S, "durable") = [x \in Records |-> IF x \in S THEN "durable" ELSE FateOf(x)]
    BY DEF Log!Settle
  <2> QED
    BY <1>5, <2>1, <2>2
<1>7. Log!Archive(k)
  BY <1>2, <1>3, <1>4, <1>6 DEF Log!Archive
<1> QED
  BY <1>2, <1>7

\* A failed write is invisible, even if the store applied it: the rows stay
\* pending.
LEMMA FailureIsInvisible ==
  ASSUME RefinementInv, NEW p \in Procs, PutFails(p)
  PROVE  UNCHANGED Log!vars
<1>1. TypeOK /\ UNCHANGED <<arrived, dropped>> /\ (~Alive)' = ~Alive
  BY DEF PutFails, Alive, RefinementInv
<1>2. CASE UNCHANGED <<stored, unsure>>
  BY <1>1, <1>2, FateUnchanged DEF Log!vars
<1>3. CASE ~UNCHANGED <<stored, unsure>>
  <2>1. /\ StoreHeld(p)
        /\ unsure' = [r \in Records |-> IF r \in Range(held[p]) THEN unsure[r] + 1
                                                                ELSE unsure[r]]
    BY <1>3 DEF PutFails
  <2>2. ASSUME NEW x \in Records PROVE FateOf(x)' = FateOf(x)
    <3>1. /\ stored[x] \in Nat /\ unsure[x] \in Nat
          /\ \/ stored'[x] = stored[x] /\ unsure'[x] = unsure[x]
             \/ stored'[x] = stored[x] + 1 /\ unsure'[x] = unsure[x] + 1
      BY <1>1, <2>1, StoredAfterWrite DEF TypeOK
    <3>2. stored'[x] > unsure'[x] <=> stored[x] > unsure[x]
      BY <3>1
    <3>3. stored'[x] <= unsure'[x] <=> stored[x] <= unsure[x]
      BY <3>1
    <3> QED
      BY <1>1, <3>2, <3>3 DEF FateOf
  <2>3. [x \in Records |-> FateOf(x)]' = [x \in Records |-> FateOf(x)']
    OBVIOUS
  <2>4. [x \in Records |-> FateOf(x)]' = [x \in Records |-> FateOf(x)]
    BY <2>2, <2>3
  <2> QED
    BY <1>1, <2>4 DEF Log!vars
<1> QED
  BY <1>2, <1>3

\* Every step of the writer is a step of the log or leaves it as it is.
LEMMA StepRefines == RefinementInv /\ [Next]_vars => [Log!Next]_(Log!vars)
<1> SUFFICES ASSUME RefinementInv, [Next]_vars PROVE [Log!Next]_(Log!vars)
  OBVIOUS
<1>1. ASSUME NEW r \in Records, HandleRecord(r) PROVE Log!Next
  BY <1>1, HandleIsAccept DEF Log!Next
<1>2. ASSUME NEW p \in Procs, Work(p) PROVE [Log!Next]_(Log!vars)
  <2>1. ASSUME NEW k \in Parts, TakeRows(p, k) PROVE UNCHANGED Log!vars
    BY <2>1, FateUnchanged DEF TakeRows, Log!vars, Alive
  <2>2. ASSUME PutSucceeds(p) PROVE Log!Next
    BY <2>2, PutIsArchive DEF Log!Next
  <2>3. ASSUME PutFails(p) PROVE UNCHANGED Log!vars
    BY <2>3, FailureIsInvisible
  <2>4. ASSUME Requeue(p) PROVE UNCHANGED Log!vars
    BY <2>4, FateUnchanged DEF Requeue, Log!vars, Alive
  <2> QED
    BY <1>2, <2>1, <2>2, <2>3, <2>4 DEF Work
<1>3. ASSUME Exit \/ ListenFails PROVE Log!Next
  <2>1. ~(~Alive) /\ (~Alive)' = TRUE
    BY <1>3 DEF Exit, ListenFails, Alive
  <2>2. UNCHANGED [r \in Records |-> FateOf(r)]
    BY <1>3, FateUnchanged DEF Exit, ListenFails
  <2> QED
    BY <2>1, <2>2 DEF Log!Next, Log!Halt
<1>4. ASSUME Tick \/ FinalFlush \/ Cancel \/ UNCHANGED vars PROVE UNCHANGED Log!vars
  BY <1>4, FateUnchanged DEF Tick, FinalFlush, Cancel, vars, Log!vars, Alive
<1>5. ASSUME ShutdownFlush PROVE UNCHANGED Log!vars
  BY <1>5, FateUnchanged DEF ShutdownFlush, Log!vars, Alive
<1> QED
  BY <1>1, <1>2, <1>3, <1>4, <1>5 DEF Next, Terminated

\* The writer implements the archive log, but for the log's liveness: a record
\* is pending until it becomes durable together with its batch, or is dropped
\* while MaxRows others stay, and both are final.
THEOREM RefinesLog == Spec => Log!Init /\ [][Log!Next]_(Log!vars)
<1>1. Init => Log!Init
  <2> SUFFICES ASSUME Init PROVE Log!Init
    OBVIOUS
  <2>1. \A r \in Records : FateOf(r) = "new"
    BY RangeOfEmpty DEF Init, FateOf
  <2> QED
    BY <2>1 DEF Log!Init, Init, Alive
<1>2. Init => UnsureIsStored /\ ArchivedOnce
  BY DEF Init, UnsureIsStored, ArchivedOnce
<1>3. Spec => [](UnsureIsStored /\ ArchivedOnce)
  BY <1>2, TypeCorrect, NoLoss, OneOwnerHolds, StepArchivedOnce, PTL DEF Spec
<1>4. Spec => []RefinementInv
  BY <1>3, TypeCorrect, NoLoss, OneOwnerHolds, NoRowTwiceHolds, PTL DEF RefinementInv
<1> QED
  BY <1>1, <1>4, StepRefines, PTL DEF Spec
=============================================================================
