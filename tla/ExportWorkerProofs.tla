------------------------ MODULE ExportWorkerProofs -------------------------
(* Theorems about export jobs, for every number of jobs and workers, every  *)
(* size of a job and every bound on faults.                                 *)
EXTENDS ExportWorker, TLAPS

----------------------------------------------------------------------------
(* Type correctness.                                                       *)

FaultsType == faults \in [FaultKinds -> Nat]

TypeInv == TypeOK /\ FaultsType

\* The bounds are numbers.
LEMMA BoundsAreNat == \A k \in FaultKinds : MaxFaults[k] \in Nat
BY FaultsAssumption DEF FaultKinds, MaxFaults

\* A fault is counted within its bound, and no count ever goes down.
LEMMA FaultCounts ==
  ASSUME TypeInv, NEW kind \in FaultKinds, NoFault \/ Fault(kind)
  PROVE  /\ FaultsType'
         /\ \A k \in FaultKinds : faults'[k] \in 0..MaxFaults[k]
         /\ \A k \in FaultKinds : faults[k] <= faults'[k]
         /\ Fault(kind) => faults'[kind] > 0
<1>1. \A k \in FaultKinds : faults[k] \in 0..MaxFaults[k]
  BY DEF TypeInv, TypeOK
<1>2. CASE NoFault
  BY <1>1, <1>2, BoundsAreNat DEF NoFault, TypeInv, FaultsType, Fault
<1>3. CASE Fault(kind)
  <2>1. /\ faults \in [FaultKinds -> Nat] /\ faults[kind] < MaxFaults[kind]
        /\ faults' = [faults EXCEPT ![kind] = @ + 1]
    BY <1>3 DEF Fault, TypeInv, FaultsType
  <2>2. faults'[kind] = faults[kind] + 1
    BY <2>1
  <2>3. \A k \in FaultKinds \ {kind} : faults'[k] = faults[k]
    BY <2>1
  <2>4. faults' \in [FaultKinds -> Nat]
    BY <2>1
  <2> QED
    BY <1>1, <2>1, <2>2, <2>3, <2>4, BoundsAreNat DEF FaultsType
<1> QED
  BY <1>2, <1>3

\* The types hold at the start.
LEMMA InitTypeInv == Init => TypeInv
<1> SUFFICES ASSUME Init PROVE TypeInv
  OBVIOUS
<1>1. faults \in [FaultKinds -> Nat] /\ \A k \in FaultKinds : faults[k] \in 0..MaxFaults[k]
  BY BoundsAreNat DEF Init
<1>2. chunks \in [Workers -> 0..MaxChunks]
  BY MaxChunksAssumption DEF Init
<1> QED
  BY <1>1, <1>2 DEF Init, TypeInv, TypeOK, FaultsType, Steps, Busy, Failing, None

\* The types but for the counts of faults.
TypeOfJobs ==
  /\ status \in [Jobs -> {"none", "queued", "running"} \cup Terminal]
  /\ file \subseteq Jobs
  /\ pc \in [Workers -> Steps]
  /\ cur \in [Workers -> Jobs \cup {None}]
  /\ merge \in [Workers -> {"off", "writing", "done", "failed"}]
  /\ chunks \in [Workers -> 0..MaxChunks]
  /\ putErr \in [Workers -> BOOLEAN]
  /\ \A w \in Workers : merge[w] # "off" <=> pc[w] \in {"put", "await"}
  /\ \A w \in Workers : pc[w] \in Busy => cur[w] \in Jobs

\* Every step makes at most one fault, and counts it.
LEMMA StepFaults ==
  ASSUME TypeInv, [Next]_vars
  PROVE  /\ FaultsType'
         /\ \A k \in FaultKinds : faults'[k] \in 0..MaxFaults[k]
         /\ \A k \in FaultKinds : faults[k] <= faults'[k]
<1>1. NoFault \/ \E kind \in FaultKinds : Fault(kind)
  BY DEF Next, WorkerStep, CreateExport, Tick, Claim, ClaimNothing, List, Transfer,
     MergeReturns, PutSucceeds, PutAborted, PutFails, PutReturns, Await,
     FinishSucceeded, FinishFailed, Crash, Restart, vars, NoFault, FaultKinds
<1>2. "db" \in FaultKinds
  BY DEF FaultKinds
<1> QED
  BY <1>1, <1>2, FaultCounts

\* Each step of a worker, of its merger and of its process keeps the types; the
\* pipe exists exactly while the worker is inside process.
LEMMA StepTypeOfJobs == TypeOfJobs /\ [Next]_vars => TypeOfJobs'
<1> SUFFICES ASSUME TypeOfJobs, [Next]_vars PROVE TypeOfJobs'
  OBVIOUS
<1> USE DEF TypeOfJobs, At, GoTo, SetStatus, Terminal, Steps, Busy, Failing, None
<1>0. MaxChunks \in Nat
  BY MaxChunksAssumption
<1>1. ASSUME NEW j \in Jobs, CreateExport(j) PROVE TypeOfJobs'
  BY <1>1 DEF CreateExport
<1>2. ASSUME NEW w \in Workers, WorkerStep(w) PROVE TypeOfJobs'
  <2>1. CASE Tick(w)
    BY <2>1 DEF Tick
  <2>2. CASE Claim(w)
    BY <2>2 DEF Claim
  <2>3. CASE ClaimNothing(w)
    BY <2>3 DEF ClaimNothing
  <2>4. CASE List(w)
    BY <1>0, <2>4 DEF List
  <2>5. CASE Transfer(w)
    <3>1. chunks' \in [Workers -> 0..MaxChunks]
      BY <1>0, <2>5 DEF Transfer
    <3> QED
      BY <2>5, <3>1 DEF Transfer
  <2>6. CASE PutSucceeds(w)
    BY <2>6 DEF PutSucceeds, PutReturns, AfterPut
  <2>7. CASE PutAborted(w)
    BY <2>7 DEF PutAborted, PutReturns, AfterPut
  <2>8. CASE PutFails(w)
    BY <2>8 DEF PutFails, PutReturns, AfterPut
  <2>9. CASE Await(w)
    BY <1>0, <2>9 DEF Await
  <2>10. CASE FinishSucceeded(w)
    BY <2>10 DEF FinishSucceeded
  <2>11. CASE FinishFailed(w)
    BY <2>11 DEF FinishFailed, RecordsFailure
  <2> QED
    BY <1>2, <2>1, <2>2, <2>3, <2>4, <2>5, <2>6, <2>7, <2>8, <2>9, <2>10, <2>11
       DEF WorkerStep
<1>3. ASSUME NEW w \in Workers, MergeReturns(w) PROVE TypeOfJobs'
  BY <1>3 DEF MergeReturns
<1>4. ASSUME NEW w \in Workers, Crash(w) PROVE TypeOfJobs'
  BY <1>0, <1>4 DEF Crash
<1>5. ASSUME NEW w \in Workers, Restart(w) PROVE TypeOfJobs'
  BY <1>5 DEF Restart
<1>6. ASSUME UNCHANGED vars PROVE TypeOfJobs'
  BY <1>6 DEF vars
<1> QED
  BY <1>1, <1>2, <1>3, <1>4, <1>5, <1>6 DEF Next

\* Every step keeps the types.
LEMMA StepTypeInv == TypeInv /\ [Next]_vars => TypeInv'
<1>1. TypeInv <=> /\ TypeOfJobs /\ FaultsType
                  /\ \A k \in FaultKinds : faults[k] \in 0..MaxFaults[k]
  BY DEF TypeInv, TypeOK, TypeOfJobs
<1>2. TypeInv' <=> /\ TypeOfJobs' /\ FaultsType'
                   /\ \A k \in FaultKinds : faults'[k] \in 0..MaxFaults[k]
  BY DEF TypeInv, TypeOK, TypeOfJobs, MaxFaults
<1> QED
  BY <1>1, <1>2, StepFaults, StepTypeOfJobs

\* The state has the declared types in every execution; in particular the pipe
\* exists exactly while a worker is inside process, and a busy worker has a job.
THEOREM TypeCorrect == Spec => []TypeOK
<1>1. Spec => []TypeInv
  BY InitTypeInv, StepTypeInv, PTL DEF Spec
<1> QED
  BY <1>1, PTL DEF TypeInv
----------------------------------------------------------------------------
(* A job and its owner.  OneRunner, SucceededHasFile and FinalStatusStays   *)
(* hold together or not at all: a second worker could finish a job whose    *)
(* file is not there, or overwrite its final status.                        *)

\* An owned job is running, or its owner doubts the success that it has recorded
\* and is about to record a failure.
OwnedIsRunning ==
  \A w \in Workers : pc[w] \in Busy =>
    \/ status[cur[w]] = "running"
    \/ pc[w] = "unconfirmed" /\ status[cur[w]] = "succeeded"

\* A worker that is about to report success, or only waits for the merger after
\* a Put that succeeded, has the file in the store.
FileBeforeSuccess ==
  \A w \in Workers :
    /\ pc[w] = "succeed" => cur[w] \in file
    /\ pc[w] = "await" /\ ~putErr[w] => cur[w] \in file

JobInv == OwnedIsRunning /\ FileBeforeSuccess /\ OneRunner /\ SucceededHasFile

\* A worker that owned nothing before a step owns at most what it claimed.
OnlyMoves(w) ==
  /\ UNCHANGED <<status, cur>>
  /\ file \subseteq file'
  /\ \A v \in Workers \ {w} : pc'[v] = pc[v] /\ putErr'[v] = putErr[v]
  /\ pc'[w] \in Busy => pc[w] \in Busy /\ pc[w] \notin Failing
  /\ pc'[w] # "unconfirmed"
  /\ pc'[w] = "succeed" => cur[w] \in file'
  /\ pc'[w] = "await" /\ ~putErr'[w] => cur[w] \in file'

\* Steps that move one worker inside process, or out of it, and set no status.
LEMMA MovesKeepJobInv ==
  ASSUME TypeOK, JobInv, NEW w \in Workers, OnlyMoves(w)
  PROVE  JobInv'
<1>1. SucceededHasFile'
  BY DEF JobInv, SucceededHasFile, OnlyMoves
<1>2. OneRunner'
  BY DEF JobInv, OneRunner, Owns, OnlyMoves
<1>3. FileBeforeSuccess'
  BY DEF JobInv, FileBeforeSuccess, OnlyMoves
<1>4. OwnedIsRunning'
  BY DEF JobInv, OwnedIsRunning, OnlyMoves, Failing
<1> QED
  BY <1>1, <1>2, <1>3, <1>4 DEF JobInv

\* No step lets two workers run one job, reports a success without a file, or
\* lets a worker run a job whose status is final, unless it doubts its own success.
LEMMA StepJobInv == TypeInv /\ JobInv /\ [Next]_vars => JobInv'
<1> SUFFICES ASSUME TypeInv, JobInv, [Next]_vars PROVE JobInv'
  OBVIOUS
<1> USE DEF At, GoTo, SetStatus
<1>0. TypeOK
  BY DEF TypeInv
<1>1. ASSUME NEW j \in Jobs, CreateExport(j) PROVE JobInv'
  <2>1. /\ status[j] = "none" /\ status' = [status EXCEPT ![j] = "queued"]
        /\ UNCHANGED <<file, pc, cur, putErr, faults>>
    BY <1>1 DEF CreateExport
  <2>2. \A w \in Workers : pc[w] \in Busy => cur[w] \in Jobs /\ cur[w] # j
    BY <1>0, <2>1 DEF TypeOK, JobInv, OwnedIsRunning
  <2>3. \A i \in Jobs : status'[i] = IF i = j THEN "queued" ELSE status[i]
    BY <1>0, <2>1 DEF TypeOK
  <2>4. OwnedIsRunning'
    BY <2>1, <2>2, <2>3 DEF JobInv, OwnedIsRunning
  <2>5. SucceededHasFile'
    BY <2>1, <2>3 DEF JobInv, SucceededHasFile
  <2> QED
    BY <2>1, <2>4, <2>5 DEF JobInv, FileBeforeSuccess, OneRunner, Owns
<1>2. ASSUME NEW w \in Workers, Claim(w) PROVE JobInv'
  <2>1. PICK j \in Jobs :
          /\ status[j] = "queued" /\ status' = [status EXCEPT ![j] = "running"]
          /\ \/ cur' = [cur EXCEPT ![w] = j] /\ pc' = [pc EXCEPT ![w] = "list"]
             \/ cur' = cur /\ pc' = [pc EXCEPT ![w] = "idle"]
    BY <1>2 DEF Claim, Claimable, Oldest
  <2>2. UNCHANGED <<file, putErr>> /\ pc[w] = "claim"
    BY <1>2 DEF Claim
  <2>3. \A v \in Workers : pc[v] \in Busy => cur[v] \in Jobs /\ cur[v] # j
    BY <1>0, <2>1 DEF TypeOK, JobInv, OwnedIsRunning
  <2>4. \A i \in Jobs : status'[i] = IF i = j THEN "running" ELSE status[i]
    BY <1>0, <2>1 DEF TypeOK
  <2>5. /\ \A v \in Workers \ {w} : pc'[v] = pc[v] /\ cur'[v] = cur[v]
        /\ pc'[w] \in Busy => pc'[w] = "list" /\ cur'[w] = j
        /\ pc'[w] \in {"list", "idle"}
    BY <1>0, <2>1 DEF TypeOK, Busy, Failing
  <2>6. OwnedIsRunning'
    BY <1>0, <2>3, <2>4, <2>5 DEF JobInv, OwnedIsRunning
  <2>7. FileBeforeSuccess'
    BY <2>2, <2>5 DEF JobInv, FileBeforeSuccess
  <2>8. OneRunner'
    BY <2>3, <2>5 DEF JobInv, OneRunner, Owns
  <2>9. SucceededHasFile'
    BY <2>2, <2>4 DEF JobInv, SucceededHasFile
  <2> QED
    BY <2>6, <2>7, <2>8, <2>9 DEF JobInv
<1>3. ASSUME NEW w \in Workers,
             \/ Tick(w) \/ ClaimNothing(w) \/ List(w) \/ Transfer(w)
             \/ PutSucceeds(w) \/ PutAborted(w) \/ PutFails(w) \/ Await(w)
             \/ MergeReturns(w) \/ Crash(w) \/ Restart(w)
      PROVE  JobInv'
  <2>1. ASSUME Tick(w) \/ ClaimNothing(w) \/ Restart(w) PROVE OnlyMoves(w)
    BY <1>0, <2>1 DEF Tick, ClaimNothing, Restart, OnlyMoves, TypeOK, Busy, Failing
  <2>2. ASSUME List(w) PROVE OnlyMoves(w)
    BY <1>0, <2>2 DEF List, OnlyMoves, TypeOK, Busy, Failing
  <2>3. ASSUME Transfer(w) \/ MergeReturns(w) PROVE OnlyMoves(w)
    BY <1>0, <2>3 DEF Transfer, MergeReturns, OnlyMoves, TypeOK, Busy, Failing, JobInv,
       FileBeforeSuccess
  <2>4. ASSUME PutSucceeds(w) PROVE OnlyMoves(w)
    BY <1>0, <2>4 DEF PutSucceeds, PutReturns, AfterPut, OnlyMoves, TypeOK, Busy, Failing
  <2>5. ASSUME PutAborted(w) \/ PutFails(w) PROVE OnlyMoves(w)
    BY <1>0, <2>5 DEF PutAborted, PutFails, PutReturns, AfterPut, OnlyMoves, TypeOK, Busy, Failing
  <2>6. ASSUME Await(w) PROVE OnlyMoves(w)
    <3>1. pc'[w] = "succeed" => cur[w] \in file
      BY <1>0, <2>6 DEF Await, JobFailed, TypeOK, JobInv, FileBeforeSuccess
    <3> QED
      BY <1>0, <2>6, <3>1 DEF Await, OnlyMoves, TypeOK, Busy, Failing
  <2>7. ASSUME Crash(w) PROVE OnlyMoves(w)
    BY <1>0, <2>7 DEF Crash, OnlyMoves, TypeOK, Busy, Failing
  <2> QED
    BY <1>0, <1>3, <2>1, <2>2, <2>3, <2>4, <2>5, <2>6, <2>7, MovesKeepJobInv
<1>4. ASSUME NEW w \in Workers, FinishSucceeded(w) PROVE JobInv'
  <2>1. /\ pc[w] = "succeed" /\ cur[w] \in Jobs /\ cur[w] \in file
        /\ status[cur[w]] = "running"
        /\ UNCHANGED <<file, cur, putErr>>
        /\ \A v \in Workers \ {w} : pc'[v] = pc[v]
        /\ pc'[w] \in {"claim", "unconfirmed"}
    BY <1>0, <1>4 DEF FinishSucceeded, TypeOK, Busy, Failing, JobInv, FileBeforeSuccess,
       OwnedIsRunning
  <2>2. \A v \in Workers \ {w} : pc[v] \in Busy => cur[v] # cur[w] /\ cur[v] \in Jobs
    BY <1>0, <2>1 DEF TypeOK, JobInv, OneRunner, Owns, Busy
  <2>3. /\ \A i \in Jobs : i # cur[w] => status'[i] = status[i]
        /\ status'[cur[w]] \in {"running", "succeeded"}
    BY <1>0, <1>4, <2>1 DEF FinishSucceeded, TypeOK
  <2>5. OwnedIsRunning'
    <3>1. ASSUME NEW v \in Workers, pc'[v] \in Busy, v # w
          PROVE  \/ status'[cur'[v]] = "running"
                 \/ pc'[v] = "unconfirmed" /\ status'[cur'[v]] = "succeeded"
      BY <1>0, <2>1, <2>2, <2>3, <3>1 DEF JobInv, OwnedIsRunning
    <3> QED
      BY <2>1, <2>3, <3>1 DEF OwnedIsRunning, Busy, Failing
  <2>6. FileBeforeSuccess'
    BY <2>1 DEF JobInv, FileBeforeSuccess
  <2>7. OneRunner'
    BY <2>1, <2>2 DEF JobInv, OneRunner, Owns
  <2>8. SucceededHasFile'
    BY <2>1, <2>3 DEF JobInv, SucceededHasFile
  <2> QED
    BY <2>5, <2>6, <2>7, <2>8 DEF JobInv
<1>5. ASSUME NEW w \in Workers, FinishFailed(w) PROVE JobInv'
  <2>1. /\ pc[w] \in Failing /\ cur[w] \in Jobs
        /\ UNCHANGED <<file, cur, putErr>>
        /\ \A v \in Workers \ {w} : pc'[v] = pc[v]
        /\ pc'[w] = "claim"
    BY <1>0, <1>5 DEF FinishFailed, TypeOK, Busy, Failing
  <2>2. \A v \in Workers \ {w} : pc[v] \in Busy => cur[v] # cur[w] /\ cur[v] \in Jobs
    BY <1>0, <2>1 DEF TypeOK, JobInv, OneRunner, Owns, Busy, Failing
  <2>3. /\ \A i \in Jobs : i # cur[w] => status'[i] = status[i]
        /\ status'[cur[w]] = "succeeded" => status[cur[w]] = "succeeded"
    BY <1>0, <1>5, <2>1 DEF FinishFailed, RecordsFailure, TypeOK
  <2>4. OwnedIsRunning'
    BY <1>0, <2>1, <2>2, <2>3 DEF JobInv, OwnedIsRunning, Busy, Failing
  <2>5. FileBeforeSuccess' /\ OneRunner'
    BY <2>1 DEF JobInv, FileBeforeSuccess, OneRunner, Owns, Busy, Failing
  <2>6. SucceededHasFile'
    BY <2>1, <2>3 DEF JobInv, SucceededHasFile
  <2> QED
    BY <2>4, <2>5, <2>6 DEF JobInv
<1>6. ASSUME UNCHANGED vars PROVE JobInv'
  BY <1>6 DEF vars, JobInv, OwnedIsRunning, FileBeforeSuccess, OneRunner, Owns,
     SucceededHasFile
<1> QED
  BY <1>1, <1>2, <1>3, <1>4, <1>5, <1>6 DEF Next, WorkerStep

\* A job and its owner agree in every execution.
LEMMA JobInvHolds == Spec => [](TypeInv /\ JobInv)
<1>1. Init => JobInv
  BY DEF Init, JobInv, OwnedIsRunning, FileBeforeSuccess, OneRunner, Owns,
     SucceededHasFile, Busy, Failing
<1> QED
  BY <1>1, InitTypeInv, StepTypeInv, StepJobInv, PTL DEF Spec

\* A job that succeeded has its file in the store, however merger, store,
\* database and processes fail.
THEOREM SucceededJobsHaveFiles == Spec => []SucceededHasFile
<1>1. TypeInv /\ JobInv => SucceededHasFile
  BY DEF JobInv
<1> QED
  BY <1>1, JobInvHolds, PTL

\* No two workers ever run the same job.
THEOREM OneRunnerHolds == Spec => []OneRunner
<1>1. TypeInv /\ JobInv => OneRunner
  BY DEF JobInv
<1> QED
  BY <1>1, JobInvHolds, PTL

\* What one step may do to a final status.
FinalStays ==
  \A j \in Jobs :
    /\ status[j] = "failed" => status'[j] = "failed"
    /\ status[j] = "succeeded" /\ status'[j] # "succeeded" =>
         \E w \in Workers : DoubtsSuccess(w, j)

\* Only the owner writes a status, and it owns no job with a final one, but while
\* it doubts its own success.
LEMMA StepFinalStays == TypeInv /\ JobInv /\ [Next]_vars => [FinalStays]_vars
<1> SUFFICES ASSUME TypeInv, JobInv, Next PROVE FinalStays
  OBVIOUS
<1> USE DEF SetStatus
<1>0. status \in [Jobs -> {"none", "queued", "running"} \cup Terminal]
  BY DEF TypeInv, TypeOK
<1>1. ASSUME status' = status PROVE FinalStays
  BY <1>1 DEF FinalStays
<1>2. ASSUME NEW j \in Jobs, CreateExport(j) PROVE FinalStays
  BY <1>0, <1>2 DEF CreateExport, FinalStays
<1>3. ASSUME NEW w \in Workers, Claim(w) PROVE FinalStays
  BY <1>0, <1>3 DEF Claim, Claimable, Oldest, FinalStays
<1>4. ASSUME NEW w \in Workers, FinishSucceeded(w) PROVE FinalStays
  <2>1. cur[w] \in Jobs /\ status[cur[w]] = "running"
    BY <1>4 DEF FinishSucceeded, At, TypeInv, TypeOK, Busy, Failing, JobInv, OwnedIsRunning
  <2> QED
    BY <1>0, <1>4, <2>1 DEF FinishSucceeded, FinalStays
<1>5. ASSUME NEW w \in Workers, FinishFailed(w) PROVE FinalStays
  <2>1. /\ cur[w] \in Jobs /\ pc'[w] = "claim"
        /\ \/ status[cur[w]] = "running"
           \/ status[cur[w]] = "succeeded" /\ pc[w] = "unconfirmed"
    BY <1>5 DEF FinishFailed, At, GoTo, TypeInv, TypeOK, Busy, Failing, JobInv,
       OwnedIsRunning
  <2>2. ASSUME NEW j \in Jobs, status'[j] # status[j]
        PROVE  j = cur[w] /\ status'[j] = "failed"
    BY <1>0, <1>5, <2>1, <2>2 DEF FinishFailed, RecordsFailure
  <2> QED
    BY <2>1, <2>2 DEF FinalStays, DoubtsSuccess, At
<1> QED
  BY <1>1, <1>2, <1>3, <1>4, <1>5 DEF Next, WorkerStep, Tick, ClaimNothing, List,
     Transfer, MergeReturns, PutSucceeds, PutAborted, PutFails, PutReturns, Await,
     Crash, Restart

\* A final status stays; a success becomes a failure only by the job's own worker,
\* in the step after its statement recorded the success and reported an error.
THEOREM FinalStatusHolds == Spec => FinalStatusStays
BY JobInvHolds, StepFinalStays, PTL DEF Spec, FinalStatusStays, FinalStays
=============================================================================
