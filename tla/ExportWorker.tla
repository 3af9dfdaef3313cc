---------------------------- MODULE ExportWorker ----------------------------
(***************************************************************************)
(* Export jobs: the rows of export_jobs, the workers that claim and run    *)
(* them (src/internal/exportjob/worker.go), and inside one job the pipe    *)
(* between the goroutine that merges archive objects and the call of the   *)
(* object store that reads the merged rows (io.Pipe).                      *)
(*                                                                         *)
(* A chunk is one write of the merger into the pipe.  The pipe has no      *)
(* buffer: a write returns when the store reads it, and nothing closes the *)
(* reading end when the store gives up.                                    *)
(***************************************************************************)
EXTENDS Integers, FiniteSets

CONSTANTS
  NumJobs,     \* jobs are numbered in order of creation
  Workers,     \* server processes, one worker goroutine each
  MaxChunks,   \* largest number of pipe writes of a job
  MaxDbFaults, MaxPutFaults, MaxMergeFaults, MaxCrashes  \* bounds of the model

ASSUME NumJobsAssumption == NumJobs \in Nat
ASSUME MaxChunksAssumption == MaxChunks \in Nat \ {0}
ASSUME FaultsAssumption ==
  {MaxDbFaults, MaxPutFaults, MaxMergeFaults, MaxCrashes} \subseteq Nat

Jobs == 1..NumJobs
None == 0

VARIABLES
  status,   \* status[j]: column status of job j ("none" before its INSERT)
  file,     \* jobs whose export object is in the store, complete
  pc,       \* pc[w]: where worker w is
  cur,      \* cur[w]: the job it claimed last
  merge,    \* merge[w]: "off", "writing", "done" or "failed" (sent to errCh)
  chunks,   \* chunks[w]: writes the merger still has to make
  putErr,   \* putErr[w]: the object store's answer was an error
  faults    \* what went wrong so far, by kind

vars == <<status, file, pc, cur, merge, chunks, putErr, faults>>

\* Both of Failing are the same statement of ProcessQueued; "unconfirmed" is reached
\* when the statement that records the success has returned an error.
Failing == {"fail", "unconfirmed"}
Busy == {"list", "put", "await", "succeed"} \cup Failing
Steps == {"down", "idle", "claim"} \cup Busy
FaultKinds == {"db", "put", "merge", "crash"}
Terminal == {"succeeded", "failed"}

MaxFaults == [db |-> MaxDbFaults, put |-> MaxPutFaults,
              merge |-> MaxMergeFaults, crash |-> MaxCrashes]

Init ==
  /\ status = [j \in Jobs |-> "none"]
  /\ file = {}
  /\ pc = [w \in Workers |-> "idle"]
  /\ cur = [w \in Workers |-> None]
  /\ merge = [w \in Workers |-> "off"]
  /\ chunks = [w \in Workers |-> 0]
  /\ putErr = [w \in Workers |-> FALSE]
  /\ faults = [k \in FaultKinds |-> 0]

----------------------------------------------------------------------------
At(w, step) == pc[w] = step
GoTo(w, step) == pc' = [pc EXCEPT ![w] = step]

NoFault == UNCHANGED faults
Fault(kind) ==
  /\ faults[kind] < MaxFaults[kind]
  /\ faults' = [faults EXCEPT ![kind] = @ + 1]

SetStatus(j, s) == status' = [status EXCEPT ![j] = s]

\* POST /api/exports
CreateExport(j) ==
  /\ status[j] = "none"
  /\ \A i \in 1..(j - 1) : status[i] # "none"
  /\ SetStatus(j, "queued")
  /\ UNCHANGED <<file, pc, cur, merge, chunks, putErr, faults>>

Tick(w) ==
  /\ At(w, "idle")
  /\ GoTo(w, "claim")
  /\ UNCHANGED <<status, file, cur, merge, chunks, putErr, faults>>

\* ClaimNextExportJob is one statement (FOR UPDATE SKIP LOCKED): it moves the
\* oldest queued job to running.  Concurrent claims skip the rows of each other,
\* which gives what some order of them gives.
Oldest(j) == status[j] = "queued" /\ \A i \in Jobs : status[i] = "queued" => j <= i

\* Mutant of Claimable: a running job may be claimed too.
ClaimableRunning(j) == status[j] \in {"queued", "running"}
Claimable(j) == Oldest(j)

Claim(w) ==
  /\ At(w, "claim")
  /\ \E j \in Jobs :
       /\ Claimable(j)
       /\ SetStatus(j, "running")
       /\ \/ NoFault /\ cur' = [cur EXCEPT ![w] = j] /\ GoTo(w, "list")
          \/ Fault("db") /\ UNCHANGED cur /\ GoTo(w, "idle")  \* the answer is lost
  /\ UNCHANGED <<file, merge, chunks, putErr>>

ClaimNothing(w) ==
  /\ At(w, "claim")
  /\ GoTo(w, "idle")
  /\ \/ NoFault /\ \A j \in Jobs : status[j] # "queued"
     \/ Fault("db")
  /\ UNCHANGED <<status, file, cur, merge, chunks, putErr>>

----------------------------------------------------------------------------
(* process: list the keys, then merge and store through the pipe.          *)

List(w) ==
  /\ At(w, "list")
  /\ \/ /\ NoFault
        /\ GoTo(w, "put")
        /\ merge' = [merge EXCEPT ![w] = "writing"]
        /\ \E n \in 1..MaxChunks : chunks' = [chunks EXCEPT ![w] = n]
     \/ /\ Fault("merge")
        /\ GoTo(w, "fail")
        /\ UNCHANGED <<merge, chunks>>
  /\ UNCHANGED <<status, file, cur, putErr>>

\* A write of the merger meets a read of the store.
Transfer(w) ==
  /\ At(w, "put")
  /\ merge[w] = "writing"
  /\ chunks[w] > 0
  /\ chunks' = [chunks EXCEPT ![w] = @ - 1]
  /\ UNCHANGED <<status, file, pc, cur, merge, putErr, faults>>

\* MergeCSV returns: everything is written, or an object cannot be read (any
\* more).  Either way the goroutine closes the writing end and reports.
MergeReturns(w) ==
  /\ merge[w] = "writing"
  /\ \/ NoFault /\ chunks[w] = 0 /\ merge' = [merge EXCEPT ![w] = "done"]
     \/ Fault("merge") /\ merge' = [merge EXCEPT ![w] = "failed"]
  /\ UNCHANGED <<status, file, pc, cur, chunks, putErr>>

\* Mutant of AfterPut: a failed Put is reported without waiting for the merger.
AfterPutNoWait(err) == IF err THEN "fail" ELSE "await"
AfterPut(err) == "await"

PutReturns(w, err) ==
  /\ GoTo(w, AfterPut(err))
  /\ putErr' = [putErr EXCEPT ![w] = err]
  /\ UNCHANGED <<status, cur, merge, chunks>>

\* The store read to the end: the object appears as a whole.
PutSucceeds(w) ==
  /\ At(w, "put")
  /\ merge[w] = "done"
  /\ file' = file \cup {cur[w]}
  /\ NoFault
  /\ PutReturns(w, FALSE)

\* The merger closed the pipe with its error.
PutAborted(w) ==
  /\ At(w, "put")
  /\ merge[w] = "failed"
  /\ NoFault
  /\ UNCHANGED file
  /\ PutReturns(w, TRUE)

\* The store gives up, before, while or after it read the rows; in the last
\* case a remote store may have kept the object.
PutFails(w) ==
  /\ At(w, "put")
  /\ Fault("put")
  /\ \/ UNCHANGED file
     \/ merge[w] = "done" /\ file' = file \cup {cur[w]}
  /\ PutReturns(w, TRUE)

\* Mutant of JobFailed: only the merger's result is looked at.
MergeFailed(w) == merge[w] = "failed"
JobFailed(w) == putErr[w] \/ merge[w] = "failed"

\* <-errCh: only then the worker looks at either result.
Await(w) ==
  /\ At(w, "await")
  /\ merge[w] \in {"done", "failed"}
  /\ GoTo(w, IF JobFailed(w) THEN "fail" ELSE "succeed")
  /\ merge' = [merge EXCEPT ![w] = "off"]
  /\ chunks' = [chunks EXCEPT ![w] = 0]
  /\ putErr' = [putErr EXCEPT ![w] = FALSE]
  /\ UNCHANGED <<status, file, cur, faults>>

\* FinishExportJob(succeeded); an error, even after the update took effect,
\* makes ProcessQueued record a failure.
FinishSucceeded(w) ==
  /\ At(w, "succeed")
  /\ \/ NoFault /\ SetStatus(cur[w], "succeeded") /\ GoTo(w, "claim")
     \/ Fault("db") /\ GoTo(w, "unconfirmed")
          /\ (UNCHANGED status \/ SetStatus(cur[w], "succeeded"))
  /\ UNCHANGED <<file, cur, merge, chunks, putErr>>

\* Mutant of RecordsFailure: the worker only logs the error.
RecordsNothing(w) == UNCHANGED status
RecordsFailure(w) == SetStatus(cur[w], "failed")

\* FinishExportJob(failed); its error is ignored.
FinishFailed(w) ==
  /\ pc[w] \in Failing
  /\ GoTo(w, "claim")
  /\ \/ NoFault /\ RecordsFailure(w)
     \/ Fault("db") /\ UNCHANGED status
  /\ UNCHANGED <<file, cur, merge, chunks, putErr>>

----------------------------------------------------------------------------
(* The process stops at any point (a signal does not wait for the worker)  *)
(* and starts again; nothing looks after the jobs it had claimed.          *)

Crash(w) ==
  /\ ~At(w, "down")
  /\ Fault("crash")
  /\ GoTo(w, "down")
  /\ merge' = [merge EXCEPT ![w] = "off"]
  /\ chunks' = [chunks EXCEPT ![w] = 0]
  /\ putErr' = [putErr EXCEPT ![w] = FALSE]
  /\ UNCHANGED <<status, file, cur>>

Restart(w) ==
  /\ At(w, "down")
  /\ GoTo(w, "idle")
  /\ UNCHANGED <<status, file, cur, merge, chunks, putErr, faults>>

----------------------------------------------------------------------------
WorkerStep(w) ==
  \/ Tick(w)
  \/ Claim(w)
  \/ ClaimNothing(w)
  \/ List(w)
  \/ Transfer(w)
  \/ PutSucceeds(w)
  \/ PutAborted(w)
  \/ PutFails(w)
  \/ Await(w)
  \/ FinishSucceeded(w)
  \/ FinishFailed(w)

Next ==
  \/ \E j \in Jobs : CreateExport(j)
  \/ \E w \in Workers : \/ WorkerStep(w)
                        \/ MergeReturns(w)
                        \/ Crash(w)
                        \/ Restart(w)

\* Both goroutines of a job are scheduled, statements and reads return, a process
\* that stopped is started again.  Nothing else has to happen.
Fairness ==
  \A w \in Workers :
    WF_vars(WorkerStep(w)) /\ WF_vars(MergeReturns(w)) /\ WF_vars(Restart(w))

Spec == Init /\ [][Next]_vars

FairSpec == Spec /\ Fairness

----------------------------------------------------------------------------
(* Properties.                                                             *)

\* Types; the pipe exists only while a worker is inside process.
TypeOK ==
  /\ status \in [Jobs -> {"none", "queued", "running"} \cup Terminal]
  /\ file \subseteq Jobs
  /\ pc \in [Workers -> Steps]
  /\ cur \in [Workers -> Jobs \cup {None}]
  /\ merge \in [Workers -> {"off", "writing", "done", "failed"}]
  /\ chunks \in [Workers -> 0..MaxChunks]
  /\ putErr \in [Workers -> BOOLEAN]
  /\ \A k \in FaultKinds : faults[k] \in 0..MaxFaults[k]
  /\ \A w \in Workers : merge[w] # "off" <=> pc[w] \in {"put", "await"}
  /\ \A w \in Workers : pc[w] \in Busy => cur[w] \in Jobs

Owns(w, j) == cur[w] = j /\ pc[w] \in Busy

\* A download link is offered only for a file that is there and complete, however
\* merger, store and database fail.
SucceededHasFile == \A j \in Jobs : status[j] = "succeeded" => j \in file

\* Two workers never run the same job.
OneRunner ==
  \A v, w \in Workers, j \in Jobs : Owns(v, j) /\ Owns(w, j) => v = w

\* w, whose statement that recorded the success of its job j reported an error,
\* records a failure instead.
DoubtsSuccess(w, j) ==
  /\ cur[w] = j
  /\ At(w, "unconfirmed") /\ pc'[w] = "claim"
  /\ status'[j] = "failed"

\* A final status stays, whatever other workers and jobs suffer: a success becomes
\* a failure only by the job's own worker, in the step after its own statement
\* FinishExportJob(succeeded) took effect but returned an error.
FinalStatusStays ==
  [][\A j \in Jobs :
       /\ status[j] = "failed" => status'[j] = "failed"
       /\ status[j] = "succeeded" /\ status'[j] # "succeeded" =>
            \E w \in Workers : DoubtsSuccess(w, j)]_vars

Faulted == faults["db"] + faults["put"] + faults["crash"] > 0

\* Every job ends, unless a statement, a Put or a process failed; archive objects
\* that vanish or cannot be read in the middle of a merge do not hold it up.
EveryJobEnds ==
  \A j \in Jobs : status[j] = "queued" ~> status[j] \in Terminal \/ Faulted

\* "ProcessQueued claims and runs every queued job."
ClaimsEveryQueuedJob == \A j \in Jobs : status[j] = "queued" ~> status[j] # "queued"
=============================================================================
