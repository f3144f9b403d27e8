----------------------------- MODULE ScrubBatches -----------------------------
(* Validation of a list, or of an imported window, by Scrub: the request   *)
(* that submits the chunks of a job one after the other, Scrub's progress  *)
(* callbacks, which may come early, late, twice and out of order, and the  *)
(* goroutine that reconciles a job once all of it has ended                *)
(* (cmd/scrub_batch.go, internal/scrub/batching.go, queries/scrub.sql,     *)
(* cmd/settings.go ScrubList).  All jobs are on one list of one tenant.    *)
EXTENDS Naturals, FiniteSets

CONSTANTS
  Jobs,        \* calls of ScrubList, each with the job it would create
  NoJob,
  Batches,     \* chunks of the jobs, and the windows of CSV imports
  NoBatch,
  JobOf,       \* [Batches -> Jobs \cup {NoJob}]
  Handlers,    \* webhook requests under way, with the goroutine each may leave
  MaxSubmissions,  \* bound: jobs and windows submitted
  MaxMishaps   \* bound: failed calls, callbacks made again, restarts

Chunks(j) == {b \in Batches : JobOf[b] = j}
Imports == Chunks(NoJob)
Senders == Jobs \cup Imports

ASSUME ScrubAssumption ==
  /\ IsFiniteSet(Batches) /\ NoBatch \notin Batches
  /\ NoJob \notin Jobs /\ Jobs \cap Batches = {}
  /\ JobOf \in [Batches -> Jobs \cup {NoJob}]
  /\ \A j \in Jobs : Chunks(j) # {}
  /\ MaxSubmissions \in Nat /\ MaxMishaps \in Nat

Ended == {"completed", "failed"}

VARIABLES
  job,      \* scrub_validation_jobs.status
  batch,    \* scrub_validation_batches.status
  remote,   \* what became of a batch at Scrub
  events,   \* callbacks Scrub is about to make, in any order
  sender,   \* the goroutine that submits a job's chunks, or an import's window
  handler,  \* a callback's request, and the reconciliation it starts
  applied,  \* batches whose results reached the subscribers
  billed,   \* how often a batch was added to usage_counters
  mishaps,
  harmed    \* some call failed or the process died

vars == <<job, batch, remote, events, sender, handler, applied, billed, mishaps, harmed>>

Idle == [pc |-> "idle", batch |-> NoBatch, status |-> "pending", done |-> FALSE]
InTable(b) == batch[b] \notin {"none", "deleted"}

Init ==
  /\ job = [j \in Jobs |-> "none"]
  /\ batch = [b \in Batches |-> "none"]
  /\ remote = [b \in Batches |-> "none"]
  /\ events = {}
  /\ sender = [s \in Senders |-> [pc |-> "idle", batch |-> NoBatch]]
  /\ handler = [h \in Handlers |-> Idle]
  /\ applied = {}
  /\ billed = [b \in Batches |-> 0]
  /\ mishaps = 0
  /\ harmed = FALSE

luck == <<mishaps, harmed>>
Mishap == mishaps < MaxMishaps /\ mishaps' = mishaps + 1
Fault == Mishap /\ harmed' = TRUE

DeleteJobOnly(j) ==  \* mutant: no cascade
  /\ job' = [job EXCEPT ![j] = IF @ = "none" THEN "none" ELSE "deleted"]
  /\ UNCHANGED batch

(* Rows go with the job they belong to: job_id is ON DELETE CASCADE.       *)
DeleteJob(j) ==
  /\ job' = [job EXCEPT ![j] = IF @ = "none" THEN "none" ELSE "deleted"]
  /\ batch' = [b \in Batches |->
                 IF JobOf[b] = j /\ batch[b] # "none" THEN "deleted" ELSE batch[b]]

DeleteBatch(b) == /\ batch' = [batch EXCEPT ![b] = "deleted"]
                  /\ UNCHANGED job

-----------------------------------------------------------------------------
(* Submission.                                                             *)

Another == Cardinality({s \in Senders : sender[s].pc # "idle"}) < MaxSubmissions

(* ScrubList looks for a job of the list that is still processing.         *)
ScrubList(j) ==
  /\ sender[j].pc = "idle" /\ Another
  /\ \A k \in Jobs : job[k] # "processing"
  /\ sender' = [sender EXCEPT ![j].pc = "create"]
  /\ UNCHANGED <<job, batch, remote, events, handler, applied, billed, luck>>

InsertJob(j) ==
  /\ sender[j].pc = "create"
  /\ job' = [job EXCEPT ![j] = "processing"]
  /\ sender' = [sender EXCEPT ![j].pc = "insert"]
  /\ UNCHANGED <<batch, remote, events, handler, applied, billed, luck>>

(* An import submits a window it has committed.                            *)
SubmitWindow(b) ==
  /\ sender[b].pc = "idle" /\ Another
  /\ sender' = [sender EXCEPT ![b].pc = "insert"]
  /\ UNCHANGED <<job, batch, remote, events, handler, applied, billed, luck>>

Mine(s) == IF s \in Jobs THEN Chunks(s) ELSE {s}
ToSubmit(s) == {b \in Mine(s) : batch[b] = "none"}

(* A submission that fails ends a job; an import goes on without it.       *)
AfterFailure(s) == IF s \in Jobs THEN "fail" ELSE "done"

InsertBatch(s) ==
  /\ sender[s].pc = "insert"
  /\ \E b \in ToSubmit(s) :
       /\ batch' = [batch EXCEPT ![b] = "pending"]
       /\ sender' = [sender EXCEPT ![s] = [pc |-> "post", batch |-> b]]
  /\ UNCHANGED <<job, remote, events, handler, applied, billed, luck>>

InsertBatchFails(s) ==
  /\ sender[s].pc = "insert"
  /\ Fault
  /\ sender' = [sender EXCEPT ![s] = [pc |-> AfterFailure(s), batch |-> NoBatch]]
  /\ UNCHANGED <<job, batch, remote, events, handler, applied, billed>>

(* SubmitBatch: from here on Scrub may call back.                          *)
PostAccepted(s) ==
  /\ sender[s].pc = "post"
  /\ remote' = [remote EXCEPT ![sender[s].batch] = "accepted"]
  /\ sender' = [sender EXCEPT ![s].pc = "record"]
  /\ UNCHANGED <<job, batch, events, handler, applied, billed, luck>>

(* Scrub refuses the batch, or its answer is lost: the row goes.  An error *)
(* in deleting it is only logged.                                          *)
PostFails(s) ==
  LET b == sender[s].batch IN
  /\ sender[s].pc = "post"
  /\ \/ UNCHANGED <<remote, luck>> /\ DeleteBatch(b)
     \/ /\ Fault
        /\ remote' = [remote EXCEPT ![b] = "accepted"] \/ UNCHANGED remote
        /\ DeleteBatch(b) \/ UNCHANGED <<job, batch>>
  /\ sender' = [sender EXCEPT ![s] = [pc |-> AfterFailure(s), batch |-> NoBatch]]
  /\ UNCHANGED <<events, handler, applied, billed>>

(* The accepted count is stored together with the status pending, whatever *)
(* a callback has stored there by now.  An error is only logged.           *)
RecordPending(s) ==
  LET b == sender[s].batch IN
  /\ sender[s].pc = "record"
  /\ \/ /\ batch' = [batch EXCEPT ![b] = IF InTable(b) THEN "pending" ELSE @]
        /\ UNCHANGED luck
     \/ Fault /\ UNCHANGED batch
  /\ sender' = [sender EXCEPT ![s].pc = "bill"]
  /\ UNCHANGED <<job, remote, events, handler, applied, billed>>

BillRow(s) ==  \* mutant: counts through the batch's row
  /\ sender[s].pc = "bill"
  /\ billed' = [billed EXCEPT ![sender[s].batch] = IF InTable(sender[s].batch) THEN @ + 1 ELSE @]
  /\ sender' = [sender EXCEPT ![s] =
                   [pc |-> IF ToSubmit(s) = {} THEN "done" ELSE "insert", batch |-> NoBatch]]
  /\ UNCHANGED <<job, batch, remote, events, handler, applied, luck>>

Bill(s) ==
  /\ sender[s].pc = "bill"
  /\ \/ /\ billed' = [billed EXCEPT ![sender[s].batch] = @ + 1]
        /\ UNCHANGED luck
     \/ Fault /\ UNCHANGED billed
  /\ sender' = [sender EXCEPT ![s] =
                   [pc |-> IF ToSubmit(s) = {} THEN "done" ELSE "insert", batch |-> NoBatch]]
  /\ UNCHANGED <<job, batch, remote, events, handler, applied>>

FailJob(j) ==
  /\ sender[j].pc = "fail"
  /\ \/ DeleteJob(j) /\ UNCHANGED luck
     \/ Fault /\ UNCHANGED <<job, batch>>
  /\ sender' = [sender EXCEPT ![j].pc = "done"]
  /\ UNCHANGED <<remote, events, handler, applied, billed>>

Submit(s) ==
  \/ s \in Jobs /\ (ScrubList(s) \/ InsertJob(s) \/ FailJob(s))
  \/ s \in Imports /\ SubmitWindow(s)
  \/ InsertBatch(s) \/ InsertBatchFails(s)
  \/ PostAccepted(s) \/ PostFails(s)
  \/ RecordPending(s) \/ Bill(s)

-----------------------------------------------------------------------------
(* Scrub: reports progress, then ends the batch one way or the other; a    *)
(* callback whose answer came too late for it is made again.               *)

Report(b) ==
  /\ \/ /\ remote[b] = "accepted"
        /\ remote' = [remote EXCEPT ![b] = "processing"]
        /\ events' = events \cup {<<b, "processing">>}
     \/ \E st \in Ended : /\ remote[b] \in {"accepted", "processing"}
                          /\ remote' = [remote EXCEPT ![b] = st]
                          /\ events' = events \cup {<<b, st>>}
  /\ UNCHANGED <<job, batch, sender, handler, applied, billed, luck>>

Repeat(b) ==
  /\ remote[b] \in Ended
  /\ Mishap /\ UNCHANGED harmed
  /\ events' = events \cup {<<b, remote[b]>>}
  /\ UNCHANGED <<job, batch, remote, sender, handler, applied, billed>>

-----------------------------------------------------------------------------
(* The callback, and what it leaves running.                               *)

(* An unknown batch is answered with 404: nothing happens, Scrub retries.  *)
Receive(h, e) ==
  /\ handler[h].pc = "idle"
  /\ e \in events
  /\ InTable(e[1])
  /\ handler' = [handler EXCEPT ![h] = [Idle EXCEPT !.pc = "save", !.batch = e[1], !.status = e[2]]]
  /\ events' = events \ {e}
  /\ UNCHANGED <<job, batch, remote, sender, applied, billed, luck>>

(* Store the batch's progress; an error is only logged.                    *)
SaveProgress(h) ==
  LET b == handler[h].batch
      st == handler[h].status IN
  /\ handler[h].pc = "save"
  /\ \/ /\ batch' = [batch EXCEPT ![b] = IF InTable(b) THEN st ELSE @]
        /\ UNCHANGED luck
     \/ Fault /\ UNCHANGED batch
  /\ handler' = [handler EXCEPT ![h] =
                    CASE b \notin Imports  -> [@ EXCEPT !.pc = "count"]
                      [] b \in Imports /\ st = "completed" -> [@ EXCEPT !.pc = "reconcile"]
                      [] b \in Imports /\ st = "failed" -> [@ EXCEPT !.pc = "drop"]
                      [] OTHER -> Idle]
  /\ UNCHANGED <<job, remote, events, sender, applied, billed>>

(* A failed import batch is dropped inside the request.                    *)
DropFailed(h) ==
  /\ handler[h].pc = "drop"
  /\ \/ DeleteBatch(handler[h].batch) /\ UNCHANGED luck
     \/ Fault /\ UNCHANGED <<job, batch>>
  /\ handler' = [handler EXCEPT ![h] = Idle]
  /\ UNCHANGED <<remote, events, sender, applied, billed>>

CountRows(j) ==  \* mutant: as many as have a row
  Cardinality({b \in Chunks(j) : batch[b] \in Ended}) = Cardinality({b \in Chunks(j) : InTable(b)})
CountCompleted(j) ==  \* mutant: a failed chunk is waited for
  Cardinality({b \in Chunks(j) : batch[b] = "completed"}) = Cardinality(Chunks(j))

(* AggregateBatches: done once as many chunks ended as the job has.        *)
AggregateBatches(j) ==
  Cardinality({b \in Chunks(j) : batch[b] \in Ended}) = Cardinality(Chunks(j))

(* updateScrubJobProgress reads the job and its batches ...                *)
CountJob(h) ==
  LET j == JobOf[handler[h].batch] IN
  /\ handler[h].pc = "count"
  /\ \/ /\ job[j] # "deleted"
        /\ handler' = [handler EXCEPT ![h].pc = "write", ![h].done = AggregateBatches(j)]
        /\ UNCHANGED luck
     \/ /\ \/ job[j] = "deleted" /\ UNCHANGED luck
           \/ Fault
        /\ handler' = [handler EXCEPT ![h] = Idle]
  /\ UNCHANGED <<job, batch, remote, events, sender, applied, billed>>

(* ... and writes what it read, then reconciles if all had ended.          *)
WriteJob(h) ==
  LET j == JobOf[handler[h].batch]
      st == IF handler[h].done THEN "completed" ELSE "processing" IN
  /\ handler[h].pc = "write"
  /\ \/ /\ job' = [job EXCEPT ![j] = IF @ = "deleted" THEN @ ELSE st]
        /\ UNCHANGED luck
     \/ Fault /\ UNCHANGED job
  /\ handler' = [handler EXCEPT ![h] = IF handler[h].done THEN [@ EXCEPT !.pc = "reconcile"] ELSE Idle]
  /\ UNCHANGED <<batch, remote, events, sender, applied, billed>>

(* reconcileScrubJob lists the batches again and asks Scrub for the        *)
(* results of those that completed, reconcileScrubBatch has only its own;  *)
(* applyScrubResults tags the subscribers and unsubscribes those that      *)
(* can't be reached.  A call that fails leaves out what it was for.        *)
Completed(b) ==
  IF b \in Imports THEN {b} ELSE {c \in Chunks(JobOf[b]) : batch[c] = "completed"}

Reconcile(h) ==
  /\ handler[h].pc = "reconcile"
  /\ \E got \in SUBSET Completed(handler[h].batch) :
       /\ IF got = Completed(handler[h].batch) THEN UNCHANGED luck ELSE Fault
       /\ applied' = applied \cup got
  /\ handler' = [handler EXCEPT ![h].pc = "remove"]
  /\ UNCHANGED <<job, batch, remote, events, sender, billed>>

RemoveReconciled(h) ==
  LET b == handler[h].batch IN
  /\ handler[h].pc = "remove"
  /\ \/ /\ IF b \in Imports THEN DeleteBatch(b) ELSE DeleteJob(JobOf[b])
        /\ UNCHANGED luck
     \/ Fault /\ UNCHANGED <<job, batch>>
  /\ handler' = [handler EXCEPT ![h] = Idle]
  /\ UNCHANGED <<remote, events, sender, applied, billed>>

HandlerStep(h) ==
  \/ SaveProgress(h) \/ DropFailed(h) \/ CountJob(h) \/ WriteJob(h)
  \/ Reconcile(h) \/ RemoveReconciled(h)

(* The process restarts: submissions and reconciliations are forgotten,    *)
(* and Scrub makes the callbacks again that were not answered.             *)
Unanswered == {h \in Handlers : handler[h].pc \in {"save", "drop", "count", "write"}}
Crash ==
  /\ Fault
  /\ sender' = [s \in Senders |->
                  IF sender[s].pc = "idle" THEN sender[s] ELSE [pc |-> "done", batch |-> NoBatch]]
  /\ events' = events \cup {<<handler[h].batch, handler[h].status>> : h \in Unanswered}
  /\ handler' = [h \in Handlers |-> Idle]
  /\ UNCHANGED <<job, batch, remote, applied, billed>>

Next ==
  \/ \E s \in Senders : Submit(s)
  \/ \E b \in Batches : Report(b) \/ Repeat(b)
  \/ \E h \in Handlers : (\E e \in events : Receive(h, e)) \/ HandlerStep(h)
  \/ Crash

Spec == Init /\ [][Next]_vars

(* The requests and goroutines of the process run on; Scrub ends every     *)
(* batch and makes a callback again until it is answered with 200.         *)
FairSpec ==
  /\ Spec
  /\ \A h \in Handlers : WF_vars(HandlerStep(h))
  /\ \A s \in Senders : WF_vars(Submit(s) /\ sender[s].pc # "idle")
  /\ \A b \in Batches : WF_vars(Report(b) /\ remote'[b] \in Ended)
  /\ \A b \in Batches, st \in Ended :
       SF_vars(\E h \in Handlers : Receive(h, <<b, st>>))

-----------------------------------------------------------------------------
(* Properties.                                                             *)

(* Types, and what the tables' foreign key says: a chunk's row goes no     *)
(* later than the row of its job.                                          *)
TypeOK ==
  /\ job \in [Jobs -> {"none", "processing", "completed", "deleted"}]
  /\ batch \in [Batches -> {"none", "pending", "processing", "deleted"} \cup Ended]
  /\ remote \in [Batches -> {"none", "accepted", "processing"} \cup Ended]
  /\ events \subseteq Batches \X ({"processing"} \cup Ended)
  /\ sender \in [Senders -> [pc : {"idle", "create", "insert", "post", "record", "bill", "fail", "done"},
                             batch : Batches \cup {NoBatch}]]
  /\ handler \in [Handlers -> [pc : {"idle", "save", "drop", "count", "write", "reconcile", "remove"},
                               batch : Batches \cup {NoBatch},
                               status : {"pending", "processing"} \cup Ended,
                               done : BOOLEAN]]
  /\ applied \subseteq Batches
  /\ billed \in [Batches -> Nat]
  /\ mishaps \in 0..MaxMishaps /\ harmed \in BOOLEAN
  /\ \A b \in Batches \ Imports : InTable(b) => job[JobOf[b]] \in {"processing", "completed"}

(* Neither a job's results nor the guard that keeps campaigns of its list  *)
(* from starting are settled early: a job counts as completed, and a       *)
(* goroutine reconciles it, only when every one of its chunks, also those  *)
(* not submitted yet, has ended at Scrub (AggregateBatches compares with   *)
(* totalBatches, "not len(batches)").                                      *)
EndedAtScrub(j) == \A b \in Chunks(j) : remote[b] \in Ended
NothingSettledEarly ==
  /\ \A j \in Jobs : job[j] = "completed" => EndedAtScrub(j)
  /\ \A h \in Handlers :
       handler[h].pc \in {"reconcile", "remove"} =>
         LET b == handler[h].batch IN
         IF b \in Imports THEN remote[b] = "completed" ELSE EndedAtScrub(JobOf[b])

(* Scrub's bill and ours agree: unless a call failed or the process died,  *)
(* a batch Scrub accepted is billed, once, also when a later chunk is      *)
(* refused and the job is taken back; nothing else is.                     *)
AtIt(b) == \E s \in Senders : sender[s].batch = b /\ sender[s].pc \in {"record", "bill"}
BilledWhatScrubAccepted ==
  \A b \in Batches :
    /\ billed[b] = 1 => remote[b] # "none"
    /\ billed[b] <= 1
    /\ remote[b] # "none" /\ billed[b] = 0 => harmed \/ AtIt(b)

(* A job is not left behind with all of its chunks recorded as ended:     *)
(* unless something failed, a callback is still to count them, or the      *)
(* goroutine that deletes the job is on its way.                           *)
AllRecorded(j) == job[j] \in {"processing", "completed"} /\ \A b \in Chunks(j) : batch[b] \in Ended
RecordedJobsGoAway ==
  \A j \in Jobs : AllRecorded(j) /\ ~harmed =>
    \E h \in Handlers :
      /\ handler[h].batch \in Chunks(j)
      /\ \/ handler[h].pc \in {"count", "reconcile", "remove"}
         \/ handler[h].pc = "write" /\ handler[h].done

(* "triggers reconcileScrubJob once every chunk has reached a terminal     *)
(* status (completed or failed)": with no failure at all, a job whose      *)
(* chunks have all been submitted and have ended at Scrub is reconciled    *)
(* and deleted in the end.                                                 *)
EndedJobsAreReconciled ==
  \A j \in Jobs : sender[j].pc = "done" /\ EndedAtScrub(j) ~> harmed \/ job[j] # "processing"
=============================================================================
