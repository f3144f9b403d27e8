------------------------- MODULE ScrubBatches_proofs -------------------------
(* Validation by Scrub, for any number of jobs, chunks and callbacks: the  *)
(* invariants of ScrubBatches are proved from one inductive invariant.     *)
(* What it adds to them is where each claim of a row comes from: a row, a  *)
(* callback or a handler says that a batch ended only when it did, a       *)
(* sender holds a chunk of its own, and a job is gone only when its chunks *)
(* have ended or its sender has given up.                                  *)
EXTENDS ScrubBatches, FiniteSetTheorems, TLAPS

JobStatuses == {"none", "processing", "completed", "deleted"}
BatchStatuses == {"none", "pending", "processing", "deleted"} \cup Ended
RemoteStatuses == {"none", "accepted", "processing"} \cup Ended
SenderPCs == {"idle", "create", "insert", "post", "record", "bill", "fail", "done"}
SenderStates == [pc : SenderPCs, batch : Batches \cup {NoBatch}]
HandlerPCs == {"idle", "save", "drop", "count", "write", "reconcile", "remove"}
HandlerStates == [pc : HandlerPCs, batch : Batches \cup {NoBatch},
                  status : {"pending", "processing"} \cup Ended,
                  done : BOOLEAN]
AtBatch == {"post", "record", "bill"}

Types ==
  /\ job \in [Jobs -> JobStatuses]
  /\ batch \in [Batches -> BatchStatuses]
  /\ remote \in [Batches -> RemoteStatuses]
  /\ events \subseteq Batches \X ({"processing"} \cup Ended)
  /\ sender \in [Senders -> SenderStates]
  /\ handler \in [Handlers -> HandlerStates]
  /\ applied \subseteq Batches
  /\ billed \in [Batches -> Nat]
  /\ mishaps \in 0..MaxMishaps /\ harmed \in BOOLEAN

(* A job has its row while a chunk of it has one, and is shown as          *)
(* completed only when all of it has ended.                                *)
JobOK(j) ==
  /\ sender[j].pc \in {"idle", "create"} => job[j] = "none"
  /\ job[j] = "none" => /\ sender[j].pc \in {"idle", "create", "done"}
                        /\ \A b \in Chunks(j) : batch[b] = "none"
  /\ job[j] = "deleted" => /\ EndedAtScrub(j) \/ sender[j].pc = "done"
                           /\ \A b \in Chunks(j) : batch[b] \in {"none", "deleted"}
  /\ job[j] = "completed" => EndedAtScrub(j)

(* Nothing is known of a batch before it is submitted, and it is shown as  *)
(* ended only as it ended.                                                 *)
RowOK(b) ==
  /\ batch[b] = "none" => remote[b] = "none" /\ billed[b] = 0
  /\ batch[b] \in Ended => remote[b] = batch[b]

EventOK(e) == e[2] \in Ended => remote[e[1]] = e[2]

(* A sender holds a batch of its own, which is not billed yet.             *)
SenderOK(s) ==
  /\ sender[s].pc \in AtBatch =>
       /\ sender[s].batch \in Mine(s)
       /\ batch[sender[s].batch] # "none"
       /\ billed[sender[s].batch] = 0
       /\ sender[s].pc = "post" <=> remote[sender[s].batch] = "none"
  /\ s \notin Jobs => sender[s].pc \notin {"create", "fail"}

(* A handler knows how its batch ended, and what it knows of the job.      *)
HandlerOK(h) ==
  LET b == handler[h].batch IN
  /\ handler[h].pc # "idle" =>
       /\ b \in Batches
       /\ batch[b] # "none" /\ handler[h].status # "pending"
       /\ handler[h].status \in Ended => remote[b] = handler[h].status
  /\ handler[h].pc \in {"count", "write"} => b \notin Imports
  /\ handler[h].pc = "drop" => b \in Imports
  /\ handler[h].pc = "write" /\ handler[h].done => EndedAtScrub(JobOf[b])
  /\ handler[h].pc \in {"reconcile", "remove"} =>
       IF b \in Imports THEN remote[b] = "completed" ELSE EndedAtScrub(JobOf[b])

BillOK(b) ==
  /\ billed[b] = 1 => remote[b] # "none"
  /\ billed[b] <= 1
  /\ remote[b] # "none" /\ billed[b] = 0 => harmed \/ AtIt(b)

(* Who is still to count the job's chunks, or to take the job away.        *)
Sees(h, j) ==
  /\ handler[h].batch \in Chunks(j)
  /\ \/ handler[h].pc \in {"count", "reconcile", "remove"}
     \/ handler[h].pc = "write" /\ handler[h].done
AwayOK(j) == AllRecorded(j) /\ ~harmed => \E h \in Handlers : Sees(h, j)

IInv ==
  /\ Types
  /\ \A j \in Jobs : JobOK(j) /\ AwayOK(j)
  /\ \A b \in Batches : RowOK(b) /\ BillOK(b)
  /\ \A e \in events : EventOK(e)
  /\ \A s \in Senders : SenderOK(s)
  /\ \A h \in Handlers : HandlerOK(h)

-----------------------------------------------------------------------------
(* Chunks.                                                                 *)

LEMMA JobOfChunk ==
  ASSUME NEW b \in Batches
  PROVE  /\ b \notin Imports => JobOf[b] \in Jobs /\ b \in Chunks(JobOf[b])
         /\ \A j \in Jobs : b \in Chunks(j) => JobOf[b] = j /\ b \notin Imports
BY ScrubAssumption DEF Imports, Chunks

LEMMA MineAreMine ==
  ASSUME NEW s \in Senders
  PROVE  /\ Mine(s) \subseteq Batches
         /\ \A t \in Senders : Mine(s) \cap Mine(t) # {} => s = t
         /\ s \in Jobs => Mine(s) = Chunks(s) /\ s \notin Imports
         /\ s \notin Jobs => Mine(s) = {s} /\ s \in Imports /\ s \in Batches
BY ScrubAssumption DEF Senders, Imports, Chunks, Mine

(* As many chunks ended as the job has: all of them did.                   *)
LEMMA AggregateIsAll ==
  ASSUME NEW j \in Jobs
  PROVE  AggregateBatches(j) <=> \A b \in Chunks(j) : batch[b] \in Ended
<1> DEFINE E == {b \in Chunks(j) : batch[b] \in Ended}
<1>1. IsFiniteSet(Chunks(j))
  BY ScrubAssumption, FS_Subset DEF Chunks
<1>2. E \in SUBSET Chunks(j)
  OBVIOUS
<1>3. Cardinality(E) = Cardinality(Chunks(j)) => E = Chunks(j)
  BY <1>1, <1>2, FS_Subset
<1>4. (\A b \in Chunks(j) : batch[b] \in Ended) => E = Chunks(j)
  OBVIOUS
<1>5. AggregateBatches(j) <=> Cardinality(E) = Cardinality(Chunks(j))
  BY DEF AggregateBatches
<1>6. QED BY <1>3, <1>4, <1>5

-----------------------------------------------------------------------------
(* What stays when a step changes something else.                          *)

(* Rows don't come back, and Scrub does not change its mind.               *)
RowsStay ==
  \A b \in Batches : /\ InTable(b) => batch'[b] # "none"
                     /\ ~InTable(b) => batch'[b] = batch[b]
Submitted == \A b \in Batches : batch[b] # "none" => batch'[b] # "none"
EndsStay == \A b \in Batches : remote[b] \in Ended => remote'[b] = remote[b]
Same(b) == billed'[b] = billed[b] /\ (remote'[b] = "none" <=> remote[b] = "none")
HarmStays == harmed => harmed'

LEMMA RowsStaySubmitted ==
  ASSUME RowsStay PROVE Submitted
BY DEF RowsStay, Submitted, InTable

LEMMA EndedStays ==
  ASSUME EndsStay
  PROVE  \A j \in Jobs : EndedAtScrub(j) => EndedAtScrub(j)'
BY DEF EndsStay, EndedAtScrub, Chunks

LEMMA JobsKept ==
  ASSUME IInv, EndsStay, NEW J \in SUBSET Jobs,
         \A j \in J : /\ job'[j] = job[j] /\ sender'[j].pc = sender[j].pc
                      /\ \A b \in Chunks(j) : ~InTable(b) => batch'[b] = batch[b]
  PROVE  \A j \in J : JobOK(j)'
<1> SUFFICES ASSUME NEW j \in J PROVE JobOK(j)'
  OBVIOUS
<1>1. JobOK(j) /\ job'[j] = job[j] /\ sender'[j].pc = sender[j].pc
  BY DEF IInv
<1>2. EndedAtScrub(j) => EndedAtScrub(j)'
  BY EndedStays
<1>3. \A b \in Chunks(j) : batch[b] \in {"none", "deleted"} => batch'[b] = batch[b]
  BY DEF InTable
<1>4. QED BY <1>1, <1>2, <1>3 DEF JobOK

LEMMA SendersKept ==
  ASSUME IInv, Submitted, NEW T \in SUBSET Senders,
         \A t \in T : sender'[t] = sender[t] /\ \A b \in Mine(t) : Same(b)
  PROVE  \A t \in T : SenderOK(t)'
<1> SUFFICES ASSUME NEW t \in T PROVE SenderOK(t)'
  OBVIOUS
<1>1. SenderOK(t) /\ sender'[t] = sender[t]
  BY DEF IInv
<1>2. Mine(t) \subseteq Batches
  BY MineAreMine
<1>3. \A b \in Mine(t) : Same(b) /\ (batch[b] # "none" => batch'[b] # "none")
  BY <1>2 DEF Submitted
<1>4. QED BY <1>1, <1>3 DEF SenderOK, Same

LEMMA HandlersKept ==
  ASSUME IInv, Submitted, EndsStay, NEW G \in SUBSET Handlers,
         \A g \in G : handler'[g] = handler[g]
  PROVE  \A g \in G : HandlerOK(g)'
<1> SUFFICES ASSUME NEW g \in G PROVE HandlerOK(g)'
  OBVIOUS
<1> DEFINE b == handler[g].batch
<1>1. HandlerOK(g) /\ handler'[g] = handler[g]
  BY DEF IInv
<1>2. handler[g].pc # "idle" => /\ b \in Batches /\ batch'[b] # "none"
                                /\ remote[b] \in Ended => remote'[b] = remote[b]
  BY <1>1 DEF HandlerOK, Submitted, EndsStay
<1>3. b \in Batches /\ b \notin Imports /\ EndedAtScrub(JobOf[b]) => EndedAtScrub(JobOf[b])'
  BY JobOfChunk, EndedStays
<1>4. handler[g].pc # "idle" /\ handler[g].status \in Ended => remote'[b] = handler[g].status
  BY <1>1, <1>2 DEF HandlerOK
<1>5. handler[g].pc = "write" /\ handler[g].done => EndedAtScrub(JobOf[b])'
  BY <1>1, <1>3 DEF HandlerOK
<1>6. handler[g].pc \in {"reconcile", "remove"} =>
        IF b \in Imports THEN remote'[b] = "completed" ELSE EndedAtScrub(JobOf[b])'
  BY <1>1, <1>2, <1>3 DEF HandlerOK, Ended
<1>7. QED BY <1>1, <1>2, <1>4, <1>5, <1>6 DEF HandlerOK

LEMMA RowsKept ==
  ASSUME IInv, EndsStay, NEW B \in SUBSET Batches,
         \A b \in B : batch'[b] \in {batch[b], "deleted"} /\ Same(b)
  PROVE  \A b \in B : RowOK(b)'
BY DEF IInv, RowOK, Same, EndsStay, Ended

LEMMA EventsKept ==
  ASSUME IInv, EndsStay
  PROVE  \A e \in events : EventOK(e)'
BY DEF IInv, Types, EventOK, EndsStay

LEMMA BillsKept ==
  ASSUME IInv, HarmStays, NEW B \in SUBSET Batches,
         \A b \in B : Same(b) /\ (AtIt(b) => AtIt(b)')
  PROVE  \A b \in B : BillOK(b)'
BY DEF IInv, HarmStays, BillOK, Same

LEMMA AwayKept ==
  ASSUME IInv, HarmStays, handler' = handler, NEW J \in SUBSET Jobs,
         \A j \in J : AllRecorded(j)' => AllRecorded(j)
  PROVE  \A j \in J : AwayOK(j)'
BY DEF IInv, HarmStays, AwayOK, Sees


LEMMA AtItKept ==
  ASSUME IInv, NEW s \in Senders, \A t \in Senders \ {s} : sender'[t] = sender[t]
  PROVE  /\ \A b \in Batches \ Mine(s) : AtIt(b) => AtIt(b)'
         /\ sender[s].pc \notin {"record", "bill"} => \A b \in Batches : AtIt(b) => AtIt(b)'
<1>1. \A t \in Senders : sender[t].pc \in {"record", "bill"} => sender[t].batch \in Mine(t)
  BY DEF IInv, SenderOK, AtBatch
<1>2. QED BY <1>1 DEF AtIt

(* A step of a sender: what it must show of its own batches and its job.   *)
LEMMA SenderMoves ==
  ASSUME IInv, Types', Submitted, EndsStay, HarmStays, handler' = handler, events' = events,
         NEW s \in Senders,
         \A t \in Senders \ {s} : sender'[t] = sender[t],
         \A b \in Batches \ Mine(s) : Same(b) /\ batch'[b] = batch[b],
         \A j \in Jobs \ {s} : job'[j] = job[j],
         SenderOK(s)',
         \A b \in Mine(s) : RowOK(b)' /\ BillOK(b)',
         s \in Jobs => JobOK(s)' /\ AwayOK(s)'
  PROVE  IInv'
<1>1. \A j \in Jobs \ {s} : \A b \in Chunks(j) : b \in Batches \ Mine(s)
  BY MineAreMine DEF Senders
<1>2. \A j \in Jobs \ {s} : job'[j] = job[j] /\ sender'[j] = sender[j]
  BY DEF Senders
<1>3. \A j \in Jobs \ {s} : JobOK(j)'
  BY <1>1, <1>2, JobsKept
<1>4. \A j \in Jobs \ {s} : AllRecorded(j)' => AllRecorded(j)
  BY <1>1, <1>2 DEF AllRecorded
<1>5. \A j \in Jobs \ {s} : AwayOK(j)'
  BY <1>4, AwayKept
<1>6. \A t \in Senders \ {s} : \A b \in Mine(t) : b \in Batches \ Mine(s)
  BY MineAreMine
<1>7. \A t \in Senders \ {s} : SenderOK(t)'
  BY <1>6, SendersKept
<1>8. \A h \in Handlers : HandlerOK(h)'
  BY HandlersKept
<1>9. \A e \in events' : EventOK(e)'
  BY EventsKept
<1>10. \A b \in Batches \ Mine(s) : RowOK(b)'
  BY RowsKept
<1>11. \A b \in Batches \ Mine(s) : BillOK(b)'
  BY AtItKept, BillsKept
<1>12. QED BY <1>3, <1>5, <1>7, <1>8, <1>9, <1>10, <1>11 DEF IInv

(* A step of a handler: what it must show of the rows, the jobs and itself.*)
LEMMA HandlerMoves ==
  ASSUME IInv, Types', RowsStay, remote' = remote, billed' = billed, sender' = sender, HarmStays,
         NEW h \in Handlers,
         \A g \in Handlers \ {h} : handler'[g] = handler[g],
         \A b \in Batches : RowOK(b)',
         \A j \in Jobs : JobOK(j)' /\ AwayOK(j)',
         \A e \in events' : EventOK(e)',
         HandlerOK(h)'
  PROVE  IInv'
<1>1. Submitted /\ EndsStay
  BY RowsStaySubmitted DEF EndsStay
<1>2. \A b \in Batches : Same(b)
  BY DEF Same
<1>3. \A s \in Senders : SenderOK(s)'
  BY <1>1, <1>2, SendersKept, MineAreMine
<1>4. \A g \in Handlers : HandlerOK(g)'
  BY <1>1, HandlersKept
<1>5. \A b \in Batches : BillOK(b)'
  BY <1>2, BillsKept DEF AtIt
<1>6. QED BY <1>3, <1>4, <1>5 DEF IInv

LEMMA SenderAt ==
  ASSUME Types, NEW s \in Senders, NEW new \in SenderStates, sender' = [sender EXCEPT ![s] = new]
  PROVE  /\ sender' \in [Senders -> SenderStates]
         /\ sender'[s] = new
         /\ \A t \in Senders \ {s} : sender'[t] = sender[t]
BY DEF Types

LEMMA SenderGoes ==
  ASSUME Types, NEW s \in Senders, NEW pc \in SenderPCs, sender' = [sender EXCEPT ![s].pc = pc]
  PROVE  /\ sender' \in [Senders -> SenderStates]
         /\ sender'[s].pc = pc /\ sender'[s].batch = sender[s].batch
         /\ \A t \in Senders \ {s} : sender'[t] = sender[t]
<1>1. sender[s] \in SenderStates
  BY DEF Types
<1>2. [sender[s] EXCEPT !.pc = pc] \in SenderStates
  BY <1>1 DEF SenderStates, SenderPCs
<1>3. sender' = [sender EXCEPT ![s] = [sender[s] EXCEPT !.pc = pc]]
  OBVIOUS
<1>4. sender'[s] = [sender[s] EXCEPT !.pc = pc]
  BY <1>2, <1>3, SenderAt
<1>5. QED BY <1>1, <1>2, <1>3, <1>4, SenderAt DEF SenderStates

LEMMA HandlerAt ==
  ASSUME Types, NEW h \in Handlers, NEW new \in HandlerStates, handler' = [handler EXCEPT ![h] = new]
  PROVE  /\ handler' \in [Handlers -> HandlerStates]
         /\ handler'[h] = new
         /\ \A g \in Handlers \ {h} : handler'[g] = handler[g]
BY DEF Types

LEMMA HandlerGoes ==
  ASSUME Types, NEW h \in Handlers, NEW pc \in HandlerPCs
  PROVE  /\ [handler[h] EXCEPT !.pc = pc] \in HandlerStates
         /\ [handler[h] EXCEPT !.pc = pc].pc = pc
         /\ [handler[h] EXCEPT !.pc = pc].batch = handler[h].batch
         /\ [handler[h] EXCEPT !.pc = pc].status = handler[h].status
         /\ [handler[h] EXCEPT !.pc = pc].done = handler[h].done
BY DEF Types, HandlerStates, HandlerPCs

LEMMA FaultTypes ==
  ASSUME Types, UNCHANGED luck \/ Fault
  PROVE  mishaps' \in 0..MaxMishaps /\ harmed' \in BOOLEAN /\ HarmStays
<1>1. mishaps' \in 0..MaxMishaps
  BY ScrubAssumption DEF Types, luck, Fault, Mishap
<1>2. harmed' = harmed \/ harmed' = TRUE
  BY DEF luck, Fault
<1>3. harmed' \in BOOLEAN
  BY <1>2 DEF Types
<1>4. HarmStays
  BY <1>2, Zenon DEF HarmStays
<1>5. QED BY <1>1, <1>3, <1>4

-----------------------------------------------------------------------------
(* The submission.                                                         *)

LEMMA ScrubListStep ==
  ASSUME IInv, NEW j \in Jobs, ScrubList(j)
  PROVE  IInv'
<1>1. j \in Senders /\ sender[j].pc = "idle" /\ sender' = [sender EXCEPT ![j].pc = "create"]
  BY DEF ScrubList, Senders
<1>2. UNCHANGED <<job, batch, remote, events, handler, applied, billed, luck>>
  BY DEF ScrubList
<1>3. /\ sender' \in [Senders -> SenderStates] /\ sender'[j].pc = "create"
      /\ \A t \in Senders \ {j} : sender'[t] = sender[t]
  BY <1>1, SenderGoes DEF IInv, SenderPCs
<1>4. Types'
  BY <1>2, <1>3 DEF IInv, Types, luck
<1>5. /\ Submitted /\ EndsStay /\ HarmStays
      /\ \A b \in Batches : Same(b) /\ batch'[b] = batch[b]
  BY <1>2 DEF Submitted, EndsStay, HarmStays, Same, luck
<1>6. SenderOK(j)'
  BY <1>3 DEF SenderOK, AtBatch
<1>7. \A b \in Batches : RowOK(b)' /\ BillOK(b)'
  BY <1>1, <1>3, <1>5, AtItKept, RowsKept, BillsKept
<1>8. JobOK(j)'
  BY <1>1, <1>2, <1>3 DEF IInv, JobOK, EndedAtScrub
<1>9. AwayOK(j)'
  BY <1>2, <1>5, AwayKept DEF AllRecorded
<1>10. QED BY <1>1, <1>2, <1>3, <1>4, <1>5, <1>6, <1>7, <1>8, <1>9, MineAreMine, SenderMoves

LEMMA InsertJobStep ==
  ASSUME IInv, NEW j \in Jobs, InsertJob(j)
  PROVE  IInv'
<1>1. /\ j \in Senders /\ sender[j].pc = "create" /\ sender' = [sender EXCEPT ![j].pc = "insert"]
      /\ job' = [job EXCEPT ![j] = "processing"]
  BY DEF InsertJob, Senders
<1>2. UNCHANGED <<batch, remote, events, handler, applied, billed, luck>>
  BY DEF InsertJob
<1>3. /\ sender' \in [Senders -> SenderStates] /\ sender'[j].pc = "insert"
      /\ \A t \in Senders \ {j} : sender'[t] = sender[t]
  BY <1>1, SenderGoes DEF IInv, SenderPCs
<1>4. Types' /\ job'[j] = "processing" /\ \A k \in Jobs \ {j} : job'[k] = job[k]
  BY <1>1, <1>2, <1>3 DEF IInv, Types, JobStatuses, luck
<1>5. /\ Submitted /\ EndsStay /\ HarmStays
      /\ \A b \in Batches : Same(b) /\ batch'[b] = batch[b]
  BY <1>2 DEF Submitted, EndsStay, HarmStays, Same, luck
<1>6. SenderOK(j)'
  BY <1>3 DEF SenderOK, AtBatch
<1>7. \A b \in Batches : RowOK(b)' /\ BillOK(b)'
  BY <1>1, <1>3, <1>5, AtItKept, RowsKept, BillsKept
<1>8. JobOK(j)'
  BY <1>3, <1>4 DEF JobOK
<1>9. AwayOK(j)'
  <2>1. \A b \in Chunks(j) : batch[b] = "none"
    BY <1>1 DEF IInv, JobOK
  <2>2. PICK b \in Chunks(j) : TRUE
    BY ScrubAssumption
  <2>3. batch'[b] \notin Ended
    BY <1>2, <2>1 DEF Ended
  <2>4. QED BY <2>3 DEF AwayOK, AllRecorded
<1>10. QED BY <1>1, <1>2, <1>3, <1>4, <1>5, <1>6, <1>7, <1>8, <1>9, MineAreMine, SenderMoves

LEMMA SubmitWindowStep ==
  ASSUME IInv, NEW s \in Imports, SubmitWindow(s)
  PROVE  IInv'
<1>1. /\ s \in Senders /\ sender[s].pc = "idle" /\ sender' = [sender EXCEPT ![s].pc = "insert"]
      /\ s \notin Jobs
  BY ScrubAssumption DEF SubmitWindow, Senders, Imports, Chunks
<1>2. UNCHANGED <<job, batch, remote, events, handler, applied, billed, luck>>
  BY DEF SubmitWindow
<1>3. /\ sender' \in [Senders -> SenderStates] /\ sender'[s].pc = "insert"
      /\ \A t \in Senders \ {s} : sender'[t] = sender[t]
  BY <1>1, SenderGoes DEF IInv, SenderPCs
<1>4. Types'
  BY <1>2, <1>3 DEF IInv, Types, luck
<1>5. /\ Submitted /\ EndsStay /\ HarmStays
      /\ \A b \in Batches : Same(b) /\ batch'[b] = batch[b]
  BY <1>2 DEF Submitted, EndsStay, HarmStays, Same, luck
<1>6. SenderOK(s)'
  BY <1>3 DEF SenderOK, AtBatch
<1>7. \A b \in Batches : RowOK(b)' /\ BillOK(b)'
  BY <1>1, <1>3, <1>5, AtItKept, RowsKept, BillsKept
<1>8. QED BY <1>1, <1>2, <1>3, <1>4, <1>5, <1>6, <1>7, MineAreMine, SenderMoves

LEMMA InsertBatchFailsStep ==
  ASSUME IInv, NEW s \in Senders, InsertBatchFails(s)
  PROVE  IInv'
<1> DEFINE new == [pc |-> AfterFailure(s), batch |-> NoBatch]
<1>1. sender[s].pc = "insert" /\ Fault /\ sender' = [sender EXCEPT ![s] = new]
  BY DEF InsertBatchFails
<1>2. UNCHANGED <<job, batch, remote, events, handler, applied, billed>>
  BY DEF InsertBatchFails
<1>3. new \in SenderStates /\ new.pc \in {"fail", "done"} /\ (s \notin Jobs => new.pc = "done")
  BY DEF SenderStates, SenderPCs, AfterFailure
<1> HIDE DEF new
<1>4. /\ sender' \in [Senders -> SenderStates] /\ sender'[s] = new
      /\ \A t \in Senders \ {s} : sender'[t] = sender[t]
  BY <1>1, <1>3, SenderAt DEF IInv
<1>5. mishaps' \in 0..MaxMishaps /\ harmed' \in BOOLEAN /\ HarmStays
  BY <1>1, FaultTypes DEF IInv
<1>6. Types'
  BY <1>2, <1>4, <1>5 DEF IInv, Types
<1>7. /\ Submitted /\ EndsStay
      /\ \A b \in Batches : Same(b) /\ batch'[b] = batch[b]
  BY <1>2 DEF Submitted, EndsStay, Same
<1>8. SenderOK(s)'
  BY <1>3, <1>4 DEF SenderOK, AtBatch
<1>9. \A b \in Batches : RowOK(b)' /\ BillOK(b)'
  BY <1>1, <1>4, <1>5, <1>7, AtItKept, RowsKept, BillsKept
<1>10. ASSUME s \in Jobs PROVE JobOK(s)' /\ AwayOK(s)'
  <2>1. JobOK(s)'
    BY <1>1, <1>2, <1>3, <1>4, <1>10 DEF IInv, JobOK, EndedAtScrub
  <2>2. AwayOK(s)'
    BY <1>2, <1>5, <1>10, AwayKept DEF AllRecorded
  <2>3. QED BY <2>1, <2>2
<1>11. QED BY <1>2, <1>4, <1>5, <1>6, <1>7, <1>8, <1>9, <1>10, MineAreMine, SenderMoves

LEMMA InsertBatchStep ==
  ASSUME IInv, NEW s \in Senders, InsertBatch(s)
  PROVE  IInv'
<1>1. PICK b \in ToSubmit(s) : /\ batch' = [batch EXCEPT ![b] = "pending"]
                               /\ sender' = [sender EXCEPT ![s] = [pc |-> "post", batch |-> b]]
  BY DEF InsertBatch
<1>2. UNCHANGED <<job, remote, events, handler, applied, billed, luck>> /\ sender[s].pc = "insert"
  BY DEF InsertBatch
<1>3. b \in Batches /\ b \in Mine(s) /\ batch[b] = "none" /\ remote[b] = "none" /\ billed[b] = 0
  BY MineAreMine DEF ToSubmit, IInv, RowOK
<1>4. /\ sender' \in [Senders -> SenderStates] /\ sender'[s].pc = "post" /\ sender'[s].batch = b
      /\ \A t \in Senders \ {s} : sender'[t] = sender[t]
  <2>1. [pc |-> "post", batch |-> b] \in SenderStates
    BY <1>3 DEF SenderStates, SenderPCs
  <2>2. QED BY <1>1, <2>1, SenderAt DEF IInv
<1>5. Types' /\ batch'[b] = "pending" /\ \A c \in Batches \ {b} : batch'[c] = batch[c]
  BY <1>1, <1>2, <1>3, <1>4 DEF IInv, Types, BatchStatuses, luck
<1>6. Submitted /\ EndsStay /\ HarmStays /\ \A c \in Batches : Same(c)
  BY <1>2, <1>5 DEF Submitted, EndsStay, HarmStays, Same, luck
<1>7. SenderOK(s)'
  BY <1>2, <1>3, <1>4, <1>5 DEF SenderOK, AtBatch
<1>8. \A c \in Batches : BillOK(c)'
  BY <1>2, <1>4, <1>6, AtItKept, BillsKept
<1>9. \A c \in Mine(s) : RowOK(c)'
  <2>1. RowOK(b)'
    BY <1>5 DEF RowOK, Ended
  <2>2. \A c \in Mine(s) \ {b} : c \in Batches /\ batch'[c] = batch[c]
    BY <1>5, MineAreMine
  <2>3. \A c \in Mine(s) \ {b} : RowOK(c)'
    BY <1>6, <2>2, RowsKept
  <2>4. QED BY <2>1, <2>3
<1>10. ASSUME s \in Jobs PROVE JobOK(s)' /\ AwayOK(s)'
  <2>1. b \in Chunks(s) /\ JobOK(s)
    BY <1>3, <1>10, MineAreMine DEF IInv
  <2>2. ~EndedAtScrub(s)
    BY <1>3, <2>1 DEF EndedAtScrub, Ended
  <2>3. job[s] \in {"processing"} /\ job'[s] = job[s]
    BY <1>2, <1>10, <2>1, <2>2 DEF JobOK, IInv, Types, JobStatuses
  <2>4. JobOK(s)'
    BY <1>4, <2>3 DEF JobOK
  <2>5. AwayOK(s)'
    BY <1>5, <2>1 DEF AwayOK, AllRecorded, Ended
  <2>6. QED BY <2>4, <2>5
<1>11. \A c \in Batches \ Mine(s) : batch'[c] = batch[c]
  BY <1>3, <1>5
<1>12. QED BY <1>2, <1>4, <1>5, <1>6, <1>7, <1>8, <1>9, <1>10, <1>11, MineAreMine, SenderMoves

(* Of the batch that a sender holds.                                       *)
LEMMA HeldBatch ==
  ASSUME IInv, NEW s \in Senders, sender[s].pc \in AtBatch, NEW b, b = sender[s].batch
  PROVE  /\ b \in Batches /\ b \in Mine(s)
         /\ batch[b] # "none" /\ billed[b] = 0 /\ (sender[s].pc = "post" <=> remote[b] = "none")
         /\ s \in Jobs => b \in Chunks(s) /\ job[s] # "none"
<1>1. SenderOK(s)
  BY DEF IInv
<1>2. b \in Batches /\ b \in Mine(s) /\ (s \in Jobs => b \in Chunks(s) /\ JobOK(s))
  BY <1>1, MineAreMine DEF SenderOK, IInv
<1>3. QED BY <1>1, <1>2 DEF SenderOK, JobOK, AtBatch

LEMMA PostAcceptedStep ==
  ASSUME IInv, NEW s \in Senders, PostAccepted(s)
  PROVE  IInv'
<1>0. PICK b : b = sender[s].batch
  OBVIOUS
<1>1. /\ sender[s].pc = "post" /\ sender[s].pc \in AtBatch
      /\ remote' = [remote EXCEPT ![b] = "accepted"]
      /\ sender' = [sender EXCEPT ![s].pc = "record"]
  BY <1>0 DEF PostAccepted, AtBatch
<1>2. UNCHANGED <<job, batch, events, handler, applied, billed, luck>>
  BY DEF PostAccepted
<1>3. /\ b \in Batches /\ b \in Mine(s) /\ batch[b] # "none" /\ billed[b] = 0 /\ remote[b] = "none"
      /\ s \in Jobs => b \in Chunks(s) /\ job[s] # "none"
  BY <1>0, <1>1, HeldBatch
<1>4. /\ sender' \in [Senders -> SenderStates] /\ sender'[s].pc = "record" /\ sender'[s].batch = b
      /\ \A t \in Senders \ {s} : sender'[t] = sender[t]
  BY <1>0, <1>1, SenderGoes DEF IInv, SenderPCs
<1>5. Types' /\ remote'[b] = "accepted" /\ \A c \in Batches \ {b} : remote'[c] = remote[c]
  BY <1>1, <1>2, <1>3, <1>4 DEF IInv, Types, RemoteStatuses, luck
<1>6. Submitted /\ EndsStay /\ HarmStays /\ \A c \in Batches \ {b} : Same(c)
  BY <1>2, <1>3, <1>5 DEF Submitted, EndsStay, HarmStays, Same, Ended, luck
<1>7. SenderOK(s)'
  BY <1>2, <1>3, <1>4, <1>5 DEF SenderOK, AtBatch
<1>8. \A c \in Batches : BillOK(c)'
  <2>1. \A c \in Batches \ {b} : BillOK(c)'
    BY <1>1, <1>4, <1>6, AtItKept, BillsKept
  <2>2. BillOK(b)'
    BY <1>2, <1>3, <1>4, <1>5 DEF BillOK, AtIt
  <2>3. QED BY <2>1, <2>2
<1>9. \A c \in Mine(s) : RowOK(c)'
  <2>1. RowOK(b)'
    BY <1>2, <1>3 DEF RowOK, Ended, IInv
  <2>2. \A c \in Mine(s) \ {b} : c \in Batches /\ batch'[c] = batch[c]
    BY <1>2, MineAreMine
  <2>3. \A c \in Mine(s) \ {b} : RowOK(c)'
    BY <1>6, <2>2, RowsKept
  <2>4. QED BY <2>1, <2>3
<1>10. ASSUME s \in Jobs PROVE JobOK(s)' /\ AwayOK(s)'
  <2>1. JobOK(s)' 
    <3>1. ~EndedAtScrub(s) /\ JobOK(s)
      BY <1>3, <1>10 DEF EndedAtScrub, Ended, IInv
    <3>2. QED BY <1>1, <1>2, <1>3, <1>4, <1>10, <3>1 DEF JobOK
  <2>2. AwayOK(s)'
    BY <1>2, <1>6, <1>10, AwayKept DEF AllRecorded
  <2>3. QED BY <2>1, <2>2
<1>11. \A c \in Batches \ Mine(s) : Same(c) /\ batch'[c] = batch[c]
  BY <1>2, <1>3, <1>6
<1>12. \A k \in Jobs : job'[k] = job[k]
  BY <1>2
<1>13. QED BY <1>2, <1>4, <1>5, <1>6, <1>7, <1>8, <1>9, <1>10, <1>11, <1>12, MineAreMine, SenderMoves

LEMMA RecordPendingStep ==
  ASSUME IInv, NEW s \in Senders, RecordPending(s)
  PROVE  IInv'
<1>0. PICK b : b = sender[s].batch
  OBVIOUS
<1>1. /\ sender[s].pc = "record" /\ sender[s].pc \in AtBatch
      /\ sender' = [sender EXCEPT ![s].pc = "bill"]
      /\ batch' = batch \/ (batch' = [batch EXCEPT ![b] = "pending"] /\ InTable(b))
  BY <1>0 DEF RecordPending, AtBatch, IInv, Types
<1>2. UNCHANGED <<job, remote, events, handler, applied, billed>>
  BY DEF RecordPending
<1>3. /\ b \in Batches /\ b \in Mine(s) /\ batch[b] # "none" /\ billed[b] = 0 /\ remote[b] # "none"
      /\ s \in Jobs => b \in Chunks(s) /\ job[s] # "none"
  BY <1>0, <1>1, HeldBatch
<1>4. /\ sender' \in [Senders -> SenderStates] /\ sender'[s].pc = "bill" /\ sender'[s].batch = b
      /\ \A t \in Senders \ {s} : sender'[t] = sender[t]
  BY <1>0, <1>1, SenderGoes DEF IInv, SenderPCs
<1>5. mishaps' \in 0..MaxMishaps /\ harmed' \in BOOLEAN /\ HarmStays
  BY FaultTypes DEF RecordPending, IInv
<1>6. /\ Types' /\ \A c \in Batches \ {b} : batch'[c] = batch[c]
      /\ batch'[b] = batch[b] \/ (batch'[b] = "pending" /\ InTable(b))
  BY <1>1, <1>2, <1>3, <1>4, <1>5 DEF IInv, Types, BatchStatuses
<1>7. RowsStay /\ Submitted /\ EndsStay /\ \A c \in Batches : Same(c)
  BY <1>2, <1>6, RowsStaySubmitted DEF RowsStay, EndsStay, Same, InTable
<1>8. SenderOK(s)'
  BY <1>2, <1>3, <1>4, <1>6 DEF SenderOK, AtBatch
<1>9. \A c \in Batches : BillOK(c)'
  <2>1. \A c \in Batches \ {b} : AtIt(c) => AtIt(c)'
    BY <1>0, <1>4 DEF AtIt
  <2>2. AtIt(b)'
    BY <1>4 DEF AtIt
  <2>3. QED BY <1>5, <1>7, <2>1, <2>2, BillsKept
<1>10. \A c \in Mine(s) : RowOK(c)'
  <2>1. RowOK(b)'
    BY <1>2, <1>3, <1>6 DEF RowOK, Ended, IInv
  <2>2. \A c \in Mine(s) \ {b} : c \in Batches /\ batch'[c] = batch[c]
    BY <1>6, MineAreMine
  <2>3. \A c \in Mine(s) \ {b} : RowOK(c)'
    BY <1>7, <2>2, RowsKept
  <2>4. QED BY <2>1, <2>3
<1>11. ASSUME s \in Jobs PROVE JobOK(s)' /\ AwayOK(s)'
  <2>1. JobOK(s)'
    <3>1. \A c \in Chunks(s) : ~InTable(c) => batch'[c] = batch[c]
      BY <1>7 DEF RowsStay, Chunks
    <3>2. EndedAtScrub(s) => EndedAtScrub(s)'
      BY <1>7, <1>11, EndedStays
    <3>3. QED BY <1>1, <1>2, <1>3, <1>4, <1>11, <3>1, <3>2 DEF JobOK, IInv, InTable
  <2>2. AllRecorded(s)' => AllRecorded(s)
    BY <1>2, <1>3, <1>6, <1>11 DEF AllRecorded, Ended, Chunks
  <2>3. QED BY <1>2, <1>5, <1>11, <2>1, <2>2, AwayKept
<1>12. \A c \in Batches \ Mine(s) : batch'[c] = batch[c]
  BY <1>3, <1>6
<1>13. QED BY <1>2, <1>4, <1>5, <1>6, <1>7, <1>8, <1>9, <1>10, <1>11, <1>12, MineAreMine, SenderMoves

LEMMA BillStep ==
  ASSUME IInv, NEW s \in Senders, Bill(s)
  PROVE  IInv'
<1> DEFINE new == [pc |-> IF ToSubmit(s) = {} THEN "done" ELSE "insert", batch |-> NoBatch]
<1>0. PICK b : b = sender[s].batch
  OBVIOUS
<1>1. /\ sender[s].pc = "bill" /\ sender[s].pc \in AtBatch
      /\ sender' = [sender EXCEPT ![s] = new]
      /\ \/ billed' = [billed EXCEPT ![b] = billed[b] + 1] /\ UNCHANGED luck
         \/ Fault /\ UNCHANGED billed
  BY <1>0 DEF Bill, AtBatch
<1>2. UNCHANGED <<job, batch, remote, events, handler, applied>>
  BY DEF Bill
<1>3. /\ b \in Batches /\ b \in Mine(s) /\ batch[b] # "none" /\ billed[b] = 0 /\ remote[b] # "none"
      /\ s \in Jobs => b \in Chunks(s) /\ job[s] # "none"
  BY <1>0, <1>1, HeldBatch
<1>4. new \in SenderStates /\ new.pc \in {"done", "insert"}
  BY DEF SenderStates, SenderPCs
<1> HIDE DEF new
<1>5. /\ sender' \in [Senders -> SenderStates] /\ sender'[s].pc \in {"done", "insert"}
      /\ \A t \in Senders \ {s} : sender'[t] = sender[t]
  BY <1>1, <1>4, SenderAt DEF IInv
<1>6. mishaps' \in 0..MaxMishaps /\ harmed' \in BOOLEAN /\ HarmStays
  BY <1>1, FaultTypes DEF IInv
<1>7. /\ billed' \in [Batches -> Nat] /\ \A c \in Batches \ {b} : billed'[c] = billed[c]
      /\ billed'[b] = 1 \/ (billed'[b] = 0 /\ harmed')
  <2>1. CASE billed' = [billed EXCEPT ![b] = billed[b] + 1]
    BY <1>3, <2>1 DEF IInv, Types
  <2>2. CASE Fault /\ UNCHANGED billed
    BY <1>3, <2>2 DEF IInv, Types, Fault
  <2>3. QED BY <1>1, <2>1, <2>2
<1>8. Types'
  BY <1>2, <1>5, <1>6, <1>7 DEF IInv, Types
<1>9. Submitted /\ EndsStay /\ \A c \in Batches \ {b} : Same(c)
  BY <1>2, <1>7 DEF Submitted, EndsStay, Same
<1>10. SenderOK(s)'
  BY <1>5 DEF SenderOK, AtBatch
<1>11. \A c \in Batches : BillOK(c)'
  <2>1. \A c \in Batches \ {b} : AtIt(c) => AtIt(c)'
    BY <1>0, <1>5 DEF AtIt
  <2>2. \A c \in Batches \ {b} : BillOK(c)'
    BY <1>6, <1>9, <2>1, BillsKept
  <2>3. BillOK(b)'
    BY <1>2, <1>3, <1>7 DEF BillOK
  <2>4. QED BY <2>2, <2>3
<1>12. \A c \in Mine(s) : RowOK(c)'
  <2>1. RowOK(b)'
    BY <1>2, <1>3 DEF RowOK, IInv
  <2>2. \A c \in Mine(s) \ {b} : c \in Batches /\ batch'[c] = batch[c]
    BY <1>2, MineAreMine
  <2>3. \A c \in Mine(s) \ {b} : RowOK(c)'
    BY <1>9, <2>2, RowsKept
  <2>4. QED BY <2>1, <2>3
<1>13. ASSUME s \in Jobs PROVE JobOK(s)' /\ AwayOK(s)'
  <2>1. EndedAtScrub(s) => EndedAtScrub(s)'
    BY <1>9, <1>13, EndedStays
  <2>2. JobOK(s)'
    BY <1>1, <1>2, <1>3, <1>5, <1>13, <2>1 DEF JobOK, IInv
  <2>3. AwayOK(s)'
    BY <1>2, <1>6, <1>13, AwayKept DEF AllRecorded
  <2>4. QED BY <2>2, <2>3
<1>14. \A c \in Batches \ Mine(s) : Same(c) /\ batch'[c] = batch[c]
  BY <1>2, <1>3, <1>9
<1>15. \A k \in Jobs : job'[k] = job[k]
  BY <1>2
<1>16. QED BY <1>2, <1>5, <1>6, <1>8, <1>9, <1>10, <1>11, <1>12, <1>13, <1>14, <1>15, MineAreMine, SenderMoves

(* The row of a batch goes, and with it neither a claim nor a job.         *)
LEMMA RowGoes ==
  ASSUME IInv, NEW b \in Batches, batch[b] # "none", DeleteBatch(b)
  PROVE  /\ batch' \in [Batches -> BatchStatuses] /\ job' = job
         /\ batch'[b] = "deleted" /\ \A c \in Batches \ {b} : batch'[c] = batch[c]
         /\ RowsStay
<1>1. batch \in [Batches -> BatchStatuses] /\ batch' = [batch EXCEPT ![b] = "deleted"] /\ job' = job
  BY DEF DeleteBatch, IInv, Types
<1>2. batch' \in [Batches -> BatchStatuses]
  BY <1>1 DEF BatchStatuses
<1>3. batch'[b] = "deleted" /\ \A c \in Batches \ {b} : batch'[c] = batch[c]
  BY <1>1
<1>4. RowsStay
  BY <1>3 DEF RowsStay, InTable
<1>5. QED BY <1>1, <1>2, <1>3, <1>4

LEMMA PostFailsStep ==
  ASSUME IInv, NEW s \in Senders, PostFails(s)
  PROVE  IInv'
<1> DEFINE new == [pc |-> AfterFailure(s), batch |-> NoBatch]
<1>0. PICK b : b = sender[s].batch
  OBVIOUS
<1>1. /\ sender[s].pc = "post" /\ sender[s].pc \in AtBatch
      /\ sender' = [sender EXCEPT ![s] = new]
      /\ \/ UNCHANGED <<remote, luck>>
         \/ Fault /\ (remote' = [remote EXCEPT ![b] = "accepted"] \/ UNCHANGED remote)
      /\ DeleteBatch(b) \/ (Fault /\ UNCHANGED <<job, batch>>)
      /\ UNCHANGED <<events, handler, applied, billed>>
  BY <1>0 DEF PostFails, AtBatch
<1>2. /\ b \in Batches /\ b \in Mine(s) /\ batch[b] # "none" /\ billed[b] = 0 /\ remote[b] = "none"
      /\ s \in Jobs => b \in Chunks(s) /\ job[s] # "none"
  BY <1>0, <1>1, HeldBatch
<1>3. /\ batch' \in [Batches -> BatchStatuses] /\ job' = job
      /\ batch'[b] \notin Ended \cup {"none"} /\ \A c \in Batches \ {b} : batch'[c] = batch[c]
      /\ RowsStay
  <2>1. CASE DeleteBatch(b)
    BY <1>2, <2>1, RowGoes DEF Ended
  <2>2. CASE Fault /\ UNCHANGED <<job, batch>>
    <3>1. batch[b] \notin Ended
      BY <1>2 DEF IInv, RowOK, Ended
    <3>2. batch' = batch /\ job' = job
      BY <2>2
    <3>3. QED BY <1>2, <3>1, <3>2 DEF IInv, Types, RowsStay, InTable
  <2>3. QED BY <1>1, <2>1, <2>2
<1>4. new \in SenderStates /\ new.pc \in {"done", "fail"} /\ (s \notin Jobs => new.pc = "done")
  BY DEF SenderStates, SenderPCs, AfterFailure
<1> HIDE DEF new
<1>5. /\ sender' \in [Senders -> SenderStates] /\ sender'[s] = new
      /\ \A t \in Senders \ {s} : sender'[t] = sender[t]
  BY <1>1, <1>4, SenderAt DEF IInv
<1>6. mishaps' \in 0..MaxMishaps /\ harmed' \in BOOLEAN /\ HarmStays
  BY <1>1, FaultTypes DEF IInv, luck
<1>7. /\ remote' \in [Batches -> RemoteStatuses] /\ \A c \in Batches \ {b} : remote'[c] = remote[c]
      /\ remote'[b] = "none" \/ (remote'[b] = "accepted" /\ harmed')
  <2>1. CASE UNCHANGED <<remote, luck>>
    BY <1>2, <2>1 DEF IInv, Types
  <2>2. CASE Fault /\ remote' = [remote EXCEPT ![b] = "accepted"]
    BY <1>2, <2>2 DEF IInv, Types, Fault, RemoteStatuses
  <2>3. CASE Fault /\ UNCHANGED remote
    BY <1>2, <2>3 DEF IInv, Types
  <2>4. QED BY <1>1, <2>1, <2>2, <2>3
<1>8. Types'
  BY <1>1, <1>3, <1>5, <1>6, <1>7 DEF IInv, Types
<1>9. Submitted /\ EndsStay /\ \A c \in Batches \ {b} : Same(c)
  BY <1>1, <1>2, <1>3, <1>7, RowsStaySubmitted DEF EndsStay, Same, Ended
<1>10. SenderOK(s)'
  BY <1>4, <1>5 DEF SenderOK, AtBatch
<1>11. \A c \in Batches : BillOK(c)'
  <2>1. \A c \in Batches \ {b} : AtIt(c) => AtIt(c)'
    BY <1>0, <1>5 DEF AtIt
  <2>2. \A c \in Batches \ {b} : BillOK(c)'
    BY <1>6, <1>9, <2>1, BillsKept
  <2>3. billed'[b] = 0
    BY <1>1, <1>2
  <2>4. BillOK(b)'
    BY <1>7, <2>3 DEF BillOK
  <2>5. QED BY <2>2, <2>4
<1>12. \A c \in Mine(s) : RowOK(c)'
  <2>1. RowOK(b)'
    BY <1>3 DEF RowOK, Ended
  <2>2. \A c \in Mine(s) \ {b} : c \in Batches /\ batch'[c] = batch[c]
    BY <1>3, MineAreMine
  <2>3. \A c \in Mine(s) \ {b} : RowOK(c)'
    BY <1>9, <2>2, RowsKept
  <2>4. QED BY <2>1, <2>3
<1>13. ASSUME s \in Jobs PROVE JobOK(s)' /\ AwayOK(s)'
  <2>1. EndedAtScrub(s) => EndedAtScrub(s)'
    BY <1>9, <1>13, EndedStays
  <2>2. JobOK(s) /\ job[s] # "none" /\ job[s] # "deleted" /\ job'[s] = job[s]
    <3>1. ~EndedAtScrub(s)
      BY <1>2, <1>13 DEF EndedAtScrub, Ended
    <3>2. QED BY <1>1, <1>2, <1>3, <1>13, <3>1 DEF JobOK, IInv
  <2>3. JobOK(s)'
    BY <1>4, <1>5, <2>1, <2>2 DEF JobOK
  <2>4. AwayOK(s)'
    BY <1>2, <1>3, <1>13 DEF AwayOK, AllRecorded, Ended
  <2>5. QED BY <2>3, <2>4
<1>14. \A c \in Batches \ Mine(s) : Same(c) /\ batch'[c] = batch[c]
  BY <1>2, <1>3, <1>9
<1>15. \A k \in Jobs : job'[k] = job[k]
  BY <1>3
<1>16. QED BY <1>1, <1>5, <1>6, <1>8, <1>9, <1>10, <1>11, <1>12, <1>13, <1>14, <1>15, MineAreMine, SenderMoves

(* A job goes with the rows of its chunks.                                 *)
LEMMA JobGoes ==
  ASSUME IInv, NEW j \in Jobs, DeleteJob(j)
  PROVE  /\ job' \in [Jobs -> JobStatuses] /\ batch' \in [Batches -> BatchStatuses]
         /\ \A k \in Jobs \ {j} : job'[k] = job[k]
         /\ job'[j] = IF job[j] = "none" THEN "none" ELSE "deleted"
         /\ \A b \in Batches \ Chunks(j) : batch'[b] = batch[b]
         /\ \A b \in Chunks(j) : batch'[b] = IF batch[b] = "none" THEN "none" ELSE "deleted"
         /\ RowsStay
<1>1. job \in [Jobs -> JobStatuses] /\ batch \in [Batches -> BatchStatuses]
  BY DEF IInv, Types
<1>2. /\ job' \in [Jobs -> JobStatuses]
      /\ \A k \in Jobs \ {j} : job'[k] = job[k]
      /\ job'[j] = IF job[j] = "none" THEN "none" ELSE "deleted"
  BY <1>1 DEF DeleteJob, JobStatuses
<1>3. /\ batch' \in [Batches -> BatchStatuses]
      /\ \A b \in Batches \ Chunks(j) : batch'[b] = batch[b]
      /\ \A b \in Chunks(j) : batch'[b] = IF batch[b] = "none" THEN "none" ELSE "deleted"
  BY <1>1 DEF DeleteJob, BatchStatuses, Chunks
<1>4. RowsStay
  BY <1>3 DEF RowsStay, InTable
<1>5. QED BY <1>2, <1>3, <1>4

LEMMA FailJobStep ==
  ASSUME IInv, NEW j \in Jobs, FailJob(j)
  PROVE  IInv'
<1>1. /\ j \in Senders /\ sender[j].pc = "fail" /\ sender' = [sender EXCEPT ![j].pc = "done"]
      /\ UNCHANGED luck \/ Fault
      /\ DeleteJob(j) \/ UNCHANGED <<job, batch>>
      /\ UNCHANGED <<remote, events, handler, applied, billed>>
  BY DEF FailJob, Senders
<1>2. /\ sender' \in [Senders -> SenderStates] /\ sender'[j].pc = "done"
      /\ \A t \in Senders \ {j} : sender'[t] = sender[t]
  BY <1>1, SenderGoes DEF IInv, SenderPCs
<1>3. mishaps' \in 0..MaxMishaps /\ harmed' \in BOOLEAN /\ HarmStays
  BY <1>1, FaultTypes DEF IInv
<1>4. /\ job' \in [Jobs -> JobStatuses] /\ batch' \in [Batches -> BatchStatuses]
      /\ \A k \in Jobs \ {j} : job'[k] = job[k]
      /\ job'[j] = "deleted" => job[j] # "none"
      /\ \A b \in Batches \ Chunks(j) : batch'[b] = batch[b]
      /\ \A b \in Chunks(j) : batch'[b] \in {batch[b], "deleted"}
      /\ RowsStay
  <2>1. CASE DeleteJob(j)
    BY <2>1, JobGoes, <1>1 DEF IInv, RowOK
  <2>2. CASE UNCHANGED <<job, batch>>
    BY <2>2, <1>1 DEF IInv, Types, JobOK, RowsStay, InTable
  <2>3. QED BY <1>1, <2>1, <2>2
<1>5. Types'
  BY <1>1, <1>2, <1>3, <1>4 DEF IInv, Types
<1>6. Submitted /\ EndsStay /\ \A b \in Batches : Same(b)
  BY <1>1, <1>4, RowsStaySubmitted DEF EndsStay, Same
<1>7. SenderOK(j)'
  BY <1>2 DEF SenderOK, AtBatch
<1>8. \A b \in Batches : RowOK(b)'
  BY <1>4, <1>6, RowsKept
<1>9. \A b \in Batches : BillOK(b)'
  BY <1>1, <1>2, <1>3, <1>6, AtItKept, BillsKept
<1>10. JobOK(j)'
  <2>1. CASE DeleteJob(j)
    BY <2>1, JobGoes, <1>1, <1>2 DEF JobOK, IInv
  <2>2. CASE UNCHANGED <<job, batch>>
    BY <2>2, <1>1, <1>2 DEF JobOK, IInv, EndedAtScrub
  <2>3. QED BY <1>1, <2>1, <2>2
<1>11. AwayOK(j)'
  <2>1. AllRecorded(j)' => AllRecorded(j)
    <3>1. CASE DeleteJob(j)
      BY <3>1, JobGoes DEF AllRecorded
    <3>2. CASE UNCHANGED <<job, batch>>
      BY <3>2 DEF AllRecorded
    <3>3. QED BY <1>1, <3>1, <3>2
  <2>2. QED BY <2>1, <1>1, <1>3, AwayKept
<1>12. QED BY <1>1, <1>2, <1>3, <1>4, <1>5, <1>6, <1>7, <1>8, <1>9, <1>10, <1>11, MineAreMine, SenderMoves

-----------------------------------------------------------------------------
(* Scrub.                                                                  *)

LEMMA ReportStep ==
  ASSUME IInv, NEW b \in Batches, Report(b)
  PROVE  IInv'
<1>1. PICK st \in {"processing"} \cup Ended :
        /\ remote[b] \in {"accepted", "processing"}
        /\ remote' = [remote EXCEPT ![b] = st] /\ events' = events \cup {<<b, st>>}
  BY DEF Report
<1>2. UNCHANGED <<job, batch, sender, handler, applied, billed, luck>>
  BY DEF Report
<1>3. /\ remote' \in [Batches -> RemoteStatuses] /\ remote'[b] = st
      /\ \A c \in Batches \ {b} : remote'[c] = remote[c]
  BY <1>1 DEF IInv, Types, RemoteStatuses, Ended
<1>4. Types'
  BY <1>1, <1>2, <1>3 DEF IInv, Types, luck
<1>5. /\ Submitted /\ EndsStay /\ HarmStays
      /\ \A c \in Batches : Same(c)
  BY <1>1, <1>2, <1>3 DEF Submitted, EndsStay, HarmStays, Same, Ended, luck
<1>6. \A s \in Senders : SenderOK(s)'
  BY <1>2, <1>5, SendersKept, MineAreMine
<1>7. \A h \in Handlers : HandlerOK(h)'
  BY <1>2, <1>5, HandlersKept
<1>8. \A c \in Batches : RowOK(c)'
  BY <1>2, <1>5, RowsKept
<1>9. \A c \in Batches : BillOK(c)'
  BY <1>2, <1>5, BillsKept DEF AtIt
<1>10. \A j \in Jobs : JobOK(j)'
  BY <1>2, <1>5, JobsKept
<1>11. \A j \in Jobs : AwayOK(j)'
  BY <1>2, <1>5, AwayKept DEF AllRecorded
<1>12. \A e \in events' : EventOK(e)'
  <2>1. EventOK(<<b, st>>)'
    BY <1>3 DEF EventOK
  <2>2. \A e \in events : EventOK(e)'
    BY <1>5, EventsKept
  <2>3. QED BY <1>1, <2>1, <2>2
<1>13. QED BY <1>4, <1>6, <1>7, <1>8, <1>9, <1>10, <1>11, <1>12 DEF IInv

LEMMA RepeatStep ==
  ASSUME IInv, NEW b \in Batches, Repeat(b)
  PROVE  IInv'
<1>1. /\ remote[b] \in Ended /\ events' = events \cup {<<b, remote[b]>>}
      /\ Mishap /\ UNCHANGED <<job, batch, remote, sender, handler, applied, billed, harmed>>
  BY DEF Repeat
<1>2. Types'
  BY <1>1, ScrubAssumption DEF IInv, Types, Mishap
<1>3. \A e \in events' : EventOK(e)'
  BY <1>1 DEF IInv, EventOK
<1>4. \A h \in Handlers : HandlerOK(h)'
  BY <1>1 DEF IInv, HandlerOK, EndedAtScrub
<1>5. \A s \in Senders : SenderOK(s)'
  BY <1>1 DEF IInv, SenderOK
<1>6. \A c \in Batches : RowOK(c)' /\ BillOK(c)'
  BY <1>1 DEF IInv, RowOK, BillOK, AtIt
<1>7. \A j \in Jobs : JobOK(j)' /\ AwayOK(j)'
  BY <1>1 DEF IInv, JobOK, EndedAtScrub, AwayOK, AllRecorded, Sees
<1>8. QED BY <1>2, <1>3, <1>4, <1>5, <1>6, <1>7 DEF IInv

LEMMA ReceiveStep ==
  ASSUME IInv, NEW h \in Handlers, NEW e \in events, Receive(h, e)
  PROVE  IInv'
<1> DEFINE new == [Idle EXCEPT !.pc = "save", !.batch = e[1], !.status = e[2]]
<1>1. /\ handler[h].pc = "idle" /\ InTable(e[1])
      /\ handler' = [handler EXCEPT ![h] = new] /\ events' = events \ {e}
      /\ UNCHANGED <<job, batch, remote, sender, applied, billed, luck>>
  BY DEF Receive
<1>2. /\ e[1] \in Batches /\ e[2] \in {"processing"} \cup Ended
      /\ e[2] \in Ended => remote[e[1]] = e[2]
  BY DEF IInv, Types, EventOK
<1>3. /\ new \in HandlerStates
      /\ new.pc = "save" /\ new.batch = e[1] /\ new.status = e[2] /\ new.done = FALSE
  BY <1>2 DEF Idle, HandlerStates, HandlerPCs
<1> HIDE DEF new
<1>4. /\ handler' \in [Handlers -> HandlerStates] /\ handler'[h] = new
      /\ \A g \in Handlers \ {h} : handler'[g] = handler[g]
  BY <1>1, <1>3, HandlerAt DEF IInv
<1>5. Types'
  BY <1>1, <1>4 DEF IInv, Types, luck
<1>6. RowsStay /\ HarmStays /\ EndsStay /\ \A b \in Batches : Same(b)
  BY <1>1 DEF RowsStay, HarmStays, EndsStay, Same, InTable, luck
<1>7. HandlerOK(h)'
  BY <1>1, <1>2, <1>3, <1>4 DEF HandlerOK, InTable, Ended
<1>8. \A b \in Batches : RowOK(b)'
  BY <1>1, <1>6, RowsKept
<1>9. \A j \in Jobs : JobOK(j)'
  BY <1>1, <1>6, JobsKept
<1>10. \A j \in Jobs : AwayOK(j)'
  <2>1. \A j \in Jobs : \A g \in Handlers : Sees(g, j) => Sees(g, j)'
    BY <1>1, <1>4 DEF Sees
  <2>2. QED BY <1>1, <2>1 DEF IInv, AwayOK, AllRecorded, luck
<1>11. \A d \in events' : EventOK(d)'
  BY <1>1, <1>6, EventsKept
<1>12. QED BY <1>1, <1>4, <1>5, <1>6, <1>7, <1>8, <1>9, <1>10, <1>11, HandlerMoves

-----------------------------------------------------------------------------
(* The handlers.                                                           *)

LEMMA HandledBatch ==
  ASSUME IInv, NEW h \in Handlers, handler[h].pc # "idle", NEW b, b = handler[h].batch
  PROVE  /\ b \in Batches /\ batch[b] # "none" /\ RowOK(b) /\ HandlerOK(h)
         /\ b \notin Imports => /\ JobOf[b] \in Jobs /\ b \in Chunks(JobOf[b])
                                /\ job[JobOf[b]] # "none" /\ JobOK(JobOf[b])
         /\ \A j \in Jobs : b \in Chunks(j) => j = JobOf[b] /\ b \notin Imports
<1>1. HandlerOK(h) /\ b \in Batches /\ batch[b] # "none"
  BY DEF IInv, HandlerOK
<1>2. RowOK(b)
  BY <1>1 DEF IInv
<1>3. b \notin Imports => JobOf[b] \in Jobs /\ b \in Chunks(JobOf[b]) /\ JobOK(JobOf[b])
  BY <1>1, JobOfChunk DEF IInv
<1>4. b \notin Imports => job[JobOf[b]] # "none"
  BY <1>1, <1>3 DEF JobOK
<1>5. QED BY <1>1, <1>2, <1>3, <1>4, JobOfChunk

LEMMA AwayMoved ==
  ASSUME IInv, HarmStays, NEW h \in Handlers, \A g \in Handlers \ {h} : handler'[g] = handler[g],
         NEW j \in Jobs, AllRecorded(j)' => AllRecorded(j), Sees(h, j) => Sees(h, j)'
  PROVE  AwayOK(j)'
<1>1. \A g \in Handlers : Sees(g, j) => Sees(g, j)'
  BY DEF Sees
<1>2. QED BY <1>1 DEF IInv, AwayOK, HarmStays

LEMMA SaveProgressStep ==
  ASSUME IInv, NEW h \in Handlers, SaveProgress(h)
  PROVE  IInv'
<1>0. PICK b, st : b = handler[h].batch /\ st = handler[h].status
  OBVIOUS
<1>1. /\ handler[h].pc = "save" /\ handler[h].pc # "idle"
      /\ batch' = batch \/ (batch' = [batch EXCEPT ![b] = st] /\ InTable(b))
      /\ UNCHANGED luck \/ Fault
      /\ UNCHANGED <<job, remote, events, sender, applied, billed>>
  BY <1>0 DEF SaveProgress, IInv, Types
<1>2. /\ b \in Batches /\ batch[b] # "none" /\ RowOK(b) /\ HandlerOK(h)
      /\ b \notin Imports => b \in Chunks(JobOf[b]) /\ job[JobOf[b]] # "none"
      /\ \A j \in Jobs : b \in Chunks(j) => b \notin Imports
  BY <1>0, <1>1, HandledBatch
<1>3. st \in {"processing"} \cup Ended /\ (st \in Ended => remote[b] = st)
  BY <1>0, <1>1, <1>2 DEF HandlerOK, IInv, Types, HandlerStates
<1>4. PICK new \in HandlerStates :
        /\ handler' = [handler EXCEPT ![h] = new]
        /\ \/ new.pc = "idle" /\ b \in Imports
           \/ /\ new.batch = b /\ new.status = st
              /\ \/ b \notin Imports /\ new.pc = "count"
                 \/ b \in Imports /\ st = "completed" /\ new.pc = "reconcile"
                 \/ b \in Imports /\ st = "failed" /\ new.pc = "drop"
  <2>1. CASE b \notin Imports
    <3>1. handler' = [handler EXCEPT ![h] = [handler[h] EXCEPT !.pc = "count"]]
      BY <1>0, <2>1 DEF SaveProgress
    <3>2. "count" \in HandlerPCs
      BY DEF HandlerPCs
    <3>3. /\ [handler[h] EXCEPT !.pc = "count"] \in HandlerStates
          /\ [handler[h] EXCEPT !.pc = "count"].pc = "count"
          /\ [handler[h] EXCEPT !.pc = "count"].batch = b
          /\ [handler[h] EXCEPT !.pc = "count"].status = st
      BY <1>0, <3>2, HandlerGoes DEF IInv
    <3>4. QED BY <2>1, <3>1, <3>3
  <2>2. CASE b \in Imports /\ st = "completed"
    <3>1. handler' = [handler EXCEPT ![h] = [handler[h] EXCEPT !.pc = "reconcile"]]
      BY <1>0, <2>2 DEF SaveProgress
    <3>2. "reconcile" \in HandlerPCs
      BY DEF HandlerPCs
    <3>3. /\ [handler[h] EXCEPT !.pc = "reconcile"] \in HandlerStates
          /\ [handler[h] EXCEPT !.pc = "reconcile"].pc = "reconcile"
          /\ [handler[h] EXCEPT !.pc = "reconcile"].batch = b
          /\ [handler[h] EXCEPT !.pc = "reconcile"].status = st
      BY <1>0, <3>2, HandlerGoes DEF IInv
    <3>4. QED BY <2>2, <3>1, <3>3
  <2>3. CASE b \in Imports /\ st = "failed"
    <3>1. handler' = [handler EXCEPT ![h] = [handler[h] EXCEPT !.pc = "drop"]]
      BY <1>0, <2>3 DEF SaveProgress
    <3>2. "drop" \in HandlerPCs
      BY DEF HandlerPCs
    <3>3. /\ [handler[h] EXCEPT !.pc = "drop"] \in HandlerStates
          /\ [handler[h] EXCEPT !.pc = "drop"].pc = "drop"
          /\ [handler[h] EXCEPT !.pc = "drop"].batch = b
          /\ [handler[h] EXCEPT !.pc = "drop"].status = st
      BY <1>0, <3>2, HandlerGoes DEF IInv
    <3>4. QED BY <2>3, <3>1, <3>3
  <2>4. CASE b \in Imports /\ st \notin Ended
    <3>1. handler' = [handler EXCEPT ![h] = Idle]
      BY <1>0, <2>4 DEF SaveProgress, Ended
    <3>2. Idle \in HandlerStates /\ Idle.pc = "idle"
      BY DEF Idle, HandlerStates, HandlerPCs
    <3>3. QED BY <2>4, <3>1, <3>2
  <2>5. QED BY <1>3, <2>1, <2>2, <2>3, <2>4 DEF Ended
<1>5. /\ handler' \in [Handlers -> HandlerStates] /\ handler'[h] = new
      /\ \A g \in Handlers \ {h} : handler'[g] = handler[g]
  BY <1>4, HandlerAt DEF IInv
<1>6. mishaps' \in 0..MaxMishaps /\ harmed' \in BOOLEAN /\ HarmStays
  BY <1>1, FaultTypes DEF IInv
<1>7. /\ batch' \in [Batches -> BatchStatuses]
      /\ \A c \in Batches \ {b} : batch'[c] = batch[c]
      /\ batch'[b] = batch[b] \/ (batch'[b] = st /\ InTable(b))
  BY <1>1, <1>2, <1>3 DEF IInv, Types, BatchStatuses, Ended
<1>8. Types'
  BY <1>1, <1>5, <1>6, <1>7 DEF IInv, Types
<1>9. RowsStay /\ EndsStay /\ \A c \in Batches : Same(c)
  BY <1>1, <1>3, <1>7 DEF RowsStay, EndsStay, Same, InTable, Ended
<1>10. \A c \in Batches : RowOK(c)'
  <2>1. \A c \in Batches \ {b} : RowOK(c)'
    BY <1>7, <1>9, RowsKept
  <2>2. RowOK(b)'
    BY <1>1, <1>2, <1>3, <1>7 DEF RowOK, Ended
  <2>3. QED BY <2>1, <2>2
<1>11. \A j \in Jobs : JobOK(j)'
  <2>1. \A j \in Jobs : \A c \in Chunks(j) : ~InTable(c) => batch'[c] = batch[c]
    BY <1>9 DEF RowsStay, Chunks
  <2>2. QED BY <1>1, <1>9, <2>1, JobsKept
<1>12. \A e \in events' : EventOK(e)'
  BY <1>1, <1>9, EventsKept
<1>13. \A j \in Jobs : AwayOK(j)'
  <2> SUFFICES ASSUME NEW j \in Jobs PROVE AwayOK(j)'
    OBVIOUS
  <2>1. CASE b \in Chunks(j)
    <3>1. Sees(h, j)'
      BY <1>2, <1>4, <1>5, <2>1 DEF Sees
    <3>2. QED BY <3>1 DEF AwayOK
  <2>2. CASE b \notin Chunks(j)
    <3>1. \A c \in Chunks(j) : batch'[c] = batch[c]
      BY <1>7, <2>2 DEF Chunks
    <3>2. AllRecorded(j)' => AllRecorded(j)
      BY <1>1, <3>1 DEF AllRecorded
    <3>3. ~Sees(h, j)
      BY <1>0, <2>2 DEF Sees
    <3>4. QED BY <1>5, <1>6, <3>2, <3>3, AwayMoved
  <2>3. QED BY <2>1, <2>2
<1>14. HandlerOK(h)'
  <2>1. batch'[b] # "none" /\ remote'[b] = remote[b] /\ st # "pending"
    BY <1>1, <1>2, <1>3, <1>7 DEF Ended
  <2>2. CASE new.pc = "idle"
    BY <1>5, <2>2 DEF HandlerOK
  <2>3. CASE new.pc # "idle"
    BY <1>2, <1>3, <1>4, <1>5, <2>1, <2>3 DEF HandlerOK, Ended
  <2>4. QED BY <2>2, <2>3
<1>15. QED BY <1>1, <1>5, <1>6, <1>8, <1>9, <1>10, <1>11, <1>12, <1>13, <1>14, HandlerMoves

LEMMA DropFailedStep ==
  ASSUME IInv, NEW h \in Handlers, DropFailed(h)
  PROVE  IInv'
<1>0. PICK b : b = handler[h].batch
  OBVIOUS
<1>1. /\ handler[h].pc = "drop" /\ handler[h].pc # "idle"
      /\ DeleteBatch(b) \/ UNCHANGED <<job, batch>>
      /\ UNCHANGED luck \/ Fault
      /\ handler' = [handler EXCEPT ![h] = Idle]
      /\ UNCHANGED <<remote, events, sender, applied, billed>>
  BY <1>0 DEF DropFailed
<1>2. b \in Batches /\ batch[b] # "none" /\ \A j \in Jobs : b \notin Chunks(j)
  BY <1>0, <1>1, HandledBatch DEF HandlerOK
<1>3. /\ batch' \in [Batches -> BatchStatuses] /\ job' = job
      /\ \A c \in Batches \ {b} : batch'[c] = batch[c]
      /\ batch'[b] \in {batch[b], "deleted"} /\ RowsStay
  <2>1. CASE DeleteBatch(b)
    BY <1>2, <2>1, RowGoes
  <2>2. CASE UNCHANGED <<job, batch>>
    BY <2>2 DEF IInv, Types, RowsStay, InTable
  <2>3. QED BY <1>1, <2>1, <2>2
<1>4. /\ handler' \in [Handlers -> HandlerStates] /\ handler'[h].pc = "idle"
      /\ \A g \in Handlers \ {h} : handler'[g] = handler[g]
  <2>1. Idle \in HandlerStates /\ Idle.pc = "idle"
    BY DEF Idle, HandlerStates, HandlerPCs
  <2>2. QED BY <1>1, <2>1, HandlerAt DEF IInv
<1>5. mishaps' \in 0..MaxMishaps /\ harmed' \in BOOLEAN /\ HarmStays
  BY <1>1, FaultTypes DEF IInv
<1>6. Types'
  BY <1>1, <1>3, <1>4, <1>5 DEF IInv, Types
<1>7. EndsStay /\ \A c \in Batches : Same(c) /\ batch'[c] \in {batch[c], "deleted"}
  BY <1>1, <1>3 DEF EndsStay, Same
<1>8. \A c \in Batches : RowOK(c)'
  BY <1>7, RowsKept
<1>9. \A j \in Jobs : \A c \in Chunks(j) : batch'[c] = batch[c]
  BY <1>2, <1>3 DEF Chunks
<1>10. \A j \in Jobs : JobOK(j)'
  BY <1>1, <1>3, <1>7, <1>9, JobsKept
<1>11. \A j \in Jobs : AwayOK(j)'
  <2>1. \A j \in Jobs : AllRecorded(j)' => AllRecorded(j)
    BY <1>3, <1>9 DEF AllRecorded
  <2>2. \A j \in Jobs : ~Sees(h, j)
    BY <1>0, <1>2 DEF Sees
  <2>3. QED BY <1>4, <1>5, <2>1, <2>2, AwayMoved
<1>12. \A e \in events' : EventOK(e)'
  BY <1>1, <1>7, EventsKept
<1>13. HandlerOK(h)'
  BY <1>4 DEF HandlerOK
<1>14. QED BY <1>1, <1>3, <1>4, <1>5, <1>6, <1>8, <1>10, <1>11, <1>12, <1>13, HandlerMoves

LEMMA CountJobStep ==
  ASSUME IInv, NEW h \in Handlers, CountJob(h)
  PROVE  IInv'
<1>0. PICK b, j : b = handler[h].batch /\ j = JobOf[b]
  OBVIOUS
<1>1. handler[h].pc = "count" /\ UNCHANGED <<job, batch, remote, events, sender, applied, billed>>
  BY DEF CountJob
<1>2. /\ b \in Batches /\ batch[b] # "none" /\ HandlerOK(h) /\ b \notin Imports
      /\ j \in Jobs /\ b \in Chunks(j) /\ \A k \in Jobs : b \in Chunks(k) => k = j
  BY <1>0, <1>1, HandledBatch DEF HandlerOK
<1>3. AggregateBatches(j) <=> \A c \in Chunks(j) : batch[c] \in Ended
  BY <1>2, AggregateIsAll
<1>4. PICK new \in HandlerStates :
        /\ handler' = [handler EXCEPT ![h] = new]
        /\ \/ /\ new.pc = "write" /\ new.batch = b /\ new.status = handler[h].status
              /\ new.done = AggregateBatches(j)
           \/ new.pc = "idle" /\ (job[j] = "deleted" \/ harmed')
        /\ UNCHANGED luck \/ Fault
  <2>1. CASE Fault /\ handler' = [handler EXCEPT ![h] = Idle]
    BY <2>1 DEF Idle, HandlerStates, HandlerPCs, Fault
  <2>2. CASE job[j] = "deleted" /\ UNCHANGED luck /\ handler' = [handler EXCEPT ![h] = Idle]
    BY <2>2 DEF Idle, HandlerStates, HandlerPCs
  <2>3. CASE /\ UNCHANGED luck
             /\ handler' = [handler EXCEPT ![h].pc = "write", ![h].done = AggregateBatches(j)]
    <3> DEFINE new == [handler[h] EXCEPT !.pc = "write", !.done = AggregateBatches(j)]
    <3>1. handler' = [handler EXCEPT ![h] = new]
      BY <2>3 DEF IInv, Types
    <3>2. AggregateBatches(j) \in BOOLEAN
      BY DEF AggregateBatches
    <3>3. /\ new \in HandlerStates /\ new.pc = "write" /\ new.batch = b
          /\ new.status = handler[h].status /\ new.done = AggregateBatches(j)
      BY <1>0, <3>2 DEF IInv, Types, HandlerStates, HandlerPCs
    <3>4. QED BY <2>3, <3>1, <3>3
  <2>4. QED BY <1>0, <2>1, <2>2, <2>3 DEF CountJob
<1>5. /\ handler' \in [Handlers -> HandlerStates] /\ handler'[h] = new
      /\ \A g \in Handlers \ {h} : handler'[g] = handler[g]
  BY <1>4, HandlerAt DEF IInv
<1>6. mishaps' \in 0..MaxMishaps /\ harmed' \in BOOLEAN /\ HarmStays
  BY <1>4, FaultTypes DEF IInv
<1>7. Types'
  BY <1>1, <1>5, <1>6 DEF IInv, Types
<1>8. RowsStay /\ EndsStay /\ \A c \in Batches : Same(c)
  BY <1>1 DEF RowsStay, EndsStay, Same, InTable
<1>9. \A c \in Batches : RowOK(c)'
  BY <1>1, <1>8, RowsKept
<1>10. \A k \in Jobs : JobOK(k)'
  BY <1>1, <1>8, JobsKept
<1>11. \A e \in events' : EventOK(e)'
  BY <1>1, <1>8, EventsKept
<1>12. \A k \in Jobs : AwayOK(k)'
  <2>1. \A k \in Jobs : AllRecorded(k)' <=> AllRecorded(k)
    BY <1>1 DEF AllRecorded
  <2>2. \A k \in Jobs \ {j} : ~Sees(h, k)
    BY <1>0, <1>2 DEF Sees
  <2>3. \A k \in Jobs \ {j} : AwayOK(k)'
    BY <1>5, <1>6, <2>1, <2>2, AwayMoved
  <2>4. AllRecorded(j) /\ ~harmed' => new.pc = "write" /\ new.done
    BY <1>3, <1>4 DEF AllRecorded
  <2>5. new.pc = "write" /\ new.done => Sees(h, j)'
    BY <1>2, <1>4, <1>5 DEF Sees
  <2>6. AwayOK(j)'
    BY <1>2, <2>1, <2>4, <2>5, Zenon DEF AwayOK
  <2>7. QED BY <2>3, <2>6
<1>13. HandlerOK(h)'
  <2>1. CASE new.pc = "idle"
    BY <1>5, <2>1 DEF HandlerOK
  <2>2. CASE new.pc # "idle"
    <3>1. /\ new.pc = "write" /\ new.batch = b /\ new.status = handler[h].status
          /\ new.done => AggregateBatches(j)
      BY <1>4, <2>2
    <3>2. new.done => EndedAtScrub(j)'
      BY <1>1, <1>3, <3>1 DEF IInv, RowOK, EndedAtScrub, Chunks
    <3>3. /\ batch'[b] # "none" /\ new.status # "pending"
          /\ new.status \in Ended => remote'[b] = new.status
      BY <1>0, <1>1, <1>2, <3>1 DEF HandlerOK
    <3>4. QED BY <1>0, <1>2, <1>5, <3>1, <3>2, <3>3 DEF HandlerOK
  <2>3. QED BY <2>1, <2>2
<1>14. QED BY <1>1, <1>5, <1>6, <1>7, <1>8, <1>9, <1>10, <1>11, <1>12, <1>13, HandlerMoves

LEMMA WriteJobStep ==
  ASSUME IInv, NEW h \in Handlers, WriteJob(h)
  PROVE  IInv'
<1>0. PICK b, j : b = handler[h].batch /\ j = JobOf[b]
  OBVIOUS
<1> DEFINE st == IF handler[h].done THEN "completed" ELSE "processing"
<1>1. /\ handler[h].pc = "write" /\ UNCHANGED <<batch, remote, events, sender, applied, billed>>
      /\ \/ job' = [job EXCEPT ![j] = IF @ = "deleted" THEN @ ELSE st] /\ UNCHANGED luck
         \/ Fault /\ UNCHANGED job
  BY <1>0 DEF WriteJob
<1>2. /\ b \in Batches /\ batch[b] # "none" /\ HandlerOK(h) /\ b \notin Imports
      /\ j \in Jobs /\ b \in Chunks(j) /\ job[j] # "none" /\ JobOK(j)
      /\ \A k \in Jobs : b \in Chunks(k) => k = j
  BY <1>0, <1>1, HandledBatch DEF HandlerOK
<1>3. handler[h].done => EndedAtScrub(j)
  BY <1>0, <1>1, <1>2 DEF HandlerOK
<1>4. PICK new \in HandlerStates :
        /\ handler' = [handler EXCEPT ![h] = new]
        /\ \/ /\ handler[h].done /\ new.pc = "reconcile"
              /\ new.batch = b /\ new.status = handler[h].status
           \/ ~handler[h].done /\ new.pc = "idle"
  <2>1. CASE handler[h].done
    <3>1. handler' = [handler EXCEPT ![h] = [handler[h] EXCEPT !.pc = "reconcile"]]
      BY <2>1 DEF WriteJob
    <3>2. "reconcile" \in HandlerPCs
      BY DEF HandlerPCs
    <3>3. QED BY <1>0, <2>1, <3>1, <3>2, HandlerGoes DEF IInv
  <2>2. CASE ~handler[h].done
    <3>1. handler' = [handler EXCEPT ![h] = Idle]
      BY <2>2 DEF WriteJob
    <3>2. Idle \in HandlerStates /\ Idle.pc = "idle"
      BY DEF Idle, HandlerStates, HandlerPCs
    <3>3. QED BY <2>2, <3>1, <3>2
  <2>3. QED BY <2>1, <2>2
<1>5. /\ handler' \in [Handlers -> HandlerStates] /\ handler'[h] = new
      /\ \A g \in Handlers \ {h} : handler'[g] = handler[g]
  BY <1>4, HandlerAt DEF IInv
<1>6. mishaps' \in 0..MaxMishaps /\ harmed' \in BOOLEAN /\ HarmStays
  BY <1>1, FaultTypes DEF IInv
<1>7. /\ job' \in [Jobs -> JobStatuses] /\ \A k \in Jobs \ {j} : job'[k] = job[k]
      /\ \/ job'[j] = job[j]
         \/ job[j] # "deleted" /\ job'[j] = "completed" /\ handler[h].done
         \/ job[j] # "deleted" /\ job'[j] = "processing"
  BY <1>1, <1>2 DEF IInv, Types, JobStatuses
<1>8. Types'
  BY <1>1, <1>5, <1>6, <1>7 DEF IInv, Types
<1>9. RowsStay /\ EndsStay /\ \A c \in Batches : Same(c)
  BY <1>1 DEF RowsStay, EndsStay, Same, InTable
<1>10. \A c \in Batches : RowOK(c)'
  BY <1>1, <1>9, RowsKept
<1>11. \A k \in Jobs : JobOK(k)'
  <2>1. \A k \in Jobs \ {j} : JobOK(k)'
    BY <1>1, <1>7, <1>9, JobsKept
  <2>2. EndedAtScrub(j)' <=> EndedAtScrub(j)
    BY <1>1 DEF EndedAtScrub
  <2>3. JobOK(j)'
    BY <1>1, <1>2, <1>3, <1>7, <2>2 DEF JobOK
  <2>4. QED BY <2>1, <2>3
<1>12. \A e \in events' : EventOK(e)'
  BY <1>1, <1>9, EventsKept
<1>13. \A k \in Jobs : AwayOK(k)'
  <2> SUFFICES ASSUME NEW k \in Jobs PROVE AwayOK(k)'
    OBVIOUS
  <2>1. AllRecorded(k)' => AllRecorded(k)
    BY <1>1, <1>2, <1>7 DEF AllRecorded, IInv, Types, JobStatuses
  <2>2. Sees(h, k) => Sees(h, k)'
    BY <1>0, <1>1, <1>4, <1>5 DEF Sees
  <2>3. QED BY <1>5, <1>6, <2>1, <2>2, AwayMoved
<1>14. HandlerOK(h)'
  <2>1. CASE new.pc = "idle"
    BY <1>5, <2>1 DEF HandlerOK
  <2>2. CASE new.pc # "idle"
    <3>1. /\ new.pc = "reconcile" /\ new.batch = b /\ new.status = handler[h].status
          /\ EndedAtScrub(j)
      BY <1>3, <1>4, <2>2
    <3>2. EndedAtScrub(j)'
      BY <1>1, <3>1 DEF EndedAtScrub
    <3>3. /\ batch'[b] # "none" /\ new.status # "pending"
          /\ new.status \in Ended => remote'[b] = new.status
      BY <1>0, <1>1, <1>2, <3>1 DEF HandlerOK
    <3>4. QED BY <1>0, <1>2, <1>5, <3>1, <3>2, <3>3 DEF HandlerOK
  <2>3. QED BY <2>1, <2>2
<1>15. QED BY <1>1, <1>5, <1>6, <1>8, <1>9, <1>10, <1>11, <1>12, <1>13, <1>14, HandlerMoves

LEMMA ReconcileStep ==
  ASSUME IInv, NEW h \in Handlers, Reconcile(h)
  PROVE  IInv'
<1>0. PICK b : b = handler[h].batch
  OBVIOUS
<1>1. /\ handler[h].pc = "reconcile"
      /\ handler' = [handler EXCEPT ![h] = [handler[h] EXCEPT !.pc = "remove"]]
      /\ UNCHANGED luck \/ Fault
      /\ UNCHANGED <<job, batch, remote, events, sender, billed>>
  BY DEF Reconcile
<1>2. b \in Batches /\ batch[b] # "none" /\ HandlerOK(h)
  BY <1>0, <1>1, HandledBatch
<1>3. applied' \subseteq Batches
  <2>1. Completed(b) \subseteq Batches
    BY <1>2 DEF Completed, Chunks
  <2>2. QED BY <1>0, <2>1 DEF Reconcile, IInv, Types
<1>4. /\ handler' \in [Handlers -> HandlerStates]
      /\ handler'[h].pc = "remove" /\ handler'[h].batch = b /\ handler'[h].status = handler[h].status
      /\ \A g \in Handlers \ {h} : handler'[g] = handler[g]
  <2>1. "remove" \in HandlerPCs
    BY DEF HandlerPCs
  <2>2. PICK new \in HandlerStates :
          /\ handler' = [handler EXCEPT ![h] = new]
          /\ new.pc = "remove" /\ new.batch = b /\ new.status = handler[h].status
    BY <1>0, <1>1, <2>1, HandlerGoes DEF IInv
  <2>3. QED BY <2>2, HandlerAt DEF IInv
<1>5. mishaps' \in 0..MaxMishaps /\ harmed' \in BOOLEAN /\ HarmStays
  BY <1>1, FaultTypes DEF IInv
<1>6. Types'
  BY <1>1, <1>3, <1>4, <1>5 DEF IInv, Types
<1>7. RowsStay /\ EndsStay /\ \A c \in Batches : Same(c)
  BY <1>1 DEF RowsStay, EndsStay, Same, InTable
<1>8. \A c \in Batches : RowOK(c)'
  BY <1>1, <1>7, RowsKept
<1>9. \A k \in Jobs : JobOK(k)'
  BY <1>1, <1>7, JobsKept
<1>10. \A e \in events' : EventOK(e)'
  BY <1>1, <1>7, EventsKept
<1>11. \A k \in Jobs : AwayOK(k)'
  <2>1. \A k \in Jobs : AllRecorded(k)' <=> AllRecorded(k)
    BY <1>1 DEF AllRecorded
  <2>2. \A k \in Jobs : Sees(h, k) => Sees(h, k)'
    BY <1>0, <1>4 DEF Sees
  <2>3. QED BY <1>4, <1>5, <2>1, <2>2, AwayMoved
<1>12. HandlerOK(h)'
  BY <1>0, <1>1, <1>2, <1>4 DEF HandlerOK, EndedAtScrub
<1>13. QED BY <1>1, <1>4, <1>5, <1>6, <1>7, <1>8, <1>9, <1>10, <1>11, <1>12, HandlerMoves

LEMMA RemoveReconciledStep ==
  ASSUME IInv, NEW h \in Handlers, RemoveReconciled(h)
  PROVE  IInv'
<1>0. PICK b : b = handler[h].batch
  OBVIOUS
<1> DEFINE whole == IF b \in Imports THEN {b} ELSE Chunks(JobOf[b])
<1>1. /\ handler[h].pc = "remove" /\ handler' = [handler EXCEPT ![h] = Idle]
      /\ UNCHANGED luck \/ Fault
      /\ UNCHANGED <<remote, events, sender, applied, billed>>
      /\ \/ b \in Imports /\ DeleteBatch(b)
         \/ b \notin Imports /\ DeleteJob(JobOf[b])
         \/ Fault /\ UNCHANGED <<job, batch>>
  BY <1>0 DEF RemoveReconciled
<1>2. /\ b \in Batches /\ batch[b] # "none" /\ HandlerOK(h)
      /\ b \notin Imports => /\ JobOf[b] \in Jobs /\ b \in Chunks(JobOf[b]) /\ job[JobOf[b]] # "none"
                             /\ JobOK(JobOf[b]) /\ EndedAtScrub(JobOf[b])
      /\ \A k \in Jobs : b \in Chunks(k) => k = JobOf[b] /\ b \notin Imports
  BY <1>0, <1>1, HandledBatch DEF HandlerOK
<1>3. /\ handler' \in [Handlers -> HandlerStates] /\ handler'[h].pc = "idle"
      /\ \A g \in Handlers \ {h} : handler'[g] = handler[g]
  <2>1. Idle \in HandlerStates /\ Idle.pc = "idle"
    BY DEF Idle, HandlerStates, HandlerPCs
  <2>2. QED BY <1>1, <2>1, HandlerAt DEF IInv
<1>4. mishaps' \in 0..MaxMishaps /\ harmed' \in BOOLEAN /\ HarmStays
  BY <1>1, FaultTypes DEF IInv
<1>5. EndsStay /\ \A c \in Batches : Same(c)
  BY <1>1 DEF EndsStay, Same
<1>6. CASE b \in Imports /\ DeleteBatch(b)
  <2>1. /\ batch' \in [Batches -> BatchStatuses] /\ job' = job
        /\ batch'[b] = "deleted" /\ \A c \in Batches \ {b} : batch'[c] = batch[c]
        /\ RowsStay
    BY <1>2, <1>6, RowGoes
  <2>2. Types'
    BY <1>1, <1>3, <1>4, <2>1 DEF IInv, Types
  <2>3. \A c \in Batches : RowOK(c)'
    BY <1>5, <2>1, RowsKept
  <2>4. \A k \in Jobs : \A c \in Chunks(k) : batch'[c] = batch[c]
    BY <1>2, <1>6, <2>1 DEF Chunks
  <2>5. \A k \in Jobs : JobOK(k)'
    BY <1>1, <1>5, <2>1, <2>4, JobsKept
  <2>6. \A k \in Jobs : AllRecorded(k)' => AllRecorded(k)
    BY <2>1, <2>4 DEF AllRecorded
  <2>7. \A k \in Jobs : ~Sees(h, k)
    BY <1>0, <1>2, <1>6 DEF Sees
  <2>8. \A k \in Jobs : AwayOK(k)'
    BY <1>3, <1>4, <2>6, <2>7, AwayMoved
  <2>9. /\ \A e \in events' : EventOK(e)'
        /\ HandlerOK(h)'
    BY <1>1, <1>3, <1>5, EventsKept DEF HandlerOK
  <2>10. QED BY <1>1, <1>3, <1>4, <2>1, <2>2, <2>3, <2>5, <2>8, <2>9, HandlerMoves
<1>7. CASE b \notin Imports /\ DeleteJob(JobOf[b])
  <2>0. PICK j \in Jobs : j = JobOf[b]
    BY <1>2, <1>7
  <2>1. /\ job' \in [Jobs -> JobStatuses] /\ batch' \in [Batches -> BatchStatuses]
        /\ \A k \in Jobs \ {j} : job'[k] = job[k]
        /\ job'[j] = "deleted"
        /\ \A c \in Batches \ Chunks(j) : batch'[c] = batch[c]
        /\ \A c \in Chunks(j) : batch'[c] = IF batch[c] = "none" THEN "none" ELSE "deleted"
        /\ RowsStay
    BY <1>2, <1>7, <2>0, JobGoes
  <2>2. Types'
    BY <1>1, <1>3, <1>4, <2>1 DEF IInv, Types
  <2>3. \A c \in Batches : RowOK(c)'
    <3>1. \A c \in Batches : batch'[c] \in {batch[c], "deleted"}
      BY <2>1
    <3>2. QED BY <1>5, <3>1, RowsKept
  <2>4. \A k \in Jobs \ {j} : \A c \in Chunks(k) : batch'[c] = batch[c]
    BY <2>1 DEF Chunks
  <2>5. \A k \in Jobs : JobOK(k)'
    <3>1. \A k \in Jobs \ {j} : JobOK(k)'
      BY <1>1, <1>5, <2>1, <2>4, JobsKept
    <3>2. EndedAtScrub(j)'
      BY <1>1, <1>2, <1>7, <2>0 DEF EndedAtScrub
    <3>3. JobOK(j)'
      BY <1>1, <1>2, <1>7, <2>0, <2>1, <3>2 DEF JobOK
    <3>4. QED BY <3>1, <3>3
  <2>6. \A k \in Jobs \ {j} : AllRecorded(k)' => AllRecorded(k)
    BY <2>1, <2>4 DEF AllRecorded
  <2>7. \A k \in Jobs \ {j} : ~Sees(h, k)
    BY <1>0, <1>2, <2>0 DEF Sees
  <2>8. \A k \in Jobs \ {j} : AwayOK(k)'
    BY <1>3, <1>4, <2>6, <2>7, AwayMoved
  <2>9. AwayOK(j)'
    BY <2>1 DEF AwayOK, AllRecorded
  <2>10. /\ \A e \in events' : EventOK(e)'
         /\ HandlerOK(h)'
    BY <1>1, <1>3, <1>5, EventsKept DEF HandlerOK
  <2>11. QED BY <1>1, <1>3, <1>4, <2>1, <2>2, <2>3, <2>5, <2>8, <2>9, <2>10, HandlerMoves
<1>8. CASE Fault /\ UNCHANGED <<job, batch>>
  <2>1. RowsStay /\ harmed'
    BY <1>8 DEF RowsStay, InTable, Fault
  <2>2. Types'
    BY <1>1, <1>3, <1>4, <1>8 DEF IInv, Types
  <2>3. \A c \in Batches : RowOK(c)'
    BY <1>5, <1>8, RowsKept
  <2>4. \A k \in Jobs : JobOK(k)'
    BY <1>1, <1>5, <1>8, JobsKept
  <2>5. \A k \in Jobs : AwayOK(k)'
    BY <2>1, Zenon DEF AwayOK
  <2>6. /\ \A e \in events' : EventOK(e)'
        /\ HandlerOK(h)'
    BY <1>1, <1>3, <1>5, EventsKept DEF HandlerOK
  <2>7. QED BY <1>1, <1>3, <1>4, <2>1, <2>2, <2>3, <2>4, <2>5, <2>6, HandlerMoves
<1>9. QED BY <1>1, <1>6, <1>7, <1>8

LEMMA CrashStep ==
  ASSUME IInv, Crash
  PROVE  IInv'
<1>1. Fault /\ UNCHANGED <<job, batch, remote, applied, billed>>
  BY DEF Crash
<1>2. mishaps' \in 0..MaxMishaps /\ harmed' \in BOOLEAN /\ harmed'
  <2>1. mishaps' \in 0..MaxMishaps /\ harmed' \in BOOLEAN
    BY <1>1, FaultTypes DEF IInv
  <2>2. harmed'
    BY <1>1 DEF Fault
  <2>3. QED BY <2>1, <2>2
<1>3. /\ sender' \in [Senders -> SenderStates]
      /\ \A s \in Senders : IF sender[s].pc = "idle" THEN sender'[s] = sender[s]
                                                     ELSE sender'[s].pc = "done"
  BY DEF Crash, IInv, Types, SenderStates, SenderPCs
<1>4. handler' \in [Handlers -> HandlerStates] /\ \A h \in Handlers : handler'[h].pc = "idle"
  BY DEF Crash, Idle, HandlerStates, HandlerPCs
<1>5. events' \subseteq Batches \X ({"processing"} \cup Ended) /\ \A e \in events' : EventOK(e)'
  <2>1. \A h \in Unanswered : /\ <<handler[h].batch, handler[h].status>> \in Batches \X ({"processing"} \cup Ended)
                              /\ EventOK(<<handler[h].batch, handler[h].status>>)
    <3> SUFFICES ASSUME NEW h \in Unanswered
                 PROVE  /\ handler[h].batch \in Batches /\ handler[h].status \in {"processing"} \cup Ended
                        /\ handler[h].status \in Ended => remote[handler[h].batch] = handler[h].status
      BY DEF EventOK
    <3>1. HandlerOK(h) /\ handler[h] \in HandlerStates /\ handler[h].pc # "idle"
      BY DEF Unanswered, IInv, Types
    <3>2. QED BY <3>1 DEF HandlerOK, HandlerStates
  <2>2. \A e \in events : e \in Batches \X ({"processing"} \cup Ended) /\ EventOK(e)
    BY DEF IInv, Types
  <2>3. events' = events \cup {<<handler[h].batch, handler[h].status>> : h \in Unanswered}
    BY DEF Crash
  <2>4. \A e \in events' : e \in Batches \X ({"processing"} \cup Ended) /\ EventOK(e)
    BY <2>1, <2>2, <2>3
  <2>5. QED BY <1>1, <2>4 DEF EventOK
<1>6. Types'
  BY <1>1, <1>2, <1>3, <1>4, <1>5 DEF IInv, Types
<1>7. \A b \in Batches : RowOK(b)' /\ BillOK(b)'
  BY <1>1, <1>2 DEF IInv, RowOK, BillOK
<1>8. \A j \in Jobs : JobOK(j)'
  BY <1>1, <1>3 DEF IInv, JobOK, EndedAtScrub, Senders
<1>9. \A j \in Jobs : AwayOK(j)'
  BY <1>2, Zenon DEF AwayOK
<1>10. \A s \in Senders : SenderOK(s)'
  BY <1>3 DEF SenderOK, AtBatch
<1>11. \A h \in Handlers : HandlerOK(h)'
  BY <1>4 DEF HandlerOK
<1>12. QED BY <1>5, <1>6, <1>7, <1>8, <1>9, <1>10, <1>11 DEF IInv

-----------------------------------------------------------------------------
(* The invariant, and what it implies.                                     *)

LEMMA InitIInv ==
  ASSUME Init
  PROVE  IInv
<1>1. Types
  <2>1. [pc |-> "idle", batch |-> NoBatch] \in SenderStates /\ Idle \in HandlerStates
    BY DEF SenderStates, SenderPCs, HandlerStates, HandlerPCs, Idle
  <2>2. sender \in [Senders -> SenderStates] /\ handler \in [Handlers -> HandlerStates]
    BY <2>1 DEF Init
  <2>3. mishaps \in 0..MaxMishaps
    BY ScrubAssumption DEF Init
  <2>4. harmed \in BOOLEAN
    BY Zenon DEF Init
  <2>5. /\ job \in [Jobs -> JobStatuses] /\ batch \in [Batches -> BatchStatuses]
        /\ remote \in [Batches -> RemoteStatuses] /\ billed \in [Batches -> Nat]
    BY DEF Init, JobStatuses, BatchStatuses, RemoteStatuses
  <2>6. QED BY <2>2, <2>3, <2>4, <2>5 DEF Init, Types
<1>2. \A j \in Jobs : JobOK(j)
  BY DEF Init, JobOK, Chunks, Senders
<1>3. \A j \in Jobs : AwayOK(j)
  BY DEF Init, AwayOK, AllRecorded
<1>4. \A b \in Batches : RowOK(b) /\ BillOK(b)
  BY DEF Init, RowOK, BillOK, Ended
<1>5. \A s \in Senders : SenderOK(s)
  BY DEF Init, SenderOK, AtBatch
<1>6. \A h \in Handlers : HandlerOK(h)
  BY DEF Init, HandlerOK, Idle
<1>7. \A e \in events : EventOK(e)
  BY DEF Init
<1>8. QED BY <1>1, <1>2, <1>3, <1>4, <1>5, <1>6, <1>7 DEF IInv

LEMMA StepIInv ==
  ASSUME IInv, [Next]_vars
  PROVE  IInv'
<1>1. ASSUME NEW s \in Senders, Submit(s) PROVE IInv'
  BY <1>1, ScrubListStep, InsertJobStep, FailJobStep, SubmitWindowStep, InsertBatchStep,
     InsertBatchFailsStep, PostAcceptedStep, PostFailsStep, RecordPendingStep, BillStep DEF Submit
<1>2. ASSUME NEW b \in Batches, Report(b) \/ Repeat(b) PROVE IInv'
  BY <1>2, ReportStep, RepeatStep
<1>3. ASSUME NEW h \in Handlers, NEW e \in events, Receive(h, e) PROVE IInv'
  BY <1>3, ReceiveStep
<1>4. ASSUME NEW h \in Handlers, HandlerStep(h) PROVE IInv'
  BY <1>4, SaveProgressStep, DropFailedStep, CountJobStep, WriteJobStep, ReconcileStep,
     RemoveReconciledStep DEF HandlerStep
<1>5. CASE Crash
  BY <1>5, CrashStep
<1>6. CASE UNCHANGED vars
  BY <1>6 DEF vars, IInv, Types, JobOK, AwayOK, AllRecorded, Sees, EndedAtScrub, RowOK, BillOK, AtIt,
              EventOK, SenderOK, HandlerOK
<1>7. QED BY <1>1, <1>2, <1>3, <1>4, <1>5, <1>6 DEF Next

(* The inductive invariant holds in every reachable state.                 *)
THEOREM Invariance == Spec => []IInv
<1>1. Init => IInv
  BY InitIInv
<1>2. IInv /\ [Next]_vars => IInv'
  BY StepIInv
<1>3. QED BY <1>1, <1>2, PTL DEF Spec

(* Every variable keeps its type, and the row of a chunk goes no later     *)
(* than the row of its job (schema.sql, job_id ON DELETE CASCADE).         *)
THEOREM TypeCorrect == Spec => []TypeOK
<1>1. IInv => TypeOK
  <2> SUFFICES ASSUME IInv PROVE TypeOK
    OBVIOUS
  <2>1. \A b \in Batches \ Imports : InTable(b) => job[JobOf[b]] \in {"processing", "completed"}
    BY JobOfChunk DEF IInv, Types, JobStatuses, JobOK, InTable
  <2>2. QED BY <2>1 DEF IInv, Types, JobStatuses, BatchStatuses, RemoteStatuses, SenderStates, SenderPCs,
                        HandlerStates, HandlerPCs, TypeOK
<1>2. QED BY <1>1, Invariance, PTL

(* No job is settled, in its status or by a reconciliation, before all of  *)
(* its chunks have ended at Scrub (AggregateBatches, updateScrubJobProgress).*)
THEOREM SettledInTime == Spec => []NothingSettledEarly
<1>1. IInv => NothingSettledEarly
  BY DEF IInv, JobOK, HandlerOK, NothingSettledEarly
<1>2. QED BY <1>1, Invariance, PTL

(* What Scrub accepted is billed, once (submitScrubBatch).                 *)
THEOREM BilledOnce == Spec => []BilledWhatScrubAccepted
<1>1. IInv => BilledWhatScrubAccepted
  BY DEF IInv, BillOK, BilledWhatScrubAccepted
<1>2. QED BY <1>1, Invariance, PTL

(* A job whose chunks are recorded as ended has somebody to take it away   *)
(* (updateScrubJobProgress, reconcileScrubJob).                            *)
THEOREM RecordedGoAway == Spec => []RecordedJobsGoAway
<1>1. IInv => RecordedJobsGoAway
  BY DEF IInv, AwayOK, Sees, RecordedJobsGoAway
<1>2. QED BY <1>1, Invariance, PTL
=============================================================================
