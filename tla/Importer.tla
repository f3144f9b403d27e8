-------------------------------- MODULE Importer --------------------------------
(* The CSV importer of a workspace (internal/subimporter/importer.go): one *)
(* status for all of its sessions, and for each session the goroutine that *)
(* reads the file (LoadCSV), the one that writes to the database (Start)   *)
(* and the queue between them.  Each access to the status is under a lock  *)
(* of its own.  Row i has the same address in every file: one is imported  *)
(* again, in whole or in part.                                             *)
EXTENDS Naturals, FiniteSets, Sequences, Functions

CONSTANTS
  Sessions,
  NoSession,
  Rows,        \* in the file of a session
  Bad,         \* rows that are left out: wrong columns, invalid address
  FirstBatches, BatchSize,  \* firstBatchSizes, commitBatchSize
  MaxEvents    \* bound: calls of Stop, failing calls of the database, failing reads

ASSUME ImporterAssumption ==
  /\ NoSession \notin Sessions
  /\ Rows \in [Sessions -> Nat] /\ Bad \subseteq Nat
  /\ FirstBatches \in Seq(Nat \ {0}) /\ BatchSize \in Nat \ {0}
  /\ MaxEvents \in Nat

VARIABLES
  status,   \* im.status, and the session that NewSession made it for
  stop,     \* im.stop, a channel of one; history: the session it was meant for
  caller,   \* a request in NewSession
  reader,   \* LoadCSV
  queue,    \* s.subQueue
  closed,
  writer,   \* Start
  saved,    \* rows committed
  dropped,  \* rows whose transaction was rolled back, or never begun
  stopper,  \* a request in Stop
  stops, faults,
  torn,     \* history: a reader has failed with its file open
  late,     \* history: a Stop has marked an import that had ended
  alone     \* history: no session was made with another still at work

vars == <<status, stop, caller, reader, queue, closed, writer, saved, dropped,
          stopper, stops, faults, torn, late, alone>>

Cleared == [st |-> "none", imported |-> 0, skipped |-> 0, failed |-> 0, by |-> NoSession]

NoRequest == [pc |-> "idle", seen |-> NoSession]

Init ==
  /\ status = Cleared
  /\ stop = NoSession
  /\ caller = [s \in Sessions |-> "idle"]
  /\ reader = [s \in Sessions |-> [pc |-> "none", next |-> 1, window |-> <<>>]]
  /\ queue = [s \in Sessions |-> <<>>]
  /\ closed = [s \in Sessions |-> FALSE]
  /\ writer = [s \in Sessions |-> [pc |-> "none", row |-> 0, tx |-> {}, batch |-> 0]]
  /\ saved = [s \in Sessions |-> {}]
  /\ dropped = [s \in Sessions |-> {}]
  /\ stopper = NoRequest
  /\ stops = 0 /\ faults = 0
  /\ torn = FALSE /\ late = FALSE /\ alone = TRUE

Fault == stops + faults < MaxEvents /\ faults' = faults + 1
SetStatus(st) == status' = [status EXCEPT !.st = st]
isDone == status.st \notin {"importing", "stopping"}
history == <<torn, late, alone>>
requests == <<caller, stopper, stops>>

-----------------------------------------------------------------------------
(* NewSession and Stop.                                                    *)

CheckDone(s) ==
  /\ caller[s] = "idle" /\ isDone
  /\ caller' = [caller EXCEPT ![s] = "checked"]
  /\ UNCHANGED <<status, stop, reader, queue, closed, writer, saved, dropped, stopper, stops, faults, history>>

AtWork(s) == reader[s].pc \notin {"none", "end"} \/ writer[s].pc \notin {"none", "end"}

NewSession(s) ==
  /\ caller[s] = "checked"
  /\ caller' = [caller EXCEPT ![s] = "made"]
  /\ status' = [Cleared EXCEPT !.st = "importing", !.by = s]
  /\ reader' = [reader EXCEPT ![s].pc = "open"]
  /\ writer' = [writer EXCEPT ![s].pc = "receive"]
  /\ alone' = (alone /\ \A t \in Sessions : ~AtWork(t))
  /\ UNCHANGED <<stop, queue, closed, saved, dropped, stopper, stops, faults, torn, late>>

StopAsks ==
  /\ stopper.pc = "idle" /\ stops + faults < MaxEvents
  /\ stops' = stops + 1
  /\ stopper' = [pc |-> IF status.st = "importing" THEN "signal" ELSE "clear", seen |-> status.by]
  /\ UNCHANGED <<status, stop, caller, reader, queue, closed, writer, saved, dropped, faults, history>>

StopClears ==
  /\ stopper.pc = "clear"
  /\ status' = Cleared
  /\ stopper' = NoRequest
  /\ UNCHANGED <<stop, caller, reader, queue, closed, writer, saved, dropped, stops, faults, history>>

(* A signal that is still waiting makes this one go unsaid.                *)
StopSignals ==
  /\ stopper.pc = "signal"
  /\ IF stop = NoSession
     THEN stop' = stopper.seen /\ stopper' = [stopper EXCEPT !.pc = "mark"]
     ELSE UNCHANGED stop /\ stopper' = NoRequest
  /\ UNCHANGED <<status, caller, reader, queue, closed, writer, saved, dropped, stops, faults, history>>

StopMarks ==
  /\ stopper.pc = "mark"
  /\ SetStatus("stopping")
  /\ stopper' = NoRequest
  /\ late' = (late \/ isDone)
  /\ UNCHANGED <<stop, caller, reader, queue, closed, writer, saved, dropped, stops, faults, torn, alone>>

Stop == StopClears \/ StopSignals \/ StopMarks

-----------------------------------------------------------------------------
(* LoadCSV: the queue is closed only when it ends without an error.        *)

unread == <<writer, saved, dropped, closed>>

OpenFile(s) ==
  /\ reader[s].pc = "open"
  /\ \/ reader' = [reader EXCEPT ![s].pc = IF isDone THEN "end" ELSE "loop"] /\ UNCHANGED faults
     \/ ~isDone /\ Fault /\ reader' = [reader EXCEPT ![s].pc = "fail"]
  /\ UNCHANGED <<status, stop, queue, unread, requests, history>>

Flush(r) == IF Len(r.window) = BatchSize THEN "flush" ELSE "loop"

ReadRow(s) ==
  LET i == reader[s].next
      r == [reader[s] EXCEPT !.next = i + 1, !.window = IF i \in Bad THEN @ ELSE Append(@, i)] IN
  /\ reader[s].pc = "loop" /\ stop = NoSession /\ i <= Rows[s]
  /\ reader' = [reader EXCEPT ![s] = [r EXCEPT !.pc = Flush(r)]]
  /\ status' = IF i \in Bad THEN [status EXCEPT !.skipped = @ + 1] ELSE status
  /\ UNCHANGED <<stop, queue, unread, requests, faults, history>>

ReadFails(s) ==
  /\ reader[s].pc = "loop" /\ stop = NoSession /\ Fault
  /\ reader' = [reader EXCEPT ![s].pc = "fail"]
  /\ torn' = TRUE
  /\ UNCHANGED <<status, stop, queue, unread, requests, late, alone>>

EndOfFile(s) ==
  /\ reader[s].pc = "loop" /\ stop = NoSession /\ reader[s].next > Rows[s]
  /\ reader' = [reader EXCEPT ![s].pc = "drain"]
  /\ UNCHANGED <<status, stop, queue, unread, requests, faults, history>>

TakeStopForgets(s) ==  \* mutant: the window is not flushed
  /\ reader[s].pc = "loop" /\ stop # NoSession
  /\ stop' = NoSession
  /\ reader' = [reader EXCEPT ![s].pc = "drain", ![s].window = <<>>]
  /\ UNCHANGED <<status, queue, unread, requests, faults, history>>

TakeStop(s) ==
  /\ reader[s].pc = "loop" /\ stop # NoSession
  /\ stop' = NoSession
  /\ reader' = [reader EXCEPT ![s].pc = "drain"]
  /\ UNCHANGED <<status, queue, unread, requests, faults, history>>

(* flushWindow waits for room for each of its rows.                        *)
FlushRow(s) ==
  /\ reader[s].pc \in {"flush", "drain"} /\ reader[s].window # <<>>
  /\ Len(queue[s]) < BatchSize
  /\ queue' = [queue EXCEPT ![s] = Append(@, Head(reader[s].window))]
  /\ reader' = [reader EXCEPT ![s].window = Tail(@)]
  /\ UNCHANGED <<status, stop, unread, requests, faults, history>>

Flushed(s) ==
  /\ reader[s].pc \in {"flush", "drain"} /\ reader[s].window = <<>>
  /\ reader' = [reader EXCEPT ![s].pc = IF @ = "drain" THEN "end" ELSE "loop"]
  /\ closed' = [closed EXCEPT ![s] = reader[s].pc = "drain"]
  /\ UNCHANGED <<status, stop, queue, writer, saved, dropped, requests, faults, history>>

LoadFailsSilently(s) ==  \* mutant: no deferred status
  /\ reader[s].pc = "fail"
  /\ reader' = [reader EXCEPT ![s].pc = "end"]
  /\ UNCHANGED <<status, stop, queue, unread, requests, faults, history>>

LoadFails(s) ==
  /\ reader[s].pc = "fail"
  /\ SetStatus("failed")
  /\ reader' = [reader EXCEPT ![s].pc = "end"]
  /\ UNCHANGED <<stop, queue, unread, requests, faults, history>>

LoadCSV(s) ==
  \/ OpenFile(s) \/ ReadRow(s) \/ ReadFails(s) \/ EndOfFile(s) \/ TakeStop(s)
  \/ FlushRow(s) \/ Flushed(s) \/ LoadFails(s)

-----------------------------------------------------------------------------
(* Start.                                                                  *)

unwritten == <<stop, reader, closed>>
batchLimit(n) == IF n < Len(FirstBatches) THEN FirstBatches[n + 1] ELSE BatchSize

(* The first row of a batch begins a transaction; without one it is lost.  *)
Receive(s) ==
  LET w == writer[s] IN
  /\ w.pc = "receive" /\ queue[s] # <<>>
  /\ queue' = [queue EXCEPT ![s] = Tail(@)]
  /\ \/ /\ writer' = [writer EXCEPT ![s].pc = "insert", ![s].row = Head(queue[s])]
        /\ UNCHANGED <<dropped, faults>>
     \/ /\ w.tx = {} /\ Fault
        /\ dropped' = [dropped EXCEPT ![s] = @ \cup {Head(queue[s])}]
        /\ UNCHANGED writer
  /\ UNCHANGED <<status, unwritten, saved, requests, history>>

(* An insert waits for the open transactions that wrote the address.       *)
Free(s) ==
  \A t \in Sessions \ {s} :
    writer[t].pc \in {"rolled back", "count", "count last"} \/ writer[s].row \notin writer[t].tx

Insert(s) ==
  LET w == writer[s]
      tx == w.tx \cup {w.row} IN
  /\ w.pc = "insert" /\ Free(s)
  /\ writer' = [writer EXCEPT ![s] =
                   [w EXCEPT !.row = 0, !.tx = tx, !.pc = IF Cardinality(tx) = batchLimit(w.batch) THEN "commit" ELSE "receive"]]
  /\ UNCHANGED <<status, unwritten, queue, saved, dropped, requests, faults, history>>

(* The batch is rolled back, its row is counted, and the loop left; a row  *)
(* that got no UUID is not even counted.  The rest of the batch is counted *)
(* by the commit below, unless there is none.                              *)
InsertFails(s) ==
  LET w == writer[s] IN
  /\ w.pc = "insert" /\ Fault
  /\ dropped' = [dropped EXCEPT ![s] = @ \cup w.tx \cup {w.row}]
  /\ \E counted \in {0, 1} : status' = [status EXCEPT !.failed = @ + counted]
  /\ writer' = [writer EXCEPT ![s].row = 0, ![s].pc = IF w.tx = {} THEN "finish" ELSE "rolled back"]
  /\ UNCHANGED <<unwritten, queue, saved, requests, history>>

CommitRolledBack(s) ==
  /\ writer[s].pc = "rolled back"
  /\ status' = [status EXCEPT !.failed = @ + Cardinality(writer[s].tx)]
  /\ writer' = [writer EXCEPT ![s].pc = "fail", ![s].tx = {}]
  /\ UNCHANGED <<unwritten, queue, saved, dropped, requests, faults, history>>

Drained(s) ==
  /\ writer[s].pc = "receive" /\ queue[s] = <<>> /\ closed[s]
  /\ writer' = [writer EXCEPT ![s].pc = IF writer[s].tx = {} THEN "finish" ELSE "last"]
  /\ UNCHANGED <<status, unwritten, queue, saved, dropped, requests, faults, history>>

CommitKeepsBatch(s) ==  \* mutant: a failed commit leaves the batch
  LET w == writer[s] IN
  /\ w.pc \in {"commit", "last"}
  /\ \/ /\ saved' = [saved EXCEPT ![s] = @ \cup w.tx]
        /\ writer' = [writer EXCEPT ![s].pc = IF w.pc = "last" THEN "count last" ELSE "count"]
        /\ UNCHANGED <<status, dropped, faults>>
     \/ /\ Fault
        /\ dropped' = [dropped EXCEPT ![s] = @ \cup w.tx]
        /\ status' = [status EXCEPT !.failed = @ + Cardinality(w.tx)]
        /\ writer' = [writer EXCEPT ![s].pc = IF w.pc = "last" THEN "fail" ELSE "receive"]
        /\ UNCHANGED saved
  /\ UNCHANGED <<unwritten, queue, requests, history>>

Commit(s) ==
  LET w == writer[s] IN
  /\ w.pc \in {"commit", "last"}
  /\ \/ /\ saved' = [saved EXCEPT ![s] = @ \cup w.tx]
        /\ writer' = [writer EXCEPT ![s].pc = IF w.pc = "last" THEN "count last" ELSE "count"]
        /\ UNCHANGED <<status, dropped, faults>>
     \/ /\ Fault
        /\ dropped' = [dropped EXCEPT ![s] = @ \cup w.tx]
        /\ status' = [status EXCEPT !.failed = @ + Cardinality(w.tx)]
        /\ writer' = [writer EXCEPT ![s] =
                        IF w.pc = "last" THEN [w EXCEPT !.pc = "fail", !.tx = {}]
                        ELSE [w EXCEPT !.pc = "receive", !.tx = {}, !.batch = @ + 1]]
        /\ UNCHANGED saved
  /\ UNCHANGED <<unwritten, queue, requests, history>>

CountTotal(s) ==  \* mutant: counts all rows so far
  LET w == writer[s] IN
  /\ w.pc \in {"count", "count last"}
  /\ status' = [status EXCEPT !.imported = @ + Cardinality(saved[s])]
  /\ writer' = [writer EXCEPT ![s] =
                  IF w.pc = "count last" THEN [w EXCEPT !.pc = "finish", !.tx = {}]
                  ELSE [w EXCEPT !.pc = "receive", !.tx = {}, !.batch = @ + 1]]
  /\ UNCHANGED <<unwritten, queue, saved, dropped, requests, faults, history>>

(* incrementImportCount: the rows are no longer in a transaction.          *)
Count(s) ==
  LET w == writer[s] IN
  /\ w.pc \in {"count", "count last"}
  /\ status' = [status EXCEPT !.imported = @ + Cardinality(w.tx)]
  /\ writer' = [writer EXCEPT ![s] =
                  IF w.pc = "count last" THEN [w EXCEPT !.pc = "finish", !.tx = {}]
                  ELSE [w EXCEPT !.pc = "receive", !.tx = {}, !.batch = @ + 1]]
  /\ UNCHANGED <<unwritten, queue, saved, dropped, requests, faults, history>>

Finish(s) ==
  /\ writer[s].pc \in {"finish", "fail"}
  /\ SetStatus(IF writer[s].pc = "finish" THEN "finished" ELSE "failed")
  /\ writer' = [writer EXCEPT ![s].pc = "end"]
  /\ UNCHANGED <<unwritten, queue, saved, dropped, requests, faults, history>>

Start(s) ==
  \/ Receive(s) \/ Insert(s) \/ InsertFails(s) \/ CommitRolledBack(s)
  \/ Drained(s) \/ Commit(s) \/ Count(s) \/ Finish(s)

Next ==
  \/ \E s \in Sessions : CheckDone(s) \/ NewSession(s) \/ LoadCSV(s) \/ Start(s)
  \/ StopAsks \/ Stop

Spec == Init /\ [][Next]_vars

FairSpec ==
  /\ Spec
  /\ \A s \in Sessions : WF_vars(NewSession(s)) /\ WF_vars(LoadCSV(s)) /\ WF_vars(Start(s))
  /\ WF_vars(Stop)
-----------------------------------------------------------------------------
(* Properties.                                                             *)

(* The type invariant: the window and the queue stay within a batch, and   *)
(* a row is in one place only, whatever order it went there in.            *)
TypeOK ==
  /\ status \in [st : {"none", "importing", "stopping", "finished", "failed"},
                 imported : Nat, skipped : Nat, failed : Nat, by : Sessions \cup {NoSession}]
  /\ stop \in Sessions \cup {NoSession}
  /\ caller \in [Sessions -> {"idle", "checked", "made"}]
  /\ stopper \in [pc : {"idle", "clear", "signal", "mark"}, seen : Sessions \cup {NoSession}]
  /\ stops \in Nat /\ faults \in Nat /\ stops + faults <= MaxEvents
  /\ closed \in [Sessions -> BOOLEAN]
  /\ torn \in BOOLEAN /\ late \in BOOLEAN /\ alone \in BOOLEAN
  /\ \A s \in Sessions :
       /\ Len(reader[s].window) <= BatchSize /\ Len(queue[s]) <= BatchSize
       /\ LET places == <<Range(reader[s].window), Range(queue[s]), saved[s] \cup writer[s].tx, dropped[s]>> IN
          /\ \A p, q \in DOMAIN places :
               p # q /\ writer[s].pc # "rolled back" => places[p] \cap places[q] = {}
          /\ \A p \in DOMAIN places : places[p] \subseteq 1..(reader[s].next - 1) \ Bad

(* The counters of the status are the rows of the database: what is told   *)
(* as imported has been committed, all of it but the batch that is being   *)
(* counted, and what is told as failed has been rolled back                *)
(* (incrementImportCount and incrementFailed, after the commit or the      *)
(* rollback they tell of).                                                 *)
CountsMatch ==
  \A s \in Sessions :
    alone /\ status.by = s =>
      LET w == writer[s] IN
      /\ status.imported + (IF w.pc \in {"count", "count last"} THEN Cardinality(w.tx) ELSE 0)
           = Cardinality(saved[s])
      /\ status.failed + (IF w.pc = "rolled back" THEN Cardinality(w.tx) ELSE 0)
           <= Cardinality(dropped[s])

(* An import that ends as finished with no call of the database failing,   *)
(* stopped or not, has saved each good row that was read, and told of each *)
(* of them and of each bad one (flushWindow at a stop, the last commit).   *)
FinishedSavesWhatWasRead ==
  \A s \in Sessions :
    alone /\ status.by = s /\ status.st = "finished" /\ faults = 0 =>
      /\ saved[s] = 1..(reader[s].next - 1) \ Bad
      /\ status.imported + status.skipped = reader[s].next - 1

(* An import ends: whatever fails, a status that keeps the next import out *)
(* (NewSession) is left, except where the code is known not to: the reader *)
(* failed with rows in a transaction that is never ended, or a Stop marked *)
(* an import that had ended.                                               *)
StatusSettles == ~isDone ~> (isDone \/ torn \/ late)
=============================================================================
