--------------------------- MODULE CampaignManager ---------------------------
(***************************************************************************)
(* The campaign sending pipeline of internal/manager: the scanner that     *)
(* turns 'running' campaigns into pipes, the Run loop that fetches batches *)
(* of subscribers, the pool of workers that push messages, the goroutine   *)
(* of each pipe that waits for its messages and records the outcome, and   *)
(* the API handlers that change a campaign's status meanwhile.             *)
(*                                                                         *)
(* Every step is one access to state that another goroutine can see: an    *)
(* SQL statement, an atomic load or store, a channel operation, a          *)
(* WaitGroup change.  Rate limiting and the sliding window only take time: *)
(* the time between a worker's check of its pipe and its push is a state.  *)
(* Rendering and logging only make text and are left out.                  *)
(***************************************************************************)
EXTENDS Naturals, Sequences, FiniteSets

CONSTANTS
  Campaigns,      \* campaign IDs
  NoCampaign,     \* none of them
  Audience,       \* [campaign -> IDs of the subscribers its lists select]
  Tenants,        \* tenant IDs
  TenantOf,       \* [campaign -> tenant]
  Timed,          \* the campaigns that have a send_at
  Pipes,          \* the pipe objects a run can create, 1..n in creation order
  NoPipe,         \* no entry in m.pipes
  Workers,        \* Config.Concurrency workers
  Admins,         \* API requests that can be in flight at once
  Requests,       \* the status changes they ask for
  BatchSize,      \* Config.BatchSize
  MaxSendErrors,  \* Config.MaxSendErrors, 0 to ignore errors
  MsgQCap,        \* capacity of campMsgQ
  NextPipesCap,   \* capacity of nextPipes
  MaxRequests, MaxFaults, MaxCrashes  \* bounds of the environment

Subs == UNION {Audience[c] : c \in Campaigns}
Statuses == {"draft", "scheduled", "running", "paused", "cancelled", "finished"}

ASSUME ConstantsAssumption ==
  /\ Audience \in [Campaigns -> SUBSET (Nat \ {0})]
  /\ IsFiniteSet(Subs)
  /\ TenantOf \in [Campaigns -> Tenants]
  /\ NoCampaign \notin Campaigns
  /\ Timed \subseteq Campaigns
  /\ Pipes \subseteq Nat
  /\ NoPipe \notin Pipes
  /\ Requests \subseteq Statuses \cup {"autopause"}
  /\ BatchSize \in Nat \ {0}
  /\ {MaxSendErrors, MsgQCap, NextPipesCap, MaxRequests, MaxFaults, MaxCrashes}
        \subseteq Nat

VARIABLES
  db,         \* the campaigns table: status, sent, last_subscriber_id, pause_reason
  pipes,      \* m.pipes
  pipe,       \* the fields of each pipe object
  wg,         \* its WaitGroup counter
  phase,      \* where its Wait-and-cleanup goroutine is
  fate,       \* what became of each subscriber in each pipe
  nextPipes,  \* channel of pipes that want a batch
  campMsgQ,   \* channel of rendered messages
  runner,     \* the Run loop: the pipe it serves and the rest of its batch
  scan,       \* the scanCampaigns goroutine
  worker,     \* the worker goroutines
  admin,      \* the status requests in flight
  budget      \* how much of the environment's bounds is used up

pipeVars == <<pipes, pipe, wg, phase, fate>>
chanVars == <<nextPipes, campMsgQ>>
vars == <<db, pipes, pipe, wg, phase, fate, nextPipes, campMsgQ, runner, scan,
          worker, admin, budget>>

-----------------------------------------------------------------------------
(* What becomes of a subscriber in a pipe.                                 *)
Undone == {"queued", "taken", "sending", "pushed", "refused"}  \* in the WaitGroup
Fates == Undone \cup {"none", "fetched", "skipped", "dropped", "sent", "failed"}

(* Where the goroutine of a pipe is: blocked in Wait, at each step of      *)
(* cleanup, or returned.                                                   *)
Cleaning == {"errors", "pause", "reason", "stopped", "status", "finish", "remove"}
Phases == {"new", "wait", "gone"} \cup Cleaning

Live(p) == phase[p] \in {"wait"} \cup Cleaning

IdleWorker == [pc |-> "idle", pipe |-> NoPipe, sub |-> 0]
IdleRunner == [pipe |-> NoPipe, batch |-> {}]
IdleScan ==
  [ids |-> {}, counts |-> [c \in Campaigns |-> 0], tenants |-> {}, found |-> {}]
IdleAdmin == [pc |-> "idle", camp |-> NoCampaign, req |-> "none"]

(* One more failing database or messenger call, and none.                  *)
Fault == /\ budget.faults < MaxFaults
         /\ budget' = [budget EXCEPT !.faults = @ + 1]
NoFault == UNCHANGED budget

(* pipe.Stop: the first caller decides whether it was for errors.          *)
StoppedForErrors(r, withErrors) ==  \* mutant: a manual stop leaves no mark
  IF withErrors THEN [r EXCEPT !.stopped = TRUE, !.withErrors = TRUE] ELSE r
StoppedPipe(r, withErrors) ==
  IF r.stopped THEN r
  ELSE [r EXCEPT !.stopped = TRUE, !.withErrors = @ \/ withErrors]

(* wg.Done.                                                                *)
DoneTwice(p) == wg' = [wg EXCEPT ![p] = @ - 2]  \* mutant
Done(p) == wg' = [wg EXCEPT ![p] = @ - 1]

(* A pipe that can't go on: stopped, and its pseudo count released.        *)
StopWithoutRelease(p) ==  \* mutant: the count is kept
  pipe' = [pipe EXCEPT ![p] = StoppedPipe(@, FALSE)] /\ UNCHANGED wg
StopAndRelease(p) ==
  pipe' = [pipe EXCEPT ![p] = StoppedPipe(@, FALSE)] /\ Done(p)

Mark(p, s, f) == fate' = [fate EXCEPT ![p][s] = f]

(* The count a pipe is created with, so that Wait blocks at once.          *)
NoInitialCount == 0  \* mutant
InitialCount == 1

(* next-campaign-subscribers: the first BatchSize subscribers above the    *)
(* campaign's checkpoint.                                                  *)
AheadOrAt(c) == {s \in Audience[c] : s >= db[c].last}  \* mutant: off by one
Ahead(c) == {s \in Audience[c] : s > db[c].last}
Batch(c) ==
  {s \in Ahead(c) : Cardinality({t \in Ahead(c) : t < s}) < BatchSize}

Init ==
  /\ db = [c \in Campaigns |->
             [status |-> IF c \in Timed THEN "scheduled" ELSE "running",
              sent |-> 0, last |-> 0, reason |-> "none"]]
  /\ pipes = [c \in Campaigns |-> NoPipe]
  /\ pipe = [p \in Pipes |->
               [camp |-> NoCampaign, sent |-> 0, lastID |-> 0, errors |-> 0,
                stopped |-> FALSE, withErrors |-> FALSE]]
  /\ wg = [p \in Pipes |-> 0]
  /\ phase = [p \in Pipes |-> "new"]
  /\ fate = [p \in Pipes |-> [s \in Subs |-> "none"]]
  /\ nextPipes = <<>>
  /\ campMsgQ = <<>>
  /\ runner = IdleRunner
  /\ scan = IdleScan
  /\ worker = [w \in Workers |-> IdleWorker]
  /\ admin = [a \in Admins |-> IdleAdmin]
  /\ budget = [requests |-> 0, faults |-> 0, crashes |-> 0]

-----------------------------------------------------------------------------
(* The Run loop and NextSubscribers.                                       *)

(* The pipe's subscribers are exhausted, or its campaign is not running:   *)
(* the pseudo count that the pipe was created with is released.            *)
FetchNothing ==
  /\ runner.pipe = NoPipe
  /\ nextPipes # <<>>
  /\ LET p == Head(nextPipes)
         c == pipe[p].camp
     IN /\ db[c].status # "running" \/ Batch(c) = {}
        /\ Done(p)
  /\ nextPipes' = Tail(nextPipes)
  /\ UNCHANGED <<db, pipes, pipe, phase, fate, campMsgQ, runner, scan, worker,
                 admin, budget>>

(* A batch is fetched and the checkpoint moves past it in one statement.   *)
(* The status is read by a statement of its own before; nothing but this   *)
(* pipe moves the checkpoint, so a change of status between the two is the *)
(* same as one right after.                                                *)
FetchBatch ==
  /\ runner.pipe = NoPipe
  /\ nextPipes # <<>>
  /\ LET p == Head(nextPipes)
         c == pipe[p].camp
         b == Batch(c)
     IN /\ db[c].status = "running"
        /\ \E last \in b : /\ \A s \in b : s <= last
                          /\ db' = [db EXCEPT ![c].last = last]
        /\ runner' = [pipe |-> p, batch |-> b]
        /\ fate' = [fate EXCEPT ![p] =
                      [s \in Subs |-> IF s \in b THEN "fetched" ELSE @[s]]]
  /\ nextPipes' = Tail(nextPipes)
  /\ UNCHANGED <<pipes, pipe, wg, phase, campMsgQ, scan, worker, admin, budget>>

(* The query fails: the pipe is stopped and released.                      *)
FetchFails ==
  /\ runner.pipe = NoPipe
  /\ nextPipes # <<>>
  /\ StopAndRelease(Head(nextPipes))
  /\ nextPipes' = Tail(nextPipes)
  /\ Fault
  /\ UNCHANGED <<db, pipes, phase, fate, campMsgQ, runner, scan, worker, admin>>

(* The subscriber the Run loop handles next: batches are ordered by ID.    *)
IsNext(s) == s \in runner.batch /\ \A t \in runner.batch : s <= t

(* newMessage counts the message, then the send to campMsgQ blocks while   *)
(* the queue is full.  The pseudo count is held all the while, so counting *)
(* and sending are one step.                                               *)
EnqueueMessage ==
  /\ Len(campMsgQ) < MsgQCap
  /\ \E s \in runner.batch :
       /\ IsNext(s)
       /\ campMsgQ' = Append(campMsgQ, [pipe |-> runner.pipe, sub |-> s])
       /\ Mark(runner.pipe, s, "queued")
       /\ runner' = [runner EXCEPT !.batch = @ \ {s}]
  /\ wg' = [wg EXCEPT ![runner.pipe] = @ + 1]
  /\ UNCHANGED <<db, pipes, pipe, phase, nextPipes, scan, worker, admin, budget>>

(* The message does not render: the subscriber is passed over.             *)
SkipUnrendered ==
  /\ \E s \in runner.batch :
       /\ IsNext(s)
       /\ Mark(runner.pipe, s, "skipped")
       /\ runner' = [runner EXCEPT !.batch = @ \ {s}]
  /\ Fault
  /\ UNCHANGED <<db, pipes, pipe, wg, phase, chanVars, scan, worker, admin>>

(* The batch is queued: the pipe goes back to nextPipes for another...     *)
Requeue ==
  /\ runner.pipe # NoPipe /\ runner.batch = {}
  /\ Len(nextPipes) < NextPipesCap
  /\ nextPipes' = Append(nextPipes, runner.pipe)
  /\ runner' = IdleRunner
  /\ UNCHANGED <<db, pipeVars, campMsgQ, scan, worker, admin, budget>>

(* ... or, when that queue is full, it is stopped and released.            *)
RequeueOverflow ==
  /\ runner.pipe # NoPipe /\ runner.batch = {}
  /\ Len(nextPipes) >= NextPipesCap
  /\ StopAndRelease(runner.pipe)
  /\ runner' = IdleRunner
  /\ UNCHANGED <<db, pipes, phase, fate, chanVars, scan, worker, admin, budget>>

RunLoop ==
  \/ FetchNothing \/ FetchBatch \/ FetchFails
  \/ EnqueueMessage \/ SkipUnrendered
  \/ Requeue \/ RequeueOverflow

-----------------------------------------------------------------------------
(* The workers.                                                            *)

WorkerTake(w) ==
  /\ worker[w].pc = "idle"
  /\ campMsgQ # <<>>
  /\ LET m == Head(campMsgQ)
     IN /\ worker' = [worker EXCEPT ![w] =
                        [pc |-> "taken", pipe |-> m.pipe, sub |-> m.sub]]
        /\ Mark(m.pipe, m.sub, "taken")
  /\ campMsgQ' = Tail(campMsgQ)
  /\ UNCHANGED <<db, pipes, pipe, wg, phase, nextPipes, runner, scan, admin, budget>>

(* The pipe was stopped: the message is ignored.                           *)
WorkerDrop(w) ==
  /\ worker[w].pc = "taken"
  /\ pipe[worker[w].pipe].stopped
  /\ Mark(worker[w].pipe, worker[w].sub, "dropped")
  /\ Done(worker[w].pipe)
  /\ worker' = [worker EXCEPT ![w] = IdleWorker]
  /\ UNCHANGED <<db, pipes, pipe, phase, chanVars, runner, scan, admin, budget>>

(* It was not, when it was looked at: nobody looks again.                  *)
WorkerCheck(w) ==
  /\ worker[w].pc = "taken"
  /\ ~pipe[worker[w].pipe].stopped
  /\ Mark(worker[w].pipe, worker[w].sub, "sending")
  /\ worker' = [worker EXCEPT ![w].pc = "sending"]
  /\ UNCHANGED <<db, pipes, pipe, wg, phase, chanVars, runner, scan, admin, budget>>

(* After a second's sleep, if the message rate asks for one, the message   *)
(* goes to the messenger, which takes or refuses it.                       *)
WorkerPush(w) ==
  /\ worker[w].pc = "sending"
  /\ \E outcome \in {"pushed", "refused"} :
       /\ Mark(worker[w].pipe, worker[w].sub, outcome)
       /\ worker' = [worker EXCEPT ![w].pc = outcome]
  /\ UNCHANGED <<db, pipes, pipe, wg, phase, chanVars, runner, scan, admin, budget>>

(* The message leaves the WaitGroup before its outcome is accounted for.   *)
WorkerDone(w) ==
  /\ worker[w].pc \in {"pushed", "refused"}
  /\ LET ok == worker[w].pc = "pushed"
     IN /\ Mark(worker[w].pipe, worker[w].sub, IF ok THEN "sent" ELSE "failed")
        /\ worker' = [worker EXCEPT ![w].pc = IF ok THEN "account" ELSE "onerror"]
  /\ Done(worker[w].pipe)
  /\ UNCHANGED <<db, pipes, pipe, phase, chanVars, runner, scan, admin, budget>>

(* pipe.OnError: the error that reaches the threshold stops the pipe.      *)
WorkerOnError(w) ==
  /\ worker[w].pc = "onerror"
  /\ LET r == pipe[worker[w].pipe]
         counted == [r EXCEPT !.errors = @ + 1]
     IN pipe' = [pipe EXCEPT ![worker[w].pipe] =
                   IF MaxSendErrors = 0 THEN r
                   ELSE IF counted.errors < MaxSendErrors THEN counted
                   ELSE StoppedPipe(counted, TRUE)]
  /\ worker' = [worker EXCEPT ![w] = IdleWorker]
  /\ UNCHANGED <<db, pipes, wg, phase, fate, chanVars, runner, scan, admin, budget>>

CountSent(r) == [r EXCEPT !.sent = @ + 1]

(* lastID is loaded, compared and then stored, not swapped in one step.    *)
WorkerLoadLast(w) ==
  /\ worker[w].pc = "account"
  /\ IF worker[w].sub > pipe[worker[w].pipe].lastID
       THEN /\ worker' = [worker EXCEPT ![w].pc = "store"]
            /\ UNCHANGED pipe
       ELSE /\ worker' = [worker EXCEPT ![w] = IdleWorker]
            /\ pipe' = [pipe EXCEPT ![worker[w].pipe] = CountSent(@)]
  /\ UNCHANGED <<db, pipes, wg, phase, fate, chanVars, runner, scan, admin, budget>>

WorkerStoreLast(w) ==
  /\ worker[w].pc = "store"
  /\ pipe' = [pipe EXCEPT ![worker[w].pipe] =
                 CountSent([@ EXCEPT !.lastID = worker[w].sub])]
  /\ worker' = [worker EXCEPT ![w] = IdleWorker]
  /\ UNCHANGED <<db, pipes, wg, phase, fate, chanVars, runner, scan, admin, budget>>

Worker(w) ==
  \/ WorkerTake(w) \/ WorkerDrop(w) \/ WorkerCheck(w) \/ WorkerPush(w)
  \/ WorkerDone(w) \/ WorkerOnError(w) \/ WorkerLoadLast(w) \/ WorkerStoreLast(w)

-----------------------------------------------------------------------------
(* cleanup, in the goroutine that newPipe starts.                          *)

Goto(p, next) == phase' = [phase EXCEPT ![p] = next]

(* update-campaign-counts, with what a pipe has counted.                   *)
WithCounts(row, r) ==
  [row EXCEPT !.sent = @ + r.sent, !.last = IF r.lastID > 0 THEN r.lastID ELSE @]

(* Nothing is left to wait for: the counts go to the database, and so does *)
(* the highest delivered ID if there is one.  An error is only logged.     *)
CleanCounts(p) ==
  /\ phase[p] = "wait"
  /\ wg[p] = 0
  /\ Goto(p, "errors")
  /\ LET c == pipe[p].camp
     IN \/ /\ db' = [db EXCEPT ![c] = WithCounts(@, pipe[p])]
           /\ NoFault
        \/ /\ Fault
           /\ UNCHANGED db
  /\ UNCHANGED <<pipes, pipe, wg, fate, chanVars, runner, scan, worker, admin>>

CleanWithErrors(p) ==
  /\ phase[p] = "errors"
  /\ Goto(p, IF pipe[p].withErrors THEN "pause" ELSE "stopped")
  /\ UNCHANGED <<db, pipes, pipe, wg, fate, chanVars, runner, scan, worker,
                 admin, budget>>

(* UpdateCampaignStatus to paused, whatever the status is by now.          *)
CleanPause(p) ==
  /\ phase[p] = "pause"
  /\ \/ /\ db' = [db EXCEPT ![pipe[p].camp].status = "paused"]
        /\ Goto(p, "reason")
        /\ NoFault
     \/ /\ Goto(p, "remove")
        /\ Fault
        /\ UNCHANGED db
  /\ UNCHANGED <<pipes, pipe, wg, fate, chanVars, runner, scan, worker, admin>>

(* set-campaign-pause-reason: only on a paused campaign without a reason.  *)
WithReason(c, reason) ==
  IF db[c].status = "paused" /\ db[c].reason = "none"
    THEN [db EXCEPT ![c].reason = reason]
    ELSE db

CleanReason(p) ==
  /\ phase[p] = "reason"
  /\ \/ db' = WithReason(pipe[p].camp, "too_many_errors") /\ NoFault
     \/ Fault /\ UNCHANGED db
  /\ Goto(p, "remove")
  /\ UNCHANGED <<pipes, pipe, wg, fate, chanVars, runner, scan, worker, admin>>

(* A pipe that was stopped by hand leaves the status alone.                *)
AlwaysStatus(p) == "status"  \* mutant: it goes on to finish the campaign
AfterStopped(p) == IF pipe[p].stopped THEN "remove" ELSE "status"

CleanStopped(p) ==
  /\ phase[p] = "stopped"
  /\ Goto(p, AfterStopped(p))
  /\ UNCHANGED <<db, pipes, pipe, wg, fate, chanVars, runner, scan, worker,
                 admin, budget>>

(* GetCampaign; a failure leaves the campaign as it is.                    *)
CleanStatus(p) ==
  /\ phase[p] = "status"
  /\ \/ /\ Goto(p, IF db[pipe[p].camp].status \in {"running", "scheduled"}
                     THEN "finish" ELSE "remove")
        /\ NoFault
     \/ /\ Goto(p, "remove")
        /\ Fault
  /\ UNCHANGED <<db, pipes, pipe, wg, fate, chanVars, runner, scan, worker, admin>>

(* UpdateCampaignStatus to finished, on the status read a step ago.        *)
CleanFinish(p) ==
  /\ phase[p] = "finish"
  /\ \/ /\ db' = [db EXCEPT ![pipe[p].camp].status = "finished"]
        /\ NoFault
     \/ /\ Fault
        /\ UNCHANGED db
  /\ Goto(p, "remove")
  /\ UNCHANGED <<pipes, pipe, wg, fate, chanVars, runner, scan, worker, admin>>

CleanRemove(p) ==
  /\ phase[p] = "remove"
  /\ pipes' = [pipes EXCEPT ![pipe[p].camp] = NoPipe]
  /\ Goto(p, "gone")
  /\ UNCHANGED <<db, pipe, wg, fate, chanVars, runner, scan, worker, admin, budget>>

Cleanup(p) ==
  \/ CleanCounts(p) \/ CleanWithErrors(p) \/ CleanPause(p) \/ CleanReason(p)
  \/ CleanStopped(p) \/ CleanStatus(p) \/ CleanFinish(p) \/ CleanRemove(p)

-----------------------------------------------------------------------------
(* scanCampaigns.                                                          *)

(* The goroutine waits for the next tick when it has no tenant to query    *)
(* and no campaign to launch left.                                         *)
ScanGoesOn(s) == scan' = IF s.tenants = {} /\ s.found = {} THEN IdleScan ELSE s

(* A tick: the active tenants are listed (a failure makes it a tick that   *)
(* does nothing), then getCurrentCampaigns takes the sent count of every   *)
(* pipe and sets it to 0.  It holds the read lock of m.pipes, so only the  *)
(* workers' increments can come between a load and its store; those are    *)
(* lost: what was loaded is any value the counter went through.            *)
ScanTick ==
  /\ scan = IdleScan
  /\ LET current == {c \in Campaigns : pipes[c] # NoPipe}
         counters == {pipes[c] : c \in current}
     IN /\ \E active \in SUBSET Tenants,
              loaded \in [current -> UNION {0..pipe[p].sent : p \in counters}] :
             /\ \A c \in current : loaded[c] <= pipe[pipes[c]].sent
             /\ ScanGoesOn([IdleScan EXCEPT
                  !.ids = current, !.tenants = active,
                  !.counts = [c \in Campaigns |->
                                IF c \in current THEN loaded[c] ELSE 0]])
        /\ pipe' = [p \in Pipes |->
                      IF p \in counters THEN [pipe[p] EXCEPT !.sent = 0] ELSE pipe[p]]
  /\ UNCHANGED <<db, pipes, wg, phase, fate, chanVars, runner, worker, admin, budget>>

(* The campaigns a query picks: not those in flight when the tick began.   *)
(* Whether a send_at has passed is up to the clock.                        *)
StartableAny(t, due) ==  \* mutant: also those
  {c \in Campaigns : /\ TenantOf[c] = t
                     /\ db[c].status \in {"running", "scheduled"}
                     /\ db[c].status = "scheduled" => c \in due}
Startable(t, due) ==
  {c \in Campaigns \ scan.ids : /\ TenantOf[c] = t
                                /\ db[c].status \in {"running", "scheduled"}
                                /\ db[c].status = "scheduled" => c \in due}

(* next-campaigns for one tenant: adds the counts of its campaigns in      *)
(* flight, and picks those to start.  A campaign that selects subscribers  *)
(* becomes running.                                                        *)
ScanQuery(t) ==
  /\ t \in scan.tenants /\ scan.found = {}
  /\ \E due \in SUBSET Timed :
       LET picked == Startable(t, due)
       IN /\ ScanGoesOn([scan EXCEPT !.tenants = @ \ {t}, !.found = picked])
          /\ db' = [c \in Campaigns |->
                      IF c \in scan.ids /\ TenantOf[c] = t
                        THEN [db[c] EXCEPT !.sent = @ + scan.counts[c]]
                      ELSE IF c \in picked /\ Audience[c] # {}
                        THEN [db[c] EXCEPT !.status = "running"]
                      ELSE db[c]]
  /\ UNCHANGED <<pipeVars, chanVars, runner, worker, admin, budget>>

(* It fails: the tenant's counts, already reset, are lost.                 *)
ScanQueryFails(t) ==
  /\ t \in scan.tenants /\ scan.found = {}
  /\ ScanGoesOn([scan EXCEPT !.tenants = @ \ {t}])
  /\ Fault
  /\ UNCHANGED <<db, pipeVars, chanVars, runner, worker, admin>>

(* newPipe and the non-blocking push to nextPipes; when that is full the   *)
(* pipe is stopped and its pseudo count released.                          *)
Launch(c) ==
  /\ c \in scan.found
  /\ \E p \in Pipes :
       /\ phase[p] = "new"
       /\ \A q \in Pipes : phase[q] = "new" => p <= q
       /\ pipes' = [pipes EXCEPT ![c] = p]
       /\ Goto(p, "wait")
       /\ IF Len(nextPipes) < NextPipesCap
            THEN /\ pipe' = [pipe EXCEPT ![p].camp = c]
                 /\ wg' = [wg EXCEPT ![p] = InitialCount]
                 /\ nextPipes' = Append(nextPipes, p)
            ELSE /\ pipe' = [pipe EXCEPT ![p] = StoppedPipe([@ EXCEPT !.camp = c], FALSE)]
                 /\ UNCHANGED <<wg, nextPipes>>
  /\ ScanGoesOn([scan EXCEPT !.found = @ \ {c}])
  /\ UNCHANGED <<db, fate, campMsgQ, runner, worker, admin, budget>>

(* newPipe fails: on a messenger that can't be resolved the campaign is    *)
(* cancelled, on any other error it is left for the next tick.             *)
LaunchFails(c) ==
  /\ c \in scan.found
  /\ ScanGoesOn([scan EXCEPT !.found = @ \ {c}])
  /\ \/ db' = [db EXCEPT ![c].status = "cancelled"]
     \/ UNCHANGED db
  /\ Fault
  /\ UNCHANGED <<pipeVars, chanVars, runner, worker, admin>>

Scanner ==
  \/ ScanTick
  \/ \E c \in Campaigns : Launch(c) \/ LaunchFails(c)
  \/ \E t \in Tenants : ScanQuery(t) \/ ScanQueryFails(t)

-----------------------------------------------------------------------------
(* The handlers that change a status: PUT /campaigns/{id}/status, and the  *)
(* auto-pause of a Scrub check ("autopause").  A statement of theirs that  *)
(* fails ends the request: as good as one whose next step never comes.     *)

Target(req) == IF req = "autopause" THEN "paused" ELSE req

(* core.UpdateCampaignStatus: which status may follow the one it read.     *)
(* Nothing is asked of a campaign that is to be finished.                  *)
Allowed(c, req) ==
  CASE Target(req) = "draft"     -> db[c].status = "scheduled"
    [] Target(req) = "scheduled" -> db[c].status \in {"draft", "paused"} /\ c \in Timed
    [] Target(req) = "running"   -> db[c].status \in {"draft", "paused"}
    [] Target(req) = "paused"    -> db[c].status = "running"
    [] Target(req) = "cancelled" -> db[c].status \in {"running", "paused"}
    [] OTHER                     -> TRUE

AdminCheck(a, c, req) ==
  /\ admin[a].pc = "idle"
  /\ budget.requests < MaxRequests
  /\ Allowed(c, req)
  /\ admin' = [admin EXCEPT ![a] = [pc |-> "write", camp |-> c, req |-> req]]
  /\ budget' = [budget EXCEPT !.requests = @ + 1]
  /\ UNCHANGED <<db, pipeVars, chanVars, runner, scan, worker>>

(* update-campaign-status compares nothing: it writes over any status.     *)
AdminWrite(a) ==
  /\ admin[a].pc = "write"
  /\ LET c == admin[a].camp
         new == Target(admin[a].req)
     IN /\ db' = [db EXCEPT ![c].status =
                    IF c \in Timed /\ new = "running" THEN "scheduled" ELSE new]
        /\ admin' = [admin EXCEPT ![a].pc =
                       IF new \in {"paused", "cancelled"} THEN "stop" ELSE "clear"]
  /\ UNCHANGED <<pipeVars, chanVars, runner, scan, worker, budget>>

(* StopCampaign: marks the pipe of the campaign, if it has one.            *)
AdminStop(a) ==
  /\ admin[a].pc = "stop"
  /\ LET p == pipes[admin[a].camp]
     IN pipe' = IF p = NoPipe THEN pipe
                ELSE [pipe EXCEPT ![p] = StoppedPipe(@, FALSE)]
  /\ admin' = [admin EXCEPT ![a] =
                 CASE admin[a].req = "paused" -> IdleAdmin
                   [] admin[a].req = "autopause" -> [@ EXCEPT !.pc = "reason"]
                   [] OTHER -> [@ EXCEPT !.pc = "clear"]]
  /\ UNCHANGED <<db, pipes, wg, phase, fate, chanVars, runner, scan, worker, budget>>

AdminReason(a) ==
  /\ \/ /\ admin[a].pc = "clear"
        /\ db' = [db EXCEPT ![admin[a].camp].reason = "none"]
     \/ /\ admin[a].pc = "reason"
        /\ db' = WithReason(admin[a].camp, "scrub")
  /\ admin' = [admin EXCEPT ![a] = IdleAdmin]
  /\ UNCHANGED <<pipeVars, chanVars, runner, scan, worker, budget>>

Admin(a) ==
  \/ \E c \in Campaigns, req \in Requests : AdminCheck(a, c, req)
  \/ AdminWrite(a) \/ AdminStop(a) \/ AdminReason(a)

-----------------------------------------------------------------------------
(* The process dies and a new one starts: only the database is left.  A    *)
(* push in progress has reached the messenger or not; what was fetched     *)
(* and not pushed is lost.                                                 *)
Crash ==
  /\ budget.crashes < MaxCrashes
  /\ budget' = [budget EXCEPT !.crashes = @ + 1]
  /\ pipes' = [c \in Campaigns |-> NoPipe]
  /\ phase' = [p \in Pipes |-> IF Live(p) THEN "gone" ELSE phase[p]]
  /\ fate' = [p \in Pipes |-> [s \in Subs |->
                CASE fate[p][s] = "pushed"  -> "sent"
                  [] fate[p][s] = "refused" -> "failed"
                  [] fate[p][s] \in {"fetched", "queued", "taken", "sending"} -> "dropped"
                  [] OTHER -> fate[p][s]]]
  /\ wg' = [p \in Pipes |-> 0]
  /\ nextPipes' = <<>>
  /\ campMsgQ' = <<>>
  /\ runner' = IdleRunner
  /\ scan' = IdleScan
  /\ worker' = [w \in Workers |-> IdleWorker]
  /\ admin' = [a \in Admins |-> IdleAdmin]
  /\ UNCHANGED <<db, pipe>>

Next ==
  \/ RunLoop
  \/ Scanner
  \/ \E w \in Workers : Worker(w)
  \/ \E p \in Pipes : Cleanup(p)
  \/ \E a \in Admins : Admin(a)
  \/ Crash

Spec == Init /\ [][Next]_vars

(* The Run loop, the workers and the cleanup goroutines are loops that     *)
(* never sleep for good.  Nothing is asked of the scanner, of the requests *)
(* or of failures.                                                         *)
FairSpec ==
  /\ Spec
  /\ WF_vars(FetchNothing \/ FetchBatch \/ EnqueueMessage \/ Requeue \/ RequeueOverflow)
  /\ \A w \in Workers : WF_vars(Worker(w))
  /\ \A p \in Pipes : WF_vars(Cleanup(p))

-----------------------------------------------------------------------------
(* Types, and the capacities of the two channels.                          *)
DbOK ==
  db \in [Campaigns -> [status : Statuses, sent : Nat, last : Nat,
                        reason : {"none", "too_many_errors", "scrub"}]]
PipesOK == pipes \in [Campaigns -> Pipes \cup {NoPipe}]
PipeOK ==
  pipe \in [Pipes -> [camp : Campaigns \cup {NoCampaign}, sent : Nat,
                      lastID : Nat, errors : Nat, stopped : BOOLEAN,
                      withErrors : BOOLEAN]]
WaitOK == wg \in [Pipes -> Nat] /\ phase \in [Pipes -> Phases]
FateOK == fate \in [Pipes -> [Subs -> Fates]]
ChansOK ==
  /\ nextPipes \in Seq(Pipes) /\ Len(nextPipes) <= NextPipesCap
  /\ campMsgQ \in Seq([pipe : Pipes, sub : Subs]) /\ Len(campMsgQ) <= MsgQCap
RunnerOK == runner \in [pipe : Pipes \cup {NoPipe}, batch : SUBSET Subs]
ScanOK ==
  scan \in [ids : SUBSET Campaigns, counts : [Campaigns -> Nat],
            tenants : SUBSET Tenants, found : SUBSET Campaigns]
WorkerOK ==
  worker \in [Workers ->
    [pc : {"idle", "taken", "sending", "pushed", "refused", "account", "store",
           "onerror"},
     pipe : Pipes \cup {NoPipe}, sub : Subs \cup {0}]]
AdminOK ==
  admin \in [Admins -> [pc : {"idle", "write", "stop", "clear", "reason"},
                        camp : Campaigns \cup {NoCampaign},
                        req : Requests \cup {"none"}]]
BudgetOK == budget \in [requests : Nat, faults : Nat, crashes : Nat]

TypeOK ==
  /\ DbOK /\ PipesOK /\ PipeOK /\ WaitOK /\ FateOK /\ ChansOK
  /\ RunnerOK /\ ScanOK /\ WorkerOK /\ AdminOK /\ BudgetOK

(* A pipe's cleanup starts only once nothing of it is left anywhere: no    *)
(* subscriber waits in the Run loop's batch, no message is queued or with  *)
(* a worker, and the pipe itself is not waiting for another batch          *)
(* (pipe.go: "draining all messages in its queue").                        *)
Undecided(p) == {s \in Subs : fate[p][s] \in Undone \cup {"fetched"}}
Held(p) == runner.pipe = p \/ \E i \in DOMAIN nextPipes : nextPipes[i] = p
CleanupAfterDrain ==
  \A p \in Pipes :
    phase[p] \in Cleaning \cup {"gone"} => Undecided(p) = {} /\ ~Held(p)

(* A campaign is never processed by two pipes at once: the pipe that       *)
(* m.pipes names is the only live one, whatever scans, stops and cleanups  *)
(* overlap.                                                                *)
OnePipePerCampaign ==
  \A p \in Pipes : Live(p) => pipes[pipe[p].camp] = p

(* A campaign is marked finished only by a pipe all of whose subscribers   *)
(* were pushed, refused or could not be rendered: no message was dropped.  *)
FinishDropsNothing ==
  \A p \in Pipes : phase[p] = "finish" =>
    \A s \in Subs : fate[p][s] \in {"none", "sent", "failed", "skipped"}

(* Once a pause or a cancellation is through (its StopCampaign has run),   *)
(* no worker lets another message of the campaign past its check, whatever *)
(* was queued or taken before and however the campaign came to its pipe.   *)
(* What still goes out afterwards is at most one message for each worker:  *)
(* the one whose check came first.                                         *)
StopPending(c) == \E a \in Admins : admin[a].camp = c /\ admin[a].pc = "stop"
NonePastCheckOncePaused ==
  [][\A w \in Workers :
       worker[w].pc = "taken" /\ worker'[w].pc = "sending"
         => LET c == pipe[worker[w].pipe].camp
            IN db[c].status \in {"paused", "cancelled"} => StopPending(c)]_vars

(* Every pipe is released in the end: whatever is stopped, overflows or    *)
(* fails, its WaitGroup reaches 0 and its campaign leaves m.pipes, so that *)
(* a later scan can pick the campaign up again.                            *)
PipeReleased == \A p \in Pipes : phase[p] = "wait" ~> phase[p] = "gone"

(* The manager implements CampaignSessions: the session of a campaign is   *)
(* the pipe that m.pipes names.                                            *)
SubsWith(c, fates) ==
  IF pipes[c] = NoPipe THEN {} ELSE {s \in Subs : fate[pipes[c]][s] \in fates}

Sessions == INSTANCE CampaignSessions WITH
  session <- [c \in Campaigns |->
                IF pipes[c] = NoPipe THEN "closed"
                ELSE IF phase[pipes[c]] = "wait" THEN "open" ELSE "settling"],
  stop <- [c \in Campaigns |-> pipes[c] # NoPipe /\ pipe[pipes[c]].stopped],
  pending <- [c \in Campaigns |-> SubsWith(c, Undone \cup {"fetched"})],
  served <- [c \in Campaigns |-> SubsWith(c, {"sent", "failed", "skipped"})],
  dropped <- [c \in Campaigns |-> SubsWith(c, {"dropped"})]

ImplementsSessions == Sessions!Spec

(* guides/campaigns.md:87: a running campaign can be paused and resumed    *)
(* later: a subscriber whose message a stopped pipe dropped has been       *)
(* handled by a later pipe when the campaign is finished.                  *)
DroppedAreResumed ==
  \A p \in Pipes, s \in Subs :
    LET c == pipe[p].camp
    IN fate[p][s] = "dropped" /\ db[c].status = "finished" /\ pipes[c] = NoPipe
         => \E q \in Pipes : /\ pipe[q].camp = c
                             /\ fate[q][s] \in {"sent", "failed", "skipped"}
=============================================================================
