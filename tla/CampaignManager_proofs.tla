------------------------ MODULE CampaignManager_proofs ------------------------
(***************************************************************************)
(* Proofs about CampaignManager for every value of its constants.  The     *)
(* invariants the runs check are not inductive: that cleanup starts on a   *)
(* drained pipe only follows from what its WaitGroup counts, and that      *)
(* needs messages not to be in two places, one pipe per campaign, and a    *)
(* checkpoint that no second pipe moves back meanwhile.  IInv says all     *)
(* that.                                                                   *)
(***************************************************************************)
EXTENDS CampaignManager, FiniteSetTheorems, TLAPS

-----------------------------------------------------------------------------
(* The inductive invariant.                                                *)

UndoneSubs(p) == {s \in Subs : fate[p][s] \in Undone}

(* The WaitGroup counts the messages not done with, and one more while the *)
(* pipe waits for a batch or is served.                                    *)
Accounted(p) == wg[p] = Cardinality(UndoneSubs(p)) + IF Held(p) THEN 1 ELSE 0
Accounting == \A p \in Pipes : Accounted(p)

(* Only a pipe that waits has something to wait for.                       *)
OnlyWaiting == \A p \in Pipes : phase[p] # "wait" => wg[p] = 0

(* A pipe is in one place at most.                                         *)
OneToken ==
  /\ \A i, j \in DOMAIN nextPipes : nextPipes[i] = nextPipes[j] => i = j
  /\ \A i \in DOMAIN nextPipes : nextPipes[i] # runner.pipe
  /\ runner.batch # {} => runner.pipe \in Pipes

(* A request that is past its check asks something of a campaign.          *)
Asking ==
  \A a \in Admins : admin[a].pc # "idle" => /\ admin[a].camp \in Campaigns
                                            /\ admin[a].req \in Requests

(* A message is in one place, the one its fate names.                      *)
Fetched ==
  /\ \A s \in runner.batch : fate[runner.pipe][s] = "fetched"
  /\ \A p \in Pipes, s \in Subs :
       fate[p][s] = "fetched" => runner.pipe = p /\ s \in runner.batch

Queued ==
  /\ \A i \in DOMAIN campMsgQ : fate[campMsgQ[i].pipe][campMsgQ[i].sub] = "queued"
  /\ \A i, j \in DOMAIN campMsgQ : campMsgQ[i] = campMsgQ[j] => i = j

Busy(w) == worker[w].pc \in {"taken", "sending", "pushed", "refused"}
Working ==
  /\ \A w \in Workers : worker[w].pc # "idle" => /\ worker[w].pipe \in Pipes
                                                 /\ worker[w].sub \in Subs
  /\ \A w \in Workers :
       Busy(w) => fate[worker[w].pipe][worker[w].sub] = worker[w].pc
  /\ \A v, w \in Workers :
       /\ Busy(v) /\ Busy(w)
       /\ worker[v].pipe = worker[w].pipe /\ worker[v].sub = worker[w].sub
       => v = w

(* A pipe belongs to the campaign that m.pipes lists it under.             *)
Owned ==
  /\ \A p \in Pipes : Live(p) => pipe[p].camp \in Campaigns
  /\ \A c \in Campaigns :
       pipes[c] # NoPipe => Live(pipes[c]) /\ pipe[pipes[c]].camp = c
  /\ \A p \in Pipes : phase[p] = "new" => \A s \in Subs : fate[p][s] = "none"

(* What the scanner is about to launch has no pipe.                        *)
ScanFresh ==
  /\ \A c \in scan.found : pipes[c] = NoPipe /\ TenantOf[c] \notin scan.tenants
  /\ \A c \in Campaigns \ scan.ids :
       TenantOf[c] \in scan.tenants => pipes[c] = NoPipe

(* Whom a pipe has fetched is not ahead of its campaign's checkpoint.      *)
Checkpoint ==
  \A p \in Pipes, s \in Subs :
    phase[p] = "wait" /\ fate[p][s] # "none" => s <= db[pipe[p].camp].last

(* Only a stopped pipe drops, and a stopped pipe that drained does not     *)
(* finish its campaign.                                                    *)
Dropping ==
  /\ \A p \in Pipes, s \in Subs :
       fate[p][s] = "dropped" => pipe[p].stopped \/ phase[p] = "gone"
  /\ \A p \in Pipes, s \in Subs :
       phase[p] \in {"status", "finish"} => fate[p][s] # "dropped"

(* A pipe with messages, whose campaign was paused or cancelled, is        *)
(* stopped or about to be.                                                 *)
Stopping ==
  \A p \in Pipes, s \in Subs :
    /\ phase[p] = "wait"
    /\ fate[p][s] # "none"
    /\ db[pipe[p].camp].status \in {"paused", "cancelled"}
    => pipe[p].stopped \/ StopPending(pipe[p].camp)

IInv ==
  /\ TypeOK /\ Asking
  /\ Accounting /\ OnlyWaiting /\ OneToken
  /\ Fetched /\ Queued /\ Working
  /\ OnePipePerCampaign /\ Owned /\ ScanFresh
  /\ Checkpoint /\ Dropping /\ Stopping

-----------------------------------------------------------------------------
(* What the parts of the invariant say together.                           *)

(* The undone subscribers of a pipe are finitely many.                     *)
LEMMA UndoneFinite ==
  ASSUME NEW p \in Pipes
  PROVE  /\ IsFiniteSet(UndoneSubs(p))
         /\ Cardinality(UndoneSubs(p)) \in Nat
BY ConstantsAssumption, FS_Subset, FS_CardinalityType DEF UndoneSubs

(* A pipe that is held, or has an undone message, waits on a count.        *)
LEMMA HeldWaits ==
  ASSUME IInv, NEW p \in Pipes, Held(p)
  PROVE  wg[p] \in Nat \ {0} /\ phase[p] = "wait"
<1>1. wg[p] = Cardinality(UndoneSubs(p)) + 1
  BY DEF IInv, Accounting, Accounted
<1> QED
  BY <1>1, UndoneFinite DEF IInv, OnlyWaiting

(* A pipe with an undone message waits on a count (pipe.newMessage).       *)
LEMMA UndoneWaits ==
  ASSUME IInv, NEW p \in Pipes, NEW s \in Subs, fate[p][s] \in Undone
  PROVE  wg[p] \in Nat \ {0} /\ phase[p] = "wait"
<1>1. Cardinality(UndoneSubs(p)) # 0
  BY UndoneFinite, FS_EmptySet DEF UndoneSubs
<1>2. wg[p] = Cardinality(UndoneSubs(p)) \/ wg[p] = Cardinality(UndoneSubs(p)) + 1
  BY UndoneFinite DEF IInv, Accounting, Accounted
<1> QED
  BY <1>1, <1>2, UndoneFinite DEF IInv, OnlyWaiting

(* Deciding on a subscriber changes the undone ones of its pipe by it.     *)
LEMMA MarkCounts ==
  ASSUME TypeOK, NEW p \in Pipes, NEW s \in Subs, NEW f \in Fates, Mark(p, s, f)
  PROVE  /\ fate' \in [Pipes -> [Subs -> Fates]]
         /\ \A q \in Pipes, t \in Subs :
              fate'[q][t] = IF q = p /\ t = s THEN f ELSE fate[q][t]
         /\ \A q \in Pipes \ {p} : UndoneSubs(q)' = UndoneSubs(q)
         /\ Cardinality(UndoneSubs(p)') =
              Cardinality(UndoneSubs(p))
                + (IF f \in Undone THEN 1 ELSE 0)
                - (IF fate[p][s] \in Undone THEN 1 ELSE 0)
<1>1. fate' \in [Pipes -> [Subs -> Fates]]
  BY DEF TypeOK, FateOK, Mark
<1>2. \A q \in Pipes, t \in Subs :
        fate'[q][t] = IF q = p /\ t = s THEN f ELSE fate[q][t]
  BY DEF TypeOK, FateOK, Mark
<1>3. \A q \in Pipes \ {p} : UndoneSubs(q)' = UndoneSubs(q)
  BY <1>2 DEF UndoneSubs
<1>4. UndoneSubs(p)' = IF f \in Undone THEN UndoneSubs(p) \cup {s}
                       ELSE UndoneSubs(p) \ {s}
  BY <1>2 DEF UndoneSubs
<1>5. s \in UndoneSubs(p) <=> fate[p][s] \in Undone
  BY DEF UndoneSubs
<1>6. Cardinality(UndoneSubs(p)') =
        Cardinality(UndoneSubs(p))
          + (IF f \in Undone THEN 1 ELSE 0)
          - (IF fate[p][s] \in Undone THEN 1 ELSE 0)
  <2>1. IsFiniteSet(UndoneSubs(p)) /\ Cardinality(UndoneSubs(p)) \in Nat
    BY UndoneFinite
  <2>2. CASE f \in Undone
    <3>1. Cardinality(UndoneSubs(p)') =
            IF s \in UndoneSubs(p) THEN Cardinality(UndoneSubs(p))
                                   ELSE Cardinality(UndoneSubs(p)) + 1
      BY <1>4, <2>1, <2>2, FS_AddElement
    <3> QED
      BY <1>5, <2>1, <2>2, <3>1
  <2>3. CASE f \notin Undone
    <3>1. Cardinality(UndoneSubs(p)') =
            IF s \in UndoneSubs(p) THEN Cardinality(UndoneSubs(p)) - 1
                                   ELSE Cardinality(UndoneSubs(p))
      BY <1>4, <2>1, <2>3, FS_RemoveElement
    <3> QED
      BY <1>5, <2>1, <2>3, <3>1
  <2> QED
    BY <2>2, <2>3
<1> QED
  BY <1>1, <1>2, <1>3, <1>6

(* The counts hold on when none of what they count changes.                *)
LEMMA SameCounts ==
  ASSUME Accounting, UNCHANGED <<wg, fate, nextPipes>>, runner'.pipe = runner.pipe
  PROVE  Accounting'
<1>1. \A p \in Pipes : UndoneSubs(p)' = UndoneSubs(p)
  BY DEF UndoneSubs
<1>2. \A p \in Pipes : Held(p)' <=> Held(p)
  BY DEF Held
<1> QED
  BY <1>1, <1>2 DEF Accounting, Accounted

(* A step that moves no message and no pipe: those parts hold on.          *)
LEMMA QuietStep ==
  ASSUME IInv,
         UNCHANGED <<pipes, wg, phase, fate, nextPipes, campMsgQ, runner>>,
         \A p \in Pipes : /\ pipe'[p].camp = pipe[p].camp
                          /\ pipe[p].stopped => pipe'[p].stopped
  PROVE  /\ Accounting' /\ OnlyWaiting' /\ OneToken' /\ Fetched' /\ Queued'
         /\ OnePipePerCampaign' /\ Owned' /\ Dropping'
<1>1. Accounting'
  BY SameCounts DEF IInv
<1>2. OnlyWaiting' /\ OneToken' /\ Fetched' /\ Queued'
  BY DEF IInv, OnlyWaiting, OneToken, Fetched, Queued
<1>3. OnePipePerCampaign' /\ Owned'
  BY DEF IInv, TypeOK, PipesOK, OnePipePerCampaign, Owned, Live
<1>4. Dropping'
  <2>1. \A p \in Pipes, s \in Subs :
          fate'[p][s] = "dropped" => pipe'[p].stopped \/ phase'[p] = "gone"
    BY DEF IInv, Dropping
  <2>2. \A p \in Pipes, s \in Subs :
          phase'[p] \in {"status", "finish"} => fate'[p][s] # "dropped"
    BY DEF IInv, Dropping
  <2> QED
    BY <2>1, <2>2 DEF Dropping
<1> QED
  BY <1>1, <1>2, <1>3, <1>4

-----------------------------------------------------------------------------
(* The initial states.                                                     *)
LEMMA InitHolds == Init => IInv
<1> SUFFICES ASSUME Init PROVE IInv
  OBVIOUS
<1>1. TypeOK /\ Asking
  <2>1. DbOK /\ PipesOK /\ PipeOK
    BY ConstantsAssumption DEF Init, DbOK, PipesOK, PipeOK, Statuses
  <2>2. WaitOK /\ FateOK /\ ChansOK
    BY ConstantsAssumption DEF Init, WaitOK, FateOK, ChansOK, Phases, Fates
  <2>3. RunnerOK /\ ScanOK /\ WorkerOK
    BY DEF Init, RunnerOK, ScanOK, WorkerOK, IdleRunner, IdleScan, IdleWorker
  <2>4. AdminOK /\ BudgetOK /\ Asking
    BY DEF Init, AdminOK, BudgetOK, Asking, IdleAdmin
  <2> QED
    BY <2>1, <2>2, <2>3, <2>4 DEF TypeOK
<1>2. \A p \in Pipes : UndoneSubs(p) = {} /\ ~Held(p)
  <2>1. \A p \in Pipes : UndoneSubs(p) = {}
    BY DEF Init, UndoneSubs, Undone
  <2>2. \A p \in Pipes : ~Held(p)
    BY ConstantsAssumption DEF Init, Held, IdleRunner
  <2> QED
    BY <2>1, <2>2
<1>3. Accounting
  <2>1. \A p \in Pipes : wg[p] = 0 /\ Cardinality(UndoneSubs(p)) = 0
    BY <1>2, FS_EmptySet DEF Init
  <2> QED
    BY <1>2, <2>1 DEF Accounting, Accounted
<1>4. OnlyWaiting /\ OneToken /\ Fetched /\ Queued /\ Working
  BY DEF Init, OnlyWaiting, OneToken, Fetched, Queued, Working, Busy, IdleRunner,
         IdleWorker
<1>5. OnePipePerCampaign /\ Owned /\ ScanFresh
  BY DEF Init, OnePipePerCampaign, Owned, Live, Cleaning, ScanFresh, IdleScan
<1>6. Checkpoint /\ Dropping /\ Stopping
  BY DEF Init, Checkpoint, Dropping, Stopping
<1> QED
  BY <1>1, <1>3, <1>4, <1>5, <1>6 DEF IInv

-----------------------------------------------------------------------------
(* The requests.                                                           *)

(* The checks of a status request (core.UpdateCampaignStatus) touch        *)
(* nothing but the request.                                                *)
LEMMA AdminCheckKeeps ==
  ASSUME IInv, NEW a \in Admins, NEW c \in Campaigns, NEW req \in Requests,
         AdminCheck(a, c, req)
  PROVE  IInv'
<1> USE DEF AdminCheck, pipeVars, chanVars
<1>1. AdminOK' /\ Asking'
  BY DEF IInv, TypeOK, AdminOK, Asking
<1>2. BudgetOK'
  BY DEF IInv, TypeOK, BudgetOK
<1>3. TypeOK'
  BY <1>1, <1>2
  DEF IInv, TypeOK, DbOK, PipesOK, PipeOK, WaitOK, FateOK, ChansOK, RunnerOK, ScanOK,
      WorkerOK
<1>4. Working' /\ ScanFresh' /\ Checkpoint'
  BY DEF IInv, Working, Busy, ScanFresh, Checkpoint
<1>5. Stopping'
  <2>1. \A d \in Campaigns : StopPending(d) => StopPending(d)'
    BY DEF IInv, TypeOK, AdminOK, StopPending
  <2> QED
    BY <2>1 DEF IInv, Stopping, Owned, Live
<1> QED
  BY <1>1, <1>3, <1>4, <1>5, QuietStep DEF IInv

(* A status written by a request leaves the stop of a pause pending,       *)
(* whatever the pipe is doing.                                             *)
LEMMA AdminWriteKeeps ==
  ASSUME IInv, NEW a \in Admins, AdminWrite(a)
  PROVE  IInv'
<1> USE DEF AdminWrite, pipeVars, chanVars
<1>1. Target(admin[a].req) \in Statuses
  BY ConstantsAssumption DEF IInv, Asking, Target, Statuses
<1>2. DbOK'
  <2>1. PICK s \in Statuses : db' = [db EXCEPT ![admin[a].camp].status = s]
    BY <1>1 DEF Statuses
  <2>2. \A c \in Campaigns :
          db'[c] \in [status : Statuses, sent : Nat, last : Nat,
                      reason : {"none", "too_many_errors", "scrub"}]
    BY <2>1 DEF IInv, TypeOK, DbOK
  <2> QED
    BY <2>1, <2>2 DEF IInv, TypeOK, DbOK
<1>3. AdminOK' /\ Asking'
  BY DEF IInv, TypeOK, AdminOK, Asking
<1>4. TypeOK'
  BY <1>2, <1>3
  DEF IInv, TypeOK, PipesOK, PipeOK, WaitOK, FateOK, ChansOK, RunnerOK, ScanOK,
      WorkerOK, BudgetOK
<1>5. Working' /\ ScanFresh'
  BY DEF IInv, Working, Busy, ScanFresh
<1>6. Checkpoint'
  <2>1. \A c \in Campaigns : db'[c].last = db[c].last
    BY DEF IInv, TypeOK, DbOK
  <2> QED
    BY <2>1 DEF IInv, Checkpoint, Owned, Live
<1>7. Stopping'
  <2> SUFFICES ASSUME NEW p \in Pipes, NEW s \in Subs,
                      phase[p] = "wait", fate[p][s] # "none",
                      db'[pipe[p].camp].status \in {"paused", "cancelled"},
                      ~pipe[p].stopped
               PROVE  StopPending(pipe[p].camp)'
    BY DEF Stopping
  <2>1. pipe[p].camp \in Campaigns
    BY DEF IInv, Owned, Live
  <2>2. CASE pipe[p].camp = admin[a].camp
    <3>1. Target(admin[a].req) \in {"paused", "cancelled"}
      BY <2>1, <2>2 DEF IInv, TypeOK, DbOK
    <3> QED
      BY <2>2, <3>1 DEF IInv, TypeOK, AdminOK, StopPending
  <2>3. CASE pipe[p].camp # admin[a].camp
    <3>1. StopPending(pipe[p].camp)
      BY <2>1, <2>3 DEF IInv, TypeOK, DbOK, Stopping
    <3> QED
      BY <2>3, <3>1 DEF IInv, TypeOK, AdminOK, StopPending
  <2> QED
    BY <2>2, <2>3
<1> QED
  BY <1>3, <1>4, <1>5, <1>6, <1>7, QuietStep DEF IInv

(* StopCampaign only marks a pipe stopped.                                 *)
LEMMA AdminStopKeeps ==
  ASSUME IInv, NEW a \in Admins, AdminStop(a)
  PROVE  IInv'
<1> USE DEF AdminStop, pipeVars, chanVars
<1> DEFINE Fields == [camp : Campaigns \cup {NoCampaign}, sent : Nat, lastID : Nat,
                      errors : Nat, stopped : BOOLEAN, withErrors : BOOLEAN]
<1>1. PipeOK' /\ \A p \in Pipes : /\ pipe'[p].camp = pipe[p].camp
                                  /\ pipe[p].stopped => pipe'[p].stopped
  <2>1. pipe \in [Pipes -> Fields]
    BY DEF IInv, TypeOK, PipeOK
  <2>2. \A r \in Fields : /\ StoppedPipe(r, FALSE) \in Fields
                         /\ StoppedPipe(r, FALSE).camp = r.camp
                         /\ StoppedPipe(r, FALSE).stopped
    <3> SUFFICES ASSUME NEW r \in Fields
                 PROVE  /\ StoppedPipe(r, FALSE) \in Fields
                        /\ StoppedPipe(r, FALSE).camp = r.camp
                        /\ StoppedPipe(r, FALSE).stopped
      OBVIOUS
    <3>1. CASE r.stopped
      BY <3>1 DEF StoppedPipe
    <3>2. CASE ~r.stopped
      <4>1. StoppedPipe(r, FALSE) = [r EXCEPT !.stopped = TRUE, !.withErrors = @ \/ FALSE]
        BY <3>2 DEF StoppedPipe
      <4> QED
        BY <4>1
    <3> QED
      BY <3>1, <3>2
  <2> HIDE DEF Fields
  <2>3. \/ pipe' = pipe
        \/ \E q : pipe' = [pipe EXCEPT ![q] = StoppedPipe(pipe[q], FALSE)]
    OBVIOUS
  <2>4. pipe' \in [Pipes -> Fields]
    BY <2>1, <2>2, <2>3
  <2>5. PipeOK'
    BY <2>4 DEF PipeOK, Fields
  <2>6. \A p \in Pipes : pipe'[p] = pipe[p] \/ pipe'[p] = StoppedPipe(pipe[p], FALSE)
    BY <2>1, <2>3
  <2> QED
    BY <2>1, <2>2, <2>5, <2>6
<1>2. AdminOK' /\ Asking'
  BY DEF IInv, TypeOK, AdminOK, Asking, IdleAdmin
<1>3. TypeOK'
  BY <1>1, <1>2
  DEF IInv, TypeOK, DbOK, PipesOK, WaitOK, FateOK, ChansOK, RunnerOK, ScanOK, WorkerOK,
      BudgetOK
<1>4. Working' /\ ScanFresh' /\ Checkpoint'
  BY <1>1 DEF IInv, Working, Busy, ScanFresh, Checkpoint
<1>5. Stopping'
  <2> SUFFICES ASSUME NEW p \in Pipes, NEW s \in Subs,
                      phase[p] = "wait", fate[p][s] # "none",
                      db[pipe[p].camp].status \in {"paused", "cancelled"},
                      ~pipe'[p].stopped
               PROVE  StopPending(pipe[p].camp)'
    BY <1>1 DEF Stopping
  <2>1. pipes[pipe[p].camp] = p
    BY DEF IInv, OnePipePerCampaign, Live
  <2>2. admin[a].camp # pipe[p].camp
    BY <2>1, ConstantsAssumption DEF IInv, TypeOK, PipeOK, StoppedPipe
  <2>3. StopPending(pipe[p].camp)
    BY <1>1 DEF IInv, Stopping
  <2> QED
    BY <1>1, <2>2, <2>3 DEF IInv, TypeOK, AdminOK, StopPending
<1> QED
  BY <1>1, <1>2, <1>3, <1>4, <1>5, QuietStep DEF IInv

(* Clearing or setting a pause reason changes no status.                   *)
LEMMA AdminReasonKeeps ==
  ASSUME IInv, NEW a \in Admins, AdminReason(a)
  PROVE  IInv'
<1> USE DEF AdminReason, pipeVars, chanVars
<1>1. DbOK' /\ \A c \in Campaigns : /\ db'[c].last = db[c].last
                                    /\ db'[c].status = db[c].status
  BY DEF IInv, TypeOK, DbOK, WithReason
<1>2. AdminOK' /\ Asking'
  BY DEF IInv, TypeOK, AdminOK, Asking, IdleAdmin
<1>3. TypeOK'
  BY <1>1, <1>2
  DEF IInv, TypeOK, PipesOK, PipeOK, WaitOK, FateOK, ChansOK, RunnerOK, ScanOK,
      WorkerOK, BudgetOK
<1>4. Working' /\ ScanFresh'
  BY DEF IInv, Working, Busy, ScanFresh
<1>5. Checkpoint'
  BY <1>1 DEF IInv, Owned, Live, Checkpoint
<1>6. Stopping'
  <2>1. \A c \in Campaigns : StopPending(c) => StopPending(c)'
    BY DEF IInv, TypeOK, AdminOK, StopPending
  <2> QED
    BY <1>1, <2>1 DEF IInv, Owned, Live, Stopping
<1> QED
  BY <1>2, <1>3, <1>4, <1>5, <1>6, QuietStep DEF IInv

-----------------------------------------------------------------------------
(* The scanner, up to the launch.                                          *)

(* A tick remembers the campaigns in flight and resets their sent counts.  *)
LEMMA ScanTickKeeps ==
  ASSUME IInv, ScanTick
  PROVE  IInv'
<1> USE DEF ScanTick, chanVars
<1>1. PipeOK' /\ \A p \in Pipes : /\ pipe'[p].camp = pipe[p].camp
                                  /\ pipe[p].stopped => pipe'[p].stopped
  BY DEF IInv, TypeOK, PipeOK
<1>2. ScanOK' /\ ScanFresh'
  <2> DEFINE current == {c \in Campaigns : pipes[c] # NoPipe}
             counters == {pipes[c] : c \in current}
  <2>1. \A c \in current : pipes[c] \in Pipes
    BY DEF IInv, TypeOK, PipesOK
  <2>2. \A p \in counters : pipe[p].sent \in Nat
    BY <2>1 DEF IInv, TypeOK, PipeOK
  <2>3. UNION {0..pipe[p].sent : p \in counters} \subseteq Nat
    BY <2>2
  <2>4. PICK active \in SUBSET Tenants,
             loaded \in [current -> UNION {0..pipe[p].sent : p \in counters}] :
          ScanGoesOn([IdleScan EXCEPT
            !.ids = current, !.tenants = active,
            !.counts = [c \in Campaigns |-> IF c \in current THEN loaded[c] ELSE 0]])
    OBVIOUS
  <2>5. [c \in Campaigns |-> IF c \in current THEN loaded[c] ELSE 0] \in [Campaigns -> Nat]
    BY <2>3
  <2> HIDE DEF counters
  <2>6. ScanOK'
    BY <2>4, <2>5 DEF ScanOK, ScanGoesOn, IdleScan
  <2>7. ScanFresh'
    BY <2>4 DEF ScanFresh, ScanGoesOn, IdleScan
  <2> QED
    BY <2>6, <2>7
<1>3. TypeOK'
  BY <1>1, <1>2
  DEF IInv, TypeOK, DbOK, PipesOK, WaitOK, FateOK, ChansOK, RunnerOK, WorkerOK,
      AdminOK, BudgetOK
<1>4. Asking' /\ Working' /\ Checkpoint'
  BY <1>1 DEF IInv, Asking, Working, Busy, Checkpoint
<1>5. Stopping'
  BY <1>1 DEF IInv, Stopping, StopPending
<1> QED
  BY <1>1, <1>2, <1>3, <1>4, <1>5, QuietStep DEF IInv

(* The campaigns a query picks have no pipe, and making them run leaves    *)
(* the pipes of others alone.                                              *)
LEMMA ScanQueryKeeps ==
  ASSUME IInv, NEW t \in Tenants, ScanQuery(t)
  PROVE  IInv'
<1> USE DEF ScanQuery, pipeVars, chanVars
<1>1. PICK due \in SUBSET Timed :
        LET picked == Startable(t, due)
        IN /\ ScanGoesOn([scan EXCEPT !.tenants = @ \ {t}, !.found = picked])
           /\ db' = [c \in Campaigns |->
                      IF c \in scan.ids /\ TenantOf[c] = t
                        THEN [db[c] EXCEPT !.sent = @ + scan.counts[c]]
                      ELSE IF c \in picked /\ Audience[c] # {}
                        THEN [db[c] EXCEPT !.status = "running"]
                      ELSE db[c]]
  OBVIOUS
<1>2. DbOK' /\ \A c \in Campaigns :
                 /\ db'[c].last = db[c].last
                 /\ db'[c].status = "running" \/ db'[c].status = db[c].status
  <2> HIDE DEF ScanQuery
  <2>1. scan.counts \in [Campaigns -> Nat]
    BY DEF IInv, TypeOK, ScanOK
  <2> QED
    BY <1>1, <2>1 DEF IInv, TypeOK, DbOK, Statuses
<1>3. ScanOK'
  BY <1>1 DEF IInv, TypeOK, ScanOK, ScanGoesOn, IdleScan, Startable
<1>4. ScanFresh'
  BY <1>1 DEF IInv, TypeOK, ScanOK, ScanFresh, ScanGoesOn, IdleScan, Startable
<1>5. TypeOK'
  BY <1>2, <1>3
  DEF IInv, TypeOK, PipesOK, PipeOK, WaitOK, FateOK, ChansOK, RunnerOK, WorkerOK,
      AdminOK, BudgetOK
<1>6. Asking' /\ Working'
  BY DEF IInv, Asking, Working, Busy
<1>7. Checkpoint'
  BY <1>2 DEF IInv, Owned, Live, Checkpoint
<1>8. Stopping'
  BY <1>2 DEF IInv, Owned, Live, Stopping, StopPending
<1> QED
  BY <1>4, <1>5, <1>6, <1>7, <1>8, QuietStep DEF IInv

(* A failing next-campaigns query only leaves a tenant out.                *)
LEMMA ScanQueryFailsKeeps ==
  ASSUME IInv, NEW t \in Tenants, ScanQueryFails(t)
  PROVE  IInv'
<1> USE DEF ScanQueryFails, pipeVars, chanVars
<1>1. ScanOK'
  BY DEF IInv, TypeOK, ScanOK, ScanGoesOn, IdleScan
<1>2. ScanFresh'
  BY DEF IInv, TypeOK, ScanOK, ScanFresh, ScanGoesOn, IdleScan
<1>3. BudgetOK'
  BY DEF IInv, TypeOK, BudgetOK, Fault
<1>4. TypeOK'
  BY <1>1, <1>3
  DEF IInv, TypeOK, DbOK, PipesOK, PipeOK, WaitOK, FateOK, ChansOK, RunnerOK, WorkerOK,
      AdminOK
<1>5. Asking' /\ Working' /\ Checkpoint'
  BY DEF IInv, Asking, Working, Busy, Checkpoint
<1>6. Stopping'
  BY DEF IInv, Stopping, StopPending
<1> QED
  BY <1>2, <1>4, <1>5, <1>6, QuietStep DEF IInv

(* A campaign that is cancelled at launch has no pipe to stop.             *)
LEMMA LaunchFailsKeeps ==
  ASSUME IInv, NEW c \in Campaigns, LaunchFails(c)
  PROVE  IInv'
<1> USE DEF LaunchFails, pipeVars, chanVars
<1>1. DbOK' /\ \A d \in Campaigns : /\ db'[d].last = db[d].last
                                    /\ d # c => db'[d].status = db[d].status
  BY DEF IInv, TypeOK, DbOK, Statuses
<1>2. ScanOK' /\ ScanFresh'
  BY DEF IInv, TypeOK, ScanOK, ScanFresh, ScanGoesOn, IdleScan
<1>3. BudgetOK'
  BY DEF IInv, TypeOK, BudgetOK, Fault
<1>4. TypeOK'
  BY <1>1, <1>2, <1>3
  DEF IInv, TypeOK, PipesOK, PipeOK, WaitOK, FateOK, ChansOK, RunnerOK, WorkerOK,
      AdminOK
<1>5. Asking' /\ Working'
  BY DEF IInv, Asking, Working, Busy
<1>6. Checkpoint'
  BY <1>1 DEF IInv, Owned, Live, Checkpoint
<1>7. Stopping'
  <2>1. \A p \in Pipes : phase[p] = "wait" => pipe[p].camp # c
    BY ConstantsAssumption DEF IInv, ScanFresh, OnePipePerCampaign, Live
  <2> QED
    BY <1>1, <2>1 DEF IInv, Owned, Live, Stopping, StopPending
<1> QED
  BY <1>2, <1>4, <1>5, <1>6, <1>7, QuietStep DEF IInv

-----------------------------------------------------------------------------
(* The accounting that a worker does after wg.Done.                        *)

PipeFields ==
  [camp : Campaigns \cup {NoCampaign}, sent : Nat, lastID : Nat, errors : Nat,
   stopped : BOOLEAN, withErrors : BOOLEAN]

(* OnError counts an error and may stop its pipe; it comes after wg.Done,  *)
(* so its pipe may be gone.                                                *)
LEMMA WorkerOnErrorKeeps ==
  ASSUME IInv, NEW w \in Workers, WorkerOnError(w)
  PROVE  IInv'
<1> DEFINE q == worker[w].pipe
           counted == [pipe[q] EXCEPT !.errors = @ + 1]
           next == IF MaxSendErrors = 0 THEN pipe[q]
                   ELSE IF counted.errors < MaxSendErrors THEN counted
                   ELSE StoppedPipe(counted, TRUE)
<1> UNCHANGED <<db, pipes, wg, phase, fate, nextPipes, campMsgQ, runner, scan, admin, budget>>
  BY DEF WorkerOnError, chanVars
<1>1. PipeOK' /\ \A p \in Pipes : /\ pipe'[p].camp = pipe[p].camp
                                  /\ pipe[p].stopped => pipe'[p].stopped
  <2>1. pipe' = [pipe EXCEPT ![q] = next] /\ q \in Pipes
    BY DEF WorkerOnError, IInv, Working
  <2>2. /\ counted \in PipeFields
        /\ counted.camp = pipe[q].camp
        /\ counted.stopped = pipe[q].stopped
    BY <2>1 DEF IInv, TypeOK, PipeOK, PipeFields
  <2> HIDE DEF counted
  <2>3. /\ next \in PipeFields
        /\ next.camp = pipe[q].camp
        /\ pipe[q].stopped => next.stopped
    BY <2>1, <2>2 DEF IInv, TypeOK, PipeOK, PipeFields, StoppedPipe
  <2> QED
    BY <2>1, <2>3 DEF IInv, TypeOK, PipeOK, PipeFields
<1>2. WorkerOK' /\ Working'
  BY DEF WorkerOnError, IInv, TypeOK, WorkerOK, Working, Busy, IdleWorker
<1> HIDE DEF next
<1>3. TypeOK'
  BY <1>1, <1>2
  DEF IInv, TypeOK, DbOK, PipesOK, WaitOK, FateOK, ChansOK, RunnerOK, ScanOK, AdminOK,
      BudgetOK
<1>4. Asking' /\ ScanFresh' /\ Checkpoint'
  BY <1>1 DEF IInv, Asking, ScanFresh, Checkpoint
<1>5. Stopping'
  BY <1>1 DEF IInv, Stopping, StopPending
<1> QED
  BY <1>1, <1>2, <1>3, <1>4, <1>5, QuietStep DEF IInv

(* The comparison with lastID changes the worker only.                     *)
LEMMA WorkerLoadLastKeeps ==
  ASSUME IInv, NEW w \in Workers, WorkerLoadLast(w)
  PROVE  IInv'
<1> USE DEF WorkerLoadLast, chanVars
<1>1. PipeOK' /\ \A p \in Pipes : /\ pipe'[p].camp = pipe[p].camp
                                  /\ pipe[p].stopped => pipe'[p].stopped
  BY DEF IInv, TypeOK, PipeOK, CountSent
<1>2. WorkerOK' /\ Working'
  BY DEF IInv, TypeOK, WorkerOK, Working, Busy, IdleWorker
<1>3. TypeOK'
  BY <1>1, <1>2
  DEF IInv, TypeOK, DbOK, PipesOK, WaitOK, FateOK, ChansOK, RunnerOK, ScanOK, AdminOK,
      BudgetOK
<1>4. Asking' /\ ScanFresh' /\ Checkpoint'
  BY <1>1 DEF IInv, Asking, ScanFresh, Checkpoint
<1>5. Stopping'
  BY <1>1 DEF IInv, Stopping, StopPending
<1> QED
  BY <1>1, <1>2, <1>3, <1>4, <1>5, QuietStep DEF IInv

(* Storing lastID and counting the message changes two fields of a pipe.   *)
LEMMA WorkerStoreLastKeeps ==
  ASSUME IInv, NEW w \in Workers, WorkerStoreLast(w)
  PROVE  IInv'
<1> DEFINE q == worker[w].pipe
           stored == [pipe[q] EXCEPT !.lastID = worker[w].sub]
           next == CountSent(stored)
<1> UNCHANGED <<db, pipes, wg, phase, fate, nextPipes, campMsgQ, runner, scan, admin, budget>>
  BY DEF WorkerStoreLast, chanVars
<1>1. q \in Pipes /\ worker[w].sub \in Nat
  <2>1. q \in Pipes /\ worker[w].sub \in Subs
    BY DEF WorkerStoreLast, IInv, Working
  <2> QED
    BY <2>1, ConstantsAssumption DEF Subs
<1>2. PipeOK' /\ \A p \in Pipes : /\ pipe'[p].camp = pipe[p].camp
                                  /\ pipe[p].stopped => pipe'[p].stopped
  <2>1. pipe' = [pipe EXCEPT ![q] = next]
    BY DEF WorkerStoreLast
  <2>2. /\ stored \in PipeFields
        /\ stored.camp = pipe[q].camp
        /\ stored.stopped = pipe[q].stopped
    BY <1>1 DEF IInv, TypeOK, PipeOK, PipeFields
  <2> HIDE DEF stored
  <2>3. /\ next \in PipeFields
        /\ next.camp = pipe[q].camp
        /\ pipe[q].stopped => next.stopped
    BY <2>2 DEF PipeFields, CountSent
  <2> QED
    BY <1>1, <2>1, <2>3 DEF IInv, TypeOK, PipeOK, PipeFields
<1> HIDE DEF next
<1>3. WorkerOK' /\ Working'
  BY DEF WorkerStoreLast, IInv, TypeOK, WorkerOK, Working, Busy, IdleWorker
<1>4. TypeOK'
  BY <1>2, <1>3
  DEF IInv, TypeOK, DbOK, PipesOK, WaitOK, FateOK, ChansOK, RunnerOK, ScanOK, AdminOK,
      BudgetOK
<1>5. Asking' /\ ScanFresh' /\ Checkpoint'
  BY <1>2 DEF IInv, Asking, ScanFresh, Checkpoint
<1>6. Stopping'
  BY <1>2 DEF IInv, Stopping, StopPending
<1> QED
  BY <1>2, <1>3, <1>4, <1>5, <1>6, QuietStep DEF IInv

-----------------------------------------------------------------------------

(* A step that moves one message on, and counts it as it leaves or enters  *)
(* the WaitGroup: all that is left to show is where the messages are.      *)
LEMMA MarkStep ==
  ASSUME IInv, NEW p \in Pipes, NEW s \in Subs, NEW f \in Fates \ {"none", "fetched"},
         Mark(p, s, f), fate[p][s] # "none", f = "dropped" => pipe[p].stopped,
         fate[p][s] \in Undone \/ phase[p] = "wait",
         wg'[p] = wg[p] + (IF f \in Undone THEN 1 ELSE 0)
                        - (IF fate[p][s] \in Undone THEN 1 ELSE 0),
         \A q \in Pipes \ {p} : wg'[q] = wg[q],
         UNCHANGED <<db, pipes, pipe, phase, nextPipes, admin>>,
         runner'.pipe = runner.pipe
  PROVE  /\ FateOK' /\ Accounting' /\ OnlyWaiting'
         /\ OnePipePerCampaign' /\ Owned' /\ Checkpoint' /\ Dropping' /\ Stopping'
         /\ \A q \in Pipes : wg'[q] \in Nat
         /\ \A q \in Pipes, t \in Subs :
              fate'[q][t] = IF q = p /\ t = s THEN f ELSE fate[q][t]
<1>1. /\ FateOK'
      /\ \A q \in Pipes, t \in Subs :
           fate'[q][t] = IF q = p /\ t = s THEN f ELSE fate[q][t]
  BY MarkCounts DEF IInv, FateOK
<1>2. phase[p] = "wait"
  BY UndoneWaits DEF IInv
<1>3. Accounting'
  <2>1. \A q \in Pipes : Held(q)' <=> Held(q)
    BY DEF Held
  <2>2. Accounted(p)'
    <3>1. Cardinality(UndoneSubs(p)') =
            Cardinality(UndoneSubs(p)) + (IF f \in Undone THEN 1 ELSE 0)
              - (IF fate[p][s] \in Undone THEN 1 ELSE 0)
      BY MarkCounts DEF IInv
    <3>2. wg[p] = Cardinality(UndoneSubs(p)) + IF Held(p) THEN 1 ELSE 0
      BY DEF IInv, Accounting, Accounted
    <3> QED
      BY <2>1, <3>1, <3>2, UndoneFinite DEF Accounted
  <2>3. \A q \in Pipes \ {p} : Accounted(q)'
    <3>1. \A q \in Pipes \ {p} : UndoneSubs(q)' = UndoneSubs(q)
      BY MarkCounts DEF IInv
    <3> QED
      BY <2>1, <3>1 DEF IInv, Accounting, Accounted
  <2> QED
    BY <2>2, <2>3 DEF Accounting
<1>4. OnlyWaiting'
  BY <1>2 DEF IInv, OnlyWaiting
<1>5. \A q \in Pipes : wg'[q] \in Nat
  <2>1. CASE fate[p][s] \in Undone
    BY <2>1, UndoneWaits DEF IInv, TypeOK, WaitOK
  <2>2. CASE fate[p][s] \notin Undone
    BY <2>2 DEF IInv, TypeOK, WaitOK
  <2> QED
    BY <2>1, <2>2
<1>6. OnePipePerCampaign' /\ Owned'
  BY <1>1, <1>2 DEF IInv, TypeOK, PipesOK, OnePipePerCampaign, Owned, Live
<1>7. Checkpoint'
  BY <1>1 DEF IInv, Checkpoint
<1>8. Dropping'
  <2>1. \A q \in Pipes, t \in Subs :
          fate'[q][t] = "dropped" => pipe'[q].stopped \/ phase'[q] = "gone"
    BY <1>1 DEF IInv, Dropping
  <2>2. \A q \in Pipes, t \in Subs :
          phase'[q] \in {"status", "finish"} => fate'[q][t] # "dropped"
    BY <1>1, <1>2 DEF IInv, Dropping
  <2> QED
    BY <2>1, <2>2 DEF Dropping
<1>9. Stopping'
  <2>1. \A q \in Pipes, t \in Subs : fate'[q][t] # "none" => fate[q][t] # "none"
    BY <1>1
  <2> QED
    BY <2>1 DEF IInv, Stopping, StopPending
<1> QED
  BY <1>1, <1>3, <1>4, <1>5, <1>6, <1>7, <1>8, <1>9

(* The head and the tail of a queue that holds something.                  *)
LEMMA HeadTail ==
  ASSUME NEW T, NEW q \in Seq(T), q # <<>>
  PROVE  /\ Head(q) = q[1] /\ Head(q) \in T /\ 1 \in DOMAIN q
         /\ Tail(q) \in Seq(T) /\ Len(Tail(q)) = Len(q) - 1
         /\ \A i \in DOMAIN Tail(q) : /\ i \in Nat \ {0} /\ i + 1 \in DOMAIN q
                                     /\ Tail(q)[i] = q[i + 1]
         /\ \A i \in DOMAIN q : i # 1 => /\ i - 1 \in DOMAIN Tail(q)
                                        /\ Tail(q)[i - 1] = q[i]
OBVIOUS

(* A queue with one more at its end.                                       *)
LEMMA AtEnd ==
  ASSUME NEW T, NEW q \in Seq(T), NEW x \in T
  PROVE  /\ Append(q, x) \in Seq(T) /\ Len(Append(q, x)) = Len(q) + 1
         /\ Len(q) + 1 \notin DOMAIN q /\ Append(q, x)[Len(q) + 1] = x
         /\ DOMAIN Append(q, x) = DOMAIN q \cup {Len(q) + 1}
         /\ \A i \in DOMAIN q : Append(q, x)[i] = q[i]
OBVIOUS

(* A worker takes the first message of campMsgQ: the message moves from    *)
(* one place to the other.                                                 *)
LEMMA WorkerTakeKeeps ==
  ASSUME IInv, NEW w \in Workers, WorkerTake(w)
  PROVE  IInv'
<1> DEFINE m == Head(campMsgQ)
           M == [pipe : Pipes, sub : Subs]
<1>0. campMsgQ \in Seq(M) /\ campMsgQ # <<>> /\ Len(campMsgQ) <= MsgQCap
  BY DEF WorkerTake, IInv, TypeOK, ChansOK
<1>a. \A i \in DOMAIN campMsgQ : campMsgQ[i] \in M
  <2> HIDE DEF M
  <2> QED
    BY <1>0
<1>1. /\ m = campMsgQ[1] /\ 1 \in DOMAIN campMsgQ
      /\ m \in M /\ m.pipe \in Pipes /\ m.sub \in Subs
  <2> HIDE DEF M
  <2>1. m = campMsgQ[1] /\ 1 \in DOMAIN campMsgQ /\ m \in M
    BY <1>0, HeadTail
  <2> QED
    BY <2>1 DEF M
<1>2. fate[m.pipe][m.sub] = "queued"
  BY <1>1 DEF IInv, Queued
<1>3. /\ worker[w].pc = "idle"
      /\ worker' = [worker EXCEPT ![w] = [pc |-> "taken", pipe |-> m.pipe, sub |-> m.sub]]
      /\ Mark(m.pipe, m.sub, "taken")
      /\ campMsgQ' = Tail(campMsgQ)
      /\ UNCHANGED <<db, pipes, pipe, wg, phase, nextPipes, runner, scan, admin, budget>>
  BY DEF WorkerTake
<1> HIDE DEF m
<1>4. /\ FateOK' /\ Accounting' /\ OnlyWaiting'
      /\ OnePipePerCampaign' /\ Owned' /\ Checkpoint' /\ Dropping' /\ Stopping'
      /\ \A q \in Pipes, t \in Subs :
           fate'[q][t] = IF q = m.pipe /\ t = m.sub THEN "taken" ELSE fate[q][t]
  <2>1. /\ "taken" \in Fates \ {"none", "fetched"} /\ "taken" \in Undone
        /\ fate[m.pipe][m.sub] \in Undone /\ fate[m.pipe][m.sub] # "none"
    BY <1>2 DEF Fates, Undone
  <2>2. wg'[m.pipe] = wg[m.pipe] + (IF "taken" \in Undone THEN 1 ELSE 0)
                        - (IF fate[m.pipe][m.sub] \in Undone THEN 1 ELSE 0)
    BY <1>1, <1>3, <2>1 DEF IInv, TypeOK, WaitOK
  <2>3. /\ \A q \in Pipes \ {m.pipe} : wg'[q] = wg[q]
        /\ UNCHANGED <<db, pipes, pipe, phase, nextPipes, admin>>
        /\ runner'.pipe = runner.pipe
        /\ Mark(m.pipe, m.sub, "taken")
    BY <1>3
  <2> QED
    BY <1>1, <2>1, <2>2, <2>3, MarkStep
<1>5. ChansOK' /\ WorkerOK'
  <2>1. campMsgQ' \in Seq(M) /\ Len(campMsgQ') <= MsgQCap
    <3> HIDE DEF M
    <3> QED
      BY <1>0, <1>3, HeadTail, ConstantsAssumption
  <2>2. ChansOK'
    BY <1>3, <2>1 DEF IInv, TypeOK, ChansOK
  <2>3. WorkerOK'
    BY <1>1, <1>3 DEF IInv, TypeOK, WorkerOK
  <2> QED
    BY <2>2, <2>3
<1>6. TypeOK'
  BY <1>3, <1>4, <1>5
  DEF IInv, TypeOK, DbOK, PipesOK, PipeOK, WaitOK, RunnerOK, ScanOK, AdminOK, BudgetOK
<1>7. Asking' /\ OneToken' /\ ScanFresh'
  BY <1>3 DEF IInv, Asking, OneToken, ScanFresh
<1>8. Fetched'
  BY <1>2, <1>3, <1>4 DEF IInv, TypeOK, RunnerOK, OneToken, Fetched
<1>9. Queued'
  <2>1. \A i \in DOMAIN campMsgQ' : /\ i \in Nat \ {0} /\ i + 1 \in DOMAIN campMsgQ
                                    /\ campMsgQ'[i] = campMsgQ[i + 1]
    <3> HIDE DEF M
    <3> QED
      BY <1>0, <1>3, HeadTail
  <2>2. \A i \in DOMAIN campMsgQ : campMsgQ[i] \in [pipe : Pipes, sub : Subs]
    BY <1>a
  <2>3. \A i \in DOMAIN campMsgQ :
          i # 1 => ~(campMsgQ[i].pipe = m.pipe /\ campMsgQ[i].sub = m.sub)
    BY <1>1, <2>2 DEF IInv, Queued
  <2>4. \A i \in DOMAIN campMsgQ' : fate'[campMsgQ'[i].pipe][campMsgQ'[i].sub] = "queued"
    BY <1>4, <2>1, <2>2, <2>3 DEF IInv, Queued
  <2>5. \A i, j \in DOMAIN campMsgQ' : campMsgQ'[i] = campMsgQ'[j] => i = j
    BY <2>1 DEF IInv, Queued
  <2> QED
    BY <2>4, <2>5 DEF Queued
<1>10. Working'
  <2>1. \A v \in Workers \ {w} : worker'[v] = worker[v]
    BY <1>3 DEF IInv, TypeOK, WorkerOK
  <2>2. worker'[w] = [pc |-> "taken", pipe |-> m.pipe, sub |-> m.sub]
    BY <1>3 DEF IInv, TypeOK, WorkerOK
  <2>3. \A v \in Workers :
          Busy(v) => ~(worker[v].pipe = m.pipe /\ worker[v].sub = m.sub)
    BY <1>2 DEF IInv, Working, Busy
  <2>4. \A v \in Workers : worker'[v].pc # "idle" => /\ worker'[v].pipe \in Pipes
                                                     /\ worker'[v].sub \in Subs
    BY <1>1, <2>1, <2>2 DEF IInv, Working
  <2>5. \A v \in Workers :
          Busy(v)' => fate'[worker'[v].pipe][worker'[v].sub] = worker'[v].pc
    BY <1>1, <1>4, <2>1, <2>2, <2>3 DEF IInv, Working, Busy
  <2>6. \A v, u \in Workers :
          /\ Busy(v)' /\ Busy(u)'
          /\ worker'[v].pipe = worker'[u].pipe /\ worker'[v].sub = worker'[u].sub
          => v = u
    BY <2>1, <2>2, <2>3 DEF IInv, Working, Busy
  <2> QED
    BY <2>4, <2>5, <2>6 DEF Working
<1> QED
  BY <1>4, <1>6, <1>7, <1>8, <1>9, <1>10 DEF IInv

WorkerFields ==
  [pc : {"idle", "taken", "sending", "pushed", "refused", "account", "store", "onerror"},
   pipe : Pipes \cup {NoPipe}, sub : Subs \cup {0}]

(* A worker moves its message on: to a fate of its own, and out of the     *)
(* WaitGroup unless it is undone still.                                    *)
LEMMA WorkerMarks ==
  ASSUME IInv, NEW w \in Workers, Busy(w),
         NEW f \in Fates \ {"none", "fetched", "queued"},
         NEW next \in WorkerFields, worker' = [worker EXCEPT ![w] = next],
         next.pc # "idle" => next.pipe = worker[w].pipe /\ next.sub = worker[w].sub,
         next.pc \in {"taken", "sending", "pushed", "refused"} => f = next.pc,
         Mark(worker[w].pipe, worker[w].sub, f),
         f = "dropped" => pipe[worker[w].pipe].stopped,
         wg' = [wg EXCEPT ![worker[w].pipe] = @ - IF f \in Undone THEN 0 ELSE 1],
         UNCHANGED <<db, pipes, pipe, phase, nextPipes, campMsgQ, runner, scan, admin,
                     budget>>
  PROVE  IInv'
<1> DEFINE p == worker[w].pipe
           s == worker[w].sub
<1>1. p \in Pipes /\ s \in Subs /\ fate[p][s] = worker[w].pc
  BY DEF IInv, Working, Busy
<1>2. fate[p][s] \in Undone /\ fate[p][s] # "none"
  BY <1>1 DEF Busy, Undone
<1> HIDE DEF p, s
<1>3. /\ FateOK' /\ Accounting' /\ OnlyWaiting'
      /\ OnePipePerCampaign' /\ Owned' /\ Checkpoint' /\ Dropping' /\ Stopping'
      /\ \A q \in Pipes : wg'[q] \in Nat
      /\ \A q \in Pipes, t \in Subs :
           fate'[q][t] = IF q = p /\ t = s THEN f ELSE fate[q][t]
  <2>1. wg'[p] = wg[p] + (IF f \in Undone THEN 1 ELSE 0)
                   - (IF fate[p][s] \in Undone THEN 1 ELSE 0)
    BY <1>1, <1>2 DEF IInv, TypeOK, WaitOK, p
  <2>2. \A q \in Pipes \ {p} : wg'[q] = wg[q]
    BY <1>1 DEF IInv, TypeOK, WaitOK, p
  <2>3. /\ Mark(p, s, f) /\ f \in Fates \ {"none", "fetched"}
        /\ f = "dropped" => pipe[p].stopped
        /\ runner'.pipe = runner.pipe
    BY DEF p, s
  <2> QED
    BY <1>1, <1>2, <2>1, <2>2, <2>3, MarkStep
<1>4. TypeOK'
  <2>1. WaitOK'
    BY <1>3 DEF IInv, TypeOK, WaitOK
  <2>2. WorkerOK'
    BY DEF IInv, TypeOK, WorkerOK, WorkerFields
  <2> QED
    BY <1>3, <2>1, <2>2
    DEF IInv, TypeOK, DbOK, PipesOK, PipeOK, ChansOK, RunnerOK, ScanOK, AdminOK, BudgetOK
<1>5. Asking' /\ OneToken' /\ ScanFresh'
  BY DEF IInv, Asking, OneToken, ScanFresh
<1>6. fate[p][s] \notin {"fetched", "queued"}
  BY <1>1 DEF Busy
<1>7. Fetched'
  BY <1>1, <1>3, <1>6 DEF IInv, TypeOK, RunnerOK, OneToken, Fetched
<1>8. Queued'
  <2> DEFINE M == [pipe : Pipes, sub : Subs]
  <2>1. \A i \in DOMAIN campMsgQ : campMsgQ[i] \in M
    <3>1. campMsgQ \in Seq(M)
      BY DEF IInv, TypeOK, ChansOK
    <3> HIDE DEF M
    <3> QED
      BY <3>1
  <2> QED
    BY <1>3, <1>6, <2>1 DEF IInv, Queued
<1>9. Working'
  <2>1. worker'[w] = next /\ \A v \in Workers \ {w} : worker'[v] = worker[v]
    BY DEF IInv, TypeOK, WorkerOK
  <2>2. \A v \in Workers \ {w} :
          Busy(v) => ~(worker[v].pipe = p /\ worker[v].sub = s)
    BY DEF IInv, Working, p, s
  <2>3. \A v \in Workers : worker'[v].pc # "idle" => /\ worker'[v].pipe \in Pipes
                                                     /\ worker'[v].sub \in Subs
    BY <1>1, <2>1 DEF IInv, Working, p, s
  <2>4. \A v \in Workers :
          Busy(v)' => fate'[worker'[v].pipe][worker'[v].sub] = worker'[v].pc
    BY <1>1, <1>3, <2>1, <2>2 DEF IInv, Working, Busy, p, s
  <2>5. \A v, u \in Workers :
          /\ Busy(v)' /\ Busy(u)'
          /\ worker'[v].pipe = worker'[u].pipe /\ worker'[v].sub = worker'[u].sub
          => v = u
    BY <2>1, <2>2 DEF IInv, Working, Busy, p, s
  <2> QED
    BY <2>3, <2>4, <2>5 DEF Working
<1> QED
  BY <1>3, <1>4, <1>5, <1>7, <1>8, <1>9 DEF IInv

(* A worker drops a message of a stopped pipe and releases its count.      *)
LEMMA WorkerDropKeeps ==
  ASSUME IInv, NEW w \in Workers, WorkerDrop(w)
  PROVE  IInv'
<1>1. /\ Busy(w) /\ pipe[worker[w].pipe].stopped
      /\ Mark(worker[w].pipe, worker[w].sub, "dropped")
      /\ wg' = [wg EXCEPT ![worker[w].pipe] = @ - 1]
      /\ worker' = [worker EXCEPT ![w] = IdleWorker]
      /\ UNCHANGED <<db, pipes, pipe, phase, nextPipes, campMsgQ, runner, scan, admin,
                     budget>>
  BY DEF WorkerDrop, Busy, Done, chanVars
<1>2. /\ "dropped" \in Fates \ {"none", "fetched", "queued"} /\ "dropped" \notin Undone
      /\ IdleWorker \in WorkerFields /\ IdleWorker.pc = "idle"
  BY DEF Fates, Undone, IdleWorker, WorkerFields
<1>3. wg' = [wg EXCEPT ![worker[w].pipe] = @ - IF "dropped" \in Undone THEN 0 ELSE 1]
  BY <1>1, <1>2
<1> QED
  BY <1>1, <1>2, <1>3, WorkerMarks

(* A worker moves its message on and keeps the count.                      *)
LEMMA WorkerAdvances ==
  ASSUME IInv, NEW w \in Workers, Busy(w),
         NEW outcome \in {"sending", "pushed", "refused"},
         Mark(worker[w].pipe, worker[w].sub, outcome),
         worker' = [worker EXCEPT ![w].pc = outcome],
         UNCHANGED <<db, pipes, pipe, wg, phase, nextPipes, campMsgQ, runner, scan,
                     admin, budget>>
  PROVE  IInv'
<1> DEFINE next == [worker[w] EXCEPT !.pc = outcome]
<1>1. worker[w].pipe \in Pipes
  BY DEF Busy, IInv, Working
<1>2. /\ outcome \in Fates \ {"none", "fetched", "queued"} /\ outcome \in Undone
      /\ outcome # "dropped"
  BY DEF Fates, Undone
<1>3. /\ next \in WorkerFields /\ next.pipe = worker[w].pipe /\ next.sub = worker[w].sub
      /\ next.pc = outcome /\ worker' = [worker EXCEPT ![w] = next]
  BY DEF IInv, TypeOK, WorkerOK, WorkerFields
<1>4. wg' = [wg EXCEPT ![worker[w].pipe] = @ - IF outcome \in Undone THEN 0 ELSE 1]
  BY <1>1, <1>2 DEF IInv, TypeOK, WaitOK
<1> HIDE DEF next
<1> QED
  BY <1>2, <1>3, <1>4, WorkerMarks

(* The worker's check of its pipe, and the push after it.                  *)
LEMMA WorkerPushKeeps ==
  ASSUME IInv, NEW w \in Workers, WorkerCheck(w) \/ WorkerPush(w)
  PROVE  IInv'
<1>1. CASE WorkerCheck(w)
  BY <1>1, WorkerAdvances DEF WorkerCheck, Busy, chanVars
<1>2. CASE WorkerPush(w)
  BY <1>2, WorkerAdvances DEF WorkerPush, Busy, chanVars
<1> QED
  BY <1>1, <1>2

(* wg.Done after a push: the message is decided and its count released.    *)
LEMMA WorkerDoneKeeps ==
  ASSUME IInv, NEW w \in Workers, WorkerDone(w)
  PROVE  IInv'
<1> DEFINE ok == worker[w].pc = "pushed"
           f == IF ok THEN "sent" ELSE "failed"
           next == [worker[w] EXCEPT !.pc = IF ok THEN "account" ELSE "onerror"]
<1>1. /\ Busy(w) /\ Mark(worker[w].pipe, worker[w].sub, f)
      /\ worker' = [worker EXCEPT ![w].pc = IF ok THEN "account" ELSE "onerror"]
      /\ wg' = [wg EXCEPT ![worker[w].pipe] = @ - 1]
      /\ UNCHANGED <<db, pipes, pipe, phase, nextPipes, campMsgQ, runner, scan, admin,
                     budget>>
  BY DEF WorkerDone, Busy, Done, chanVars
<1>2. f \in Fates \ {"none", "fetched", "queued"} /\ f \notin Undone /\ f # "dropped"
  BY DEF Fates, Undone
<1>3. /\ next \in WorkerFields /\ next.pipe = worker[w].pipe /\ next.sub = worker[w].sub
      /\ next.pc \in {"account", "onerror"} /\ worker' = [worker EXCEPT ![w] = next]
  BY <1>1 DEF IInv, TypeOK, WorkerOK, WorkerFields
<1>4. wg' = [wg EXCEPT ![worker[w].pipe] = @ - IF f \in Undone THEN 0 ELSE 1]
  BY <1>1, <1>2
<1> HIDE DEF f, next
<1> QED
  BY <1>1, <1>2, <1>3, <1>4, WorkerMarks

-----------------------------------------------------------------------------
(* The Run loop.                                                           *)

(* newMessage counts the message that the Run loop puts into campMsgQ.     *)
LEMMA EnqueueMessageKeeps ==
  ASSUME IInv, EnqueueMessage
  PROVE  IInv'
<1> DEFINE p == runner.pipe
           M == [pipe : Pipes, sub : Subs]
<1>1. PICK s \in runner.batch :
        /\ campMsgQ' = Append(campMsgQ, [pipe |-> p, sub |-> s])
        /\ Mark(p, s, "queued")
        /\ runner' = [runner EXCEPT !.batch = @ \ {s}]
  BY DEF EnqueueMessage
<1> DEFINE m == [pipe |-> p, sub |-> s]
<1>2. /\ Len(campMsgQ) < MsgQCap /\ wg' = [wg EXCEPT ![p] = @ + 1]
      /\ UNCHANGED <<db, pipes, pipe, phase, nextPipes, scan, worker, admin, budget>>
  BY DEF EnqueueMessage
<1>3. p \in Pipes /\ s \in Subs /\ fate[p][s] = "fetched" /\ runner.batch \subseteq Subs
  BY DEF IInv, TypeOK, RunnerOK, OneToken, Fetched
<1>4. phase[p] = "wait" /\ wg[p] \in Nat
  BY <1>3, HeldWaits DEF Held
<1>5. runner'.pipe = p /\ runner'.batch = runner.batch \ {s} /\ RunnerOK'
  BY <1>1 DEF IInv, TypeOK, RunnerOK
<1> HIDE DEF p
<1>6. /\ FateOK' /\ Accounting' /\ OnlyWaiting'
      /\ OnePipePerCampaign' /\ Owned' /\ Checkpoint' /\ Dropping' /\ Stopping'
      /\ \A q \in Pipes : wg'[q] \in Nat
      /\ \A q \in Pipes, t \in Subs :
           fate'[q][t] = IF q = p /\ t = s THEN "queued" ELSE fate[q][t]
  <2>1. /\ "queued" \in Fates \ {"none", "fetched"} /\ "queued" \in Undone
        /\ fate[p][s] \notin Undone /\ fate[p][s] # "none"
    BY <1>3 DEF Fates, Undone
  <2>2. /\ wg'[p] = wg[p] + (IF "queued" \in Undone THEN 1 ELSE 0)
                     - (IF fate[p][s] \in Undone THEN 1 ELSE 0)
        /\ \A q \in Pipes \ {p} : wg'[q] = wg[q]
    BY <1>2, <1>3, <2>1 DEF IInv, TypeOK, WaitOK
  <2>3. /\ UNCHANGED <<db, pipes, pipe, phase, nextPipes, admin>>
        /\ runner'.pipe = runner.pipe
    BY <1>2, <1>5 DEF p
  <2> QED
    BY <1>1, <1>3, <1>4, <2>1, <2>2, <2>3, MarkStep
<1>7. /\ campMsgQ \in Seq(M) /\ m \in M
      /\ \A i \in DOMAIN campMsgQ : campMsgQ[i] \in M
  <2>1. campMsgQ \in Seq(M) /\ m \in M
    BY <1>3 DEF IInv, TypeOK, ChansOK
  <2> HIDE DEF M
  <2> QED
    BY <2>1
<1>8. /\ campMsgQ' \in Seq(M) /\ Len(campMsgQ') <= MsgQCap
      /\ Len(campMsgQ) + 1 \notin DOMAIN campMsgQ /\ campMsgQ'[Len(campMsgQ) + 1] = m
      /\ DOMAIN campMsgQ' = DOMAIN campMsgQ \cup {Len(campMsgQ) + 1}
      /\ \A i \in DOMAIN campMsgQ : campMsgQ'[i] = campMsgQ[i]
  <2> HIDE DEF M, m
  <2>1. campMsgQ' = Append(campMsgQ, m)
    BY <1>1 DEF m
  <2> QED
    BY <1>2, <1>7, <2>1, AtEnd, ConstantsAssumption
<1>9. TypeOK'
  <2>1. WaitOK'
    BY <1>2, <1>6 DEF IInv, TypeOK, WaitOK
  <2>2. ChansOK'
    BY <1>2, <1>8 DEF IInv, TypeOK, ChansOK
  <2> QED
    BY <1>2, <1>5, <1>6, <2>1, <2>2
    DEF IInv, TypeOK, DbOK, PipesOK, PipeOK, ScanOK, WorkerOK, AdminOK, BudgetOK
<1>10. Asking' /\ ScanFresh'
  BY <1>2 DEF IInv, Asking, ScanFresh
<1>11. OneToken' /\ Fetched'
  BY <1>2, <1>3, <1>5, <1>6 DEF IInv, OneToken, Fetched, p
<1>12. Queued'
  <2>1. \A i \in DOMAIN campMsgQ : campMsgQ[i] # m
    BY <1>3 DEF IInv, Queued
  <2>2. \A i \in DOMAIN campMsgQ : ~(campMsgQ[i].pipe = p /\ campMsgQ[i].sub = s)
    BY <1>3 DEF IInv, Queued
  <2>3. \A i \in DOMAIN campMsgQ' : fate'[campMsgQ'[i].pipe][campMsgQ'[i].sub] = "queued"
    BY <1>3, <1>6, <1>7, <1>8, <2>2 DEF IInv, Queued
  <2>4. \A i, j \in DOMAIN campMsgQ' : campMsgQ'[i] = campMsgQ'[j] => i = j
    <3> HIDE DEF m
    <3> QED
      BY <1>8, <2>1 DEF IInv, Queued
  <2> QED
    BY <2>3, <2>4 DEF Queued
<1>13. Working'
  <2>1. \A v \in Workers : Busy(v) => ~(worker[v].pipe = p /\ worker[v].sub = s)
    BY <1>3 DEF IInv, Working, Busy
  <2> QED
    BY <1>2, <1>6, <2>1 DEF IInv, Working, Busy
<1> QED
  BY <1>6, <1>9, <1>10, <1>11, <1>12, <1>13 DEF IInv

(* A message that does not render is neither counted nor queued.           *)
LEMMA SkipUnrenderedKeeps ==
  ASSUME IInv, SkipUnrendered
  PROVE  IInv'
<1> DEFINE p == runner.pipe
           M == [pipe : Pipes, sub : Subs]
<1>1. PICK s \in runner.batch :
        /\ Mark(p, s, "skipped")
        /\ runner' = [runner EXCEPT !.batch = @ \ {s}]
  BY DEF SkipUnrendered
<1>2. UNCHANGED <<db, pipes, pipe, wg, phase, nextPipes, campMsgQ, scan, worker, admin>>
  BY DEF SkipUnrendered, chanVars
<1>3. p \in Pipes /\ s \in Subs /\ fate[p][s] = "fetched" /\ runner.batch \subseteq Subs
  BY DEF IInv, TypeOK, RunnerOK, OneToken, Fetched
<1>4. phase[p] = "wait" /\ wg[p] \in Nat
  BY <1>3, HeldWaits DEF Held
<1>5. runner'.pipe = p /\ runner'.batch = runner.batch \ {s} /\ RunnerOK'
  BY <1>1 DEF IInv, TypeOK, RunnerOK
<1> HIDE DEF p
<1>6. /\ FateOK' /\ Accounting' /\ OnlyWaiting'
      /\ OnePipePerCampaign' /\ Owned' /\ Checkpoint' /\ Dropping' /\ Stopping'
      /\ \A q \in Pipes, t \in Subs :
           fate'[q][t] = IF q = p /\ t = s THEN "skipped" ELSE fate[q][t]
  <2>1. /\ "skipped" \in Fates \ {"none", "fetched"} /\ "skipped" \notin Undone
        /\ fate[p][s] \notin Undone /\ fate[p][s] # "none"
    BY <1>3 DEF Fates, Undone
  <2>2. /\ wg'[p] = wg[p] + (IF "skipped" \in Undone THEN 1 ELSE 0)
                     - (IF fate[p][s] \in Undone THEN 1 ELSE 0)
        /\ \A q \in Pipes \ {p} : wg'[q] = wg[q]
    BY <1>2, <1>4, <2>1
  <2>3. /\ UNCHANGED <<db, pipes, pipe, phase, nextPipes, admin>>
        /\ runner'.pipe = runner.pipe
    BY <1>2, <1>5 DEF p
  <2> QED
    BY <1>1, <1>3, <1>4, <2>1, <2>2, <2>3, MarkStep
<1>7. BudgetOK'
  BY DEF SkipUnrendered, Fault, IInv, TypeOK, BudgetOK
<1>8. TypeOK'
  BY <1>2, <1>5, <1>6, <1>7
  DEF IInv, TypeOK, DbOK, PipesOK, PipeOK, WaitOK, ChansOK, ScanOK, WorkerOK, AdminOK
<1>9. Asking' /\ ScanFresh'
  BY <1>2 DEF IInv, Asking, ScanFresh
<1>10. OneToken' /\ Fetched'
  BY <1>2, <1>3, <1>5, <1>6 DEF IInv, OneToken, Fetched, p
<1>11. Queued'
  <2>1. campMsgQ \in Seq(M)
    BY DEF IInv, TypeOK, ChansOK
  <2>2. \A i \in DOMAIN campMsgQ : campMsgQ[i] \in M
    <3> HIDE DEF M
    <3> QED
      BY <2>1
  <2> QED
    BY <1>2, <1>3, <1>6, <2>2 DEF IInv, Queued
<1>12. Working'
  <2>1. \A v \in Workers : Busy(v) => ~(worker[v].pipe = p /\ worker[v].sub = s)
    BY <1>3 DEF IInv, Working, Busy
  <2> QED
    BY <1>2, <1>6, <2>1 DEF IInv, Working, Busy
<1> QED
  BY <1>6, <1>8, <1>9, <1>10, <1>11, <1>12 DEF IInv

(* A pipe is released: nothing holds it any more, and its count goes.      *)
LEMMA ReleaseStep ==
  ASSUME IInv, NEW p \in Pipes, Held(p), ~Held(p)',
         \A q \in Pipes \ {p} : Held(q)' <=> Held(q),
         wg' = [wg EXCEPT ![p] = @ - 1],
         UNCHANGED <<pipes, phase, fate>>,
         \A q \in Pipes : /\ pipe'[q].camp = pipe[q].camp
                          /\ pipe[q].stopped => pipe'[q].stopped
  PROVE  /\ Accounting' /\ OnlyWaiting' /\ WaitOK'
         /\ OnePipePerCampaign' /\ Owned' /\ Dropping'
<1>1. wg[p] \in Nat \ {0} /\ phase[p] = "wait"
  BY HeldWaits
<1>2. Accounting'
  <2>1. \A q \in Pipes : UndoneSubs(q)' = UndoneSubs(q)
    BY DEF UndoneSubs
  <2>2. wg[p] = Cardinality(UndoneSubs(p)) + 1
    BY DEF IInv, Accounting, Accounted
  <2>3. Accounted(p)'
    BY <1>1, <2>1, <2>2, UndoneFinite DEF IInv, TypeOK, WaitOK, Accounted
  <2>4. \A q \in Pipes \ {p} : Accounted(q)'
    BY <2>1 DEF IInv, TypeOK, WaitOK, Accounting, Accounted
  <2> QED
    BY <2>3, <2>4 DEF Accounting
<1>3. WaitOK'
  <2>1. wg \in [Pipes -> Nat] /\ phase \in [Pipes -> Phases]
    BY DEF IInv, TypeOK, WaitOK
  <2>2. wg[p] - 1 \in Nat
    BY <1>1
  <2>3. wg' \in [Pipes -> Nat]
    BY <2>1, <2>2
  <2> QED
    BY <2>1, <2>3 DEF WaitOK
<1>a. OnlyWaiting'
  BY <1>1 DEF IInv, TypeOK, WaitOK, OnlyWaiting
<1>4. OnePipePerCampaign' /\ Owned'
  BY DEF IInv, TypeOK, PipesOK, OnePipePerCampaign, Owned, Live
<1>5. Dropping'
  <2>1. \A q \in Pipes, s \in Subs :
          fate'[q][s] = "dropped" => pipe'[q].stopped \/ phase'[q] = "gone"
    BY DEF IInv, Dropping
  <2>2. \A q \in Pipes, s \in Subs :
          phase'[q] \in {"status", "finish"} => fate'[q][s] # "dropped"
    BY DEF IInv, Dropping
  <2> QED
    BY <2>1, <2>2 DEF Dropping
<1> QED
  BY <1>2, <1>3, <1>a, <1>4, <1>5

(* Stopping a pipe stops it, and leaves the rest of it as it was.          *)
LEMMA StopsPipe ==
  ASSUME IInv, NEW p \in Pipes, pipe' = [pipe EXCEPT ![p] = StoppedPipe(@, FALSE)]
  PROVE  /\ PipeOK'
         /\ \A q \in Pipes : /\ pipe'[q].camp = pipe[q].camp
                             /\ pipe[q].stopped => pipe'[q].stopped
<1> DEFINE next == StoppedPipe(pipe[p], FALSE)
<1>1. pipe[p] \in PipeFields
  BY DEF IInv, TypeOK, PipeOK, PipeFields
<1>2. /\ next \in PipeFields /\ next.camp = pipe[p].camp
      /\ pipe[p].stopped => next.stopped
  <2>1. CASE pipe[p].stopped
    BY <1>1, <2>1 DEF StoppedPipe
  <2>2. CASE ~pipe[p].stopped
    <3> DEFINE r == [pipe[p] EXCEPT !.stopped = TRUE]
    <3>1. r \in PipeFields /\ r.camp = pipe[p].camp /\ r.withErrors \in BOOLEAN
      BY <1>1 DEF PipeFields
    <3> HIDE DEF r
    <3>2. /\ [r EXCEPT !.withErrors = @ \/ FALSE] \in PipeFields
          /\ [r EXCEPT !.withErrors = @ \/ FALSE].camp = pipe[p].camp
      BY <3>1 DEF PipeFields
    <3>3. next = [r EXCEPT !.withErrors = @ \/ FALSE]
      BY <2>2 DEF StoppedPipe, r
    <3> QED
      BY <2>2, <3>2, <3>3
  <2> QED
    BY <2>1, <2>2
<1> HIDE DEF next
<1>3. pipe' = [pipe EXCEPT ![p] = next]
  BY DEF next
<1> QED
  BY <1>2, <1>3 DEF IInv, TypeOK, PipeOK, PipeFields

(* The pipe at the head of nextPipes is nowhere else, and taking it leaves *)
(* the others where they are.                                              *)
LEMMA TakeNextPipe ==
  ASSUME IInv, nextPipes # <<>>, runner.pipe = NoPipe, nextPipes' = Tail(nextPipes)
  PROVE  /\ Head(nextPipes) \in Pipes /\ Held(Head(nextPipes))
         /\ nextPipes' \in Seq(Pipes) /\ Len(nextPipes') <= NextPipesCap
         /\ \A i \in DOMAIN nextPipes' : nextPipes'[i] # Head(nextPipes)
         /\ \A i, j \in DOMAIN nextPipes' : nextPipes'[i] = nextPipes'[j] => i = j
         /\ \A q \in Pipes \ {Head(nextPipes)} :
              (\E i \in DOMAIN nextPipes' : nextPipes'[i] = q) <=> Held(q)
<1>1. nextPipes \in Seq(Pipes) /\ Len(nextPipes) <= NextPipesCap
  BY DEF IInv, TypeOK, ChansOK
<1>2. /\ Head(nextPipes) = nextPipes[1] /\ Head(nextPipes) \in Pipes
      /\ 1 \in DOMAIN nextPipes
      /\ nextPipes' \in Seq(Pipes) /\ Len(nextPipes') = Len(nextPipes) - 1
      /\ \A i \in DOMAIN nextPipes' : /\ i \in Nat \ {0} /\ i + 1 \in DOMAIN nextPipes
                                      /\ nextPipes'[i] = nextPipes[i + 1]
      /\ \A i \in DOMAIN nextPipes : i # 1 => /\ i - 1 \in DOMAIN nextPipes'
                                              /\ nextPipes'[i - 1] = nextPipes[i]
  BY <1>1, HeadTail
<1>3. Held(Head(nextPipes))
  BY <1>2 DEF Held
<1>4. Len(nextPipes') <= NextPipesCap
  BY <1>1, <1>2, ConstantsAssumption
<1>5. /\ \A i \in DOMAIN nextPipes' : nextPipes'[i] # Head(nextPipes)
      /\ \A i, j \in DOMAIN nextPipes' : nextPipes'[i] = nextPipes'[j] => i = j
  BY <1>2 DEF IInv, OneToken
<1>6. ASSUME NEW q \in Pipes \ {Head(nextPipes)}
      PROVE  (\E i \in DOMAIN nextPipes' : nextPipes'[i] = q) <=> Held(q)
  <2>1. Held(q) <=> \E i \in DOMAIN nextPipes : nextPipes[i] = q
    BY ConstantsAssumption DEF Held
  <2>2. ASSUME NEW i \in DOMAIN nextPipes, nextPipes[i] = q
        PROVE  \E j \in DOMAIN nextPipes' : nextPipes'[j] = q
    <3>1. i # 1
      BY <1>2, <2>2
    <3> QED
      BY <1>2, <2>2, <3>1
  <2>3. ASSUME NEW i \in DOMAIN nextPipes', nextPipes'[i] = q
        PROVE  \E j \in DOMAIN nextPipes : nextPipes[j] = q
    BY <1>2, <2>3
  <2> QED
    BY <2>1, <2>2, <2>3
<1> QED
  BY <1>2, <1>3, <1>4, <1>5, <1>6

(* A pipe without more subscribers leaves nextPipes and its pseudo count   *)
(* is released.                                                            *)
LEMMA FetchNothingKeeps ==
  ASSUME IInv, FetchNothing
  PROVE  IInv'
<1> PICK p \in {Head(nextPipes)} : TRUE
  OBVIOUS
<1>1. /\ nextPipes # <<>> /\ runner.pipe = NoPipe /\ nextPipes' = Tail(nextPipes)
      /\ wg' = [wg EXCEPT ![p] = @ - 1]
      /\ UNCHANGED <<db, pipes, pipe, phase, fate, campMsgQ, runner, scan, worker, admin,
                     budget>>
  BY DEF FetchNothing, Done
<1>2. /\ p \in Pipes /\ Held(p)
      /\ nextPipes' \in Seq(Pipes) /\ Len(nextPipes') <= NextPipesCap
      /\ \A i \in DOMAIN nextPipes' : nextPipes'[i] # p
      /\ \A i, j \in DOMAIN nextPipes' : nextPipes'[i] = nextPipes'[j] => i = j
      /\ \A q \in Pipes \ {p} : (\E i \in DOMAIN nextPipes' : nextPipes'[i] = q) <=> Held(q)
  BY <1>1, TakeNextPipe
<1>3. ~Held(p)' /\ \A q \in Pipes \ {p} : Held(q)' <=> Held(q)
  <2>1. runner'.pipe = NoPipe /\ NoPipe \notin Pipes
    BY <1>1, ConstantsAssumption
  <2>2. ~Held(p)'
    <3>1. Held(p)' <=> \E i \in DOMAIN nextPipes' : nextPipes'[i] = p
      BY <1>2, <2>1 DEF Held
    <3> QED
      BY <1>2, <3>1
  <2>3. ASSUME NEW q \in Pipes \ {p} PROVE Held(q)' <=> Held(q)
    <3>1. Held(q)' <=> \E i \in DOMAIN nextPipes' : nextPipes'[i] = q
      BY <2>1 DEF Held
    <3> QED
      BY <1>2, <3>1
  <2> QED
    BY <2>2, <2>3
<1>4. /\ Accounting' /\ OnlyWaiting' /\ WaitOK'
      /\ OnePipePerCampaign' /\ Owned' /\ Dropping'
  <2>1. /\ wg' = [wg EXCEPT ![p] = @ - 1] /\ UNCHANGED <<pipes, phase, fate>>
        /\ \A q \in Pipes : /\ pipe'[q].camp = pipe[q].camp
                            /\ pipe[q].stopped => pipe'[q].stopped
    BY <1>1
  <2> QED
    BY <1>2, <1>3, <2>1, ReleaseStep
<1>5. TypeOK'
  BY <1>1, <1>2, <1>4
  DEF IInv, TypeOK, DbOK, PipesOK, PipeOK, FateOK, ChansOK, RunnerOK, ScanOK, WorkerOK,
      AdminOK, BudgetOK
<1>6. OneToken'
  BY <1>1, <1>2, ConstantsAssumption DEF IInv, OneToken
<1>7. Asking' /\ Fetched' /\ Queued' /\ Working' /\ ScanFresh' /\ Checkpoint'
  BY <1>1 DEF IInv, Asking, Fetched, Queued, Working, Busy, ScanFresh, Checkpoint
<1>8. Stopping'
  BY <1>1 DEF IInv, Stopping, StopPending
<1> QED
  BY <1>4, <1>5, <1>6, <1>7, <1>8 DEF IInv

(* A pipe whose query failed is stopped and its pseudo count released.     *)
LEMMA FetchFailsKeeps ==
  ASSUME IInv, FetchFails
  PROVE  IInv'
<1> PICK p \in {Head(nextPipes)} : TRUE
  OBVIOUS
<1>1. /\ nextPipes # <<>> /\ runner.pipe = NoPipe /\ nextPipes' = Tail(nextPipes)
      /\ wg' = [wg EXCEPT ![p] = @ - 1]
      /\ pipe' = [pipe EXCEPT ![p] = StoppedPipe(@, FALSE)]
      /\ UNCHANGED <<db, pipes, phase, fate, campMsgQ, runner, scan, worker, admin>>
  BY DEF FetchFails, StopAndRelease, Done
<1>2. /\ p \in Pipes /\ Held(p)
      /\ nextPipes' \in Seq(Pipes) /\ Len(nextPipes') <= NextPipesCap
      /\ \A i \in DOMAIN nextPipes' : nextPipes'[i] # p
      /\ \A i, j \in DOMAIN nextPipes' : nextPipes'[i] = nextPipes'[j] => i = j
      /\ \A q \in Pipes \ {p} : (\E i \in DOMAIN nextPipes' : nextPipes'[i] = q) <=> Held(q)
  BY <1>1, TakeNextPipe
<1>3. ~Held(p)' /\ \A q \in Pipes \ {p} : Held(q)' <=> Held(q)
  <2>1. runner'.pipe = NoPipe /\ NoPipe \notin Pipes
    BY <1>1, ConstantsAssumption
  <2>2. ~Held(p)'
    <3>1. Held(p)' <=> \E i \in DOMAIN nextPipes' : nextPipes'[i] = p
      BY <1>2, <2>1 DEF Held
    <3> QED
      BY <1>2, <3>1
  <2>3. ASSUME NEW q \in Pipes \ {p} PROVE Held(q)' <=> Held(q)
    <3>1. Held(q)' <=> \E i \in DOMAIN nextPipes' : nextPipes'[i] = q
      BY <2>1 DEF Held
    <3> QED
      BY <1>2, <3>1
  <2> QED
    BY <2>2, <2>3
<1>4. PipeOK' /\ \A q \in Pipes : /\ pipe'[q].camp = pipe[q].camp
                                  /\ pipe[q].stopped => pipe'[q].stopped
  BY <1>1, <1>2, StopsPipe
<1>5. /\ Accounting' /\ OnlyWaiting' /\ WaitOK'
      /\ OnePipePerCampaign' /\ Owned' /\ Dropping'
  BY <1>1, <1>2, <1>3, <1>4, ReleaseStep
<1>6. BudgetOK'
  BY DEF FetchFails, Fault, IInv, TypeOK, BudgetOK
<1>7. TypeOK'
  BY <1>1, <1>2, <1>4, <1>5, <1>6
  DEF IInv, TypeOK, DbOK, PipesOK, FateOK, ChansOK, RunnerOK, ScanOK, WorkerOK, AdminOK
<1>8. OneToken'
  BY <1>1, <1>2, ConstantsAssumption DEF IInv, OneToken
<1>9. Asking' /\ Fetched' /\ Queued' /\ Working' /\ ScanFresh' /\ Checkpoint'
  BY <1>1, <1>4 DEF IInv, Asking, Fetched, Queued, Working, Busy, ScanFresh, Checkpoint
<1>10. Stopping'
  <2>1. UNCHANGED <<db, phase, fate, admin>>
    BY <1>1
  <2> QED
    BY <1>4, <2>1 DEF IInv, Stopping, StopPending
<1> QED
  BY <1>5, <1>7, <1>8, <1>9, <1>10 DEF IInv

(* A batch holds only subscribers that the pipe never had: they are ahead  *)
(* of the checkpoint, and whom it had is not.                              *)
LEMMA FetchBatchKeeps ==
  ASSUME IInv, FetchBatch
  PROVE  IInv'
<1> PICK p \in {Head(nextPipes)} : TRUE
  OBVIOUS
<1> PICK c \in {pipe[p].camp} : TRUE
  OBVIOUS
<1> PICK b \in {Batch(c)} : TRUE
  OBVIOUS
<1>1. PICK last \in b : /\ \A s \in b : s <= last
                        /\ db' = [db EXCEPT ![c].last = last]
  BY DEF FetchBatch
<1>2. /\ nextPipes # <<>> /\ runner.pipe = NoPipe /\ nextPipes' = Tail(nextPipes)
      /\ db[c].status = "running"
      /\ runner' = [pipe |-> p, batch |-> b]
      /\ fate' = [fate EXCEPT ![p] = [s \in Subs |-> IF s \in b THEN "fetched" ELSE @[s]]]
      /\ UNCHANGED <<pipes, pipe, wg, phase, campMsgQ, scan, worker, admin, budget>>
  BY DEF FetchBatch
<1>3. /\ p \in Pipes /\ Held(p)
      /\ nextPipes' \in Seq(Pipes) /\ Len(nextPipes') <= NextPipesCap
      /\ \A i \in DOMAIN nextPipes' : nextPipes'[i] # p
      /\ \A i, j \in DOMAIN nextPipes' : nextPipes'[i] = nextPipes'[j] => i = j
      /\ \A q \in Pipes \ {p} : (\E i \in DOMAIN nextPipes' : nextPipes'[i] = q) <=> Held(q)
  BY <1>2, TakeNextPipe
<1>4. phase[p] = "wait" /\ c \in Campaigns /\ pipes[c] = p
  <2>1. phase[p] = "wait"
    BY <1>3, HeldWaits
  <2> QED
    BY <1>3, <2>1 DEF IInv, Owned, OnePipePerCampaign, Live
<1>5. /\ b \subseteq Subs /\ b \subseteq Nat /\ last \in Nat
      /\ \A s \in b : s > db[c].last
  BY <1>4, ConstantsAssumption DEF Batch, Ahead, Subs
<1>6. db[c].last \in Nat /\ db[c].last <= last
  BY <1>1, <1>4, <1>5 DEF IInv, TypeOK, DbOK
<1>7. \A s \in b : fate[p][s] = "none"
  <2> SUFFICES ASSUME NEW s \in b, fate[p][s] # "none" PROVE FALSE
    OBVIOUS
  <2>1. s <= db[c].last /\ s > db[c].last /\ s \in Nat
    BY <1>3, <1>4, <1>5 DEF IInv, Checkpoint
  <2> QED
    BY <1>6, <2>1
<1>8. \A q \in Pipes, t \in Subs :
        fate'[q][t] = IF q = p /\ t \in b THEN "fetched" ELSE fate[q][t]
  BY <1>2, <1>3 DEF IInv, TypeOK, FateOK
<1>9. TypeOK'
  <2>1. DbOK'
    BY <1>1, <1>4, <1>5 DEF IInv, TypeOK, DbOK
  <2>2. FateOK'
    BY <1>2, <1>3 DEF IInv, TypeOK, FateOK, Fates
  <2>3. ChansOK' /\ RunnerOK'
    BY <1>2, <1>3, <1>5 DEF IInv, TypeOK, ChansOK, RunnerOK
  <2> QED
    BY <1>2, <2>1, <2>2, <2>3
    DEF IInv, TypeOK, PipesOK, PipeOK, WaitOK, ScanOK, WorkerOK, AdminOK, BudgetOK
<1>10. Accounting' /\ OnlyWaiting'
  <2>1. \A q \in Pipes : UndoneSubs(q)' = UndoneSubs(q)
    BY <1>7, <1>8 DEF UndoneSubs, Undone
  <2>2. runner'.pipe = p
    BY <1>2
  <2>3. \A q \in Pipes : Held(q)' <=> Held(q)
    <3>1. Held(p)'
      BY <2>2 DEF Held
    <3>2. ASSUME NEW q \in Pipes \ {p} PROVE Held(q)' <=> Held(q)
      <4>1. Held(q)' <=> \E i \in DOMAIN nextPipes' : nextPipes'[i] = q
        BY <2>2 DEF Held
      <4> QED
        BY <1>3, <4>1
    <3> QED
      BY <1>3, <3>1, <3>2
  <2>4. UNCHANGED <<wg, phase>>
    BY <1>2
  <2> QED
    BY <2>1, <2>3, <2>4 DEF IInv, Accounting, Accounted, OnlyWaiting
<1>11. OneToken'
  BY <1>2, <1>3 DEF OneToken
<1>12. Fetched'
  <2>1. \A q \in Pipes, t \in Subs : fate[q][t] # "fetched"
    BY <1>2, ConstantsAssumption DEF IInv, Fetched
  <2> QED
    BY <1>2, <1>3, <1>5, <1>8, <2>1 DEF Fetched
<1>13. Queued'
  <2> DEFINE M == [pipe : Pipes, sub : Subs]
  <2>1. campMsgQ \in Seq(M)
    BY DEF IInv, TypeOK, ChansOK
  <2>2. \A i \in DOMAIN campMsgQ : campMsgQ[i] \in M
    <3> HIDE DEF M
    <3> QED
      BY <2>1
  <2>3. \A i \in DOMAIN campMsgQ : ~(campMsgQ[i].pipe = p /\ campMsgQ[i].sub \in b)
    BY <1>7 DEF IInv, Queued
  <2> QED
    BY <1>2, <1>8, <2>2, <2>3 DEF IInv, Queued
<1>14. Working'
  <2>1. \A v \in Workers : Busy(v) => ~(worker[v].pipe = p /\ worker[v].sub \in b)
    BY <1>7 DEF IInv, Working, Busy
  <2> QED
    BY <1>2, <1>8, <2>1 DEF IInv, Working, Busy
<1>15. Asking' /\ ScanFresh' /\ OnePipePerCampaign'
  BY <1>2 DEF IInv, Asking, ScanFresh, OnePipePerCampaign, Live
<1>16. Owned'
  BY <1>2, <1>4, <1>8 DEF IInv, TypeOK, PipesOK, Owned, Live
<1>17. \A q \in Pipes \ {p} : phase[q] = "wait" => pipe[q].camp # c
  BY <1>4 DEF IInv, OnePipePerCampaign, Live
<1>18. Checkpoint'
  <2> SUFFICES ASSUME NEW q \in Pipes, NEW s \in Subs,
                      phase[q] = "wait", fate'[q][s] # "none"
               PROVE  s <= db'[pipe[q].camp].last
    BY <1>2 DEF Checkpoint
  <2>1. pipe[q].camp \in Campaigns
    BY DEF IInv, Owned, Live
  <2>2. CASE q = p
    <3>1. db'[c].last = last
      BY <1>1, <1>4 DEF IInv, TypeOK, DbOK
    <3>2. CASE s \in b
      BY <1>1, <2>2, <3>1, <3>2
    <3>3. CASE s \notin b
      <4>1. s <= db[c].last /\ s \in Nat
        BY <1>3, <1>8, <2>2, <3>3, ConstantsAssumption DEF IInv, Checkpoint, Subs
      <4> QED
        BY <1>5, <1>6, <2>2, <3>1, <4>1
    <3> QED
      BY <3>2, <3>3
  <2>3. CASE q # p
    <3>1. db'[pipe[q].camp].last = db[pipe[q].camp].last
      BY <1>1, <1>17, <2>1, <2>3 DEF IInv, TypeOK, DbOK
    <3> QED
      BY <1>8, <2>3, <3>1 DEF IInv, Checkpoint
  <2> QED
    BY <2>2, <2>3
<1>19. Dropping'
  <2>1. \A q \in Pipes, s \in Subs :
          fate'[q][s] = "dropped" => pipe'[q].stopped \/ phase'[q] = "gone"
    BY <1>2, <1>8 DEF IInv, Dropping
  <2>2. \A q \in Pipes, s \in Subs :
          phase'[q] \in {"status", "finish"} => fate'[q][s] # "dropped"
    BY <1>2, <1>8 DEF IInv, Dropping
  <2> QED
    BY <2>1, <2>2 DEF Dropping
<1>20. Stopping'
  <2>1. \A d \in Campaigns : db'[d].status = db[d].status
    BY <1>1 DEF IInv, TypeOK, DbOK
  <2>2. \A q \in Pipes, s \in Subs :
          /\ phase[q] = "wait" /\ fate'[q][s] # "none"
          /\ db[pipe[q].camp].status \in {"paused", "cancelled"}
          => fate[q][s] # "none"
    BY <1>2, <1>8
  <2>3. UNCHANGED <<pipe, phase, admin>>
    BY <1>2
  <2> QED
    BY <2>1, <2>2, <2>3 DEF IInv, Owned, Live, Stopping, StopPending
<1> QED
  BY <1>9, <1>10, <1>11, <1>12, <1>13, <1>14, <1>15, <1>16, <1>18, <1>19, <1>20 DEF IInv

(* A pipe whose batch is queued goes from the Run loop to nextPipes, and   *)
(* its pseudo count stays.                                                 *)
LEMMA RequeueKeeps ==
  ASSUME IInv, Requeue
  PROVE  IInv'
<1> PICK p \in {runner.pipe} : TRUE
  OBVIOUS
<1>1. /\ runner.pipe = p /\ p # NoPipe /\ runner.batch = {} /\ Len(nextPipes) < NextPipesCap
      /\ nextPipes' = Append(nextPipes, p) /\ runner' = IdleRunner
      /\ UNCHANGED <<db, pipes, pipe, wg, phase, fate, campMsgQ, scan, worker, admin,
                     budget>>
  BY DEF Requeue, pipeVars
<1>2. p \in Pipes
  BY <1>1 DEF IInv, TypeOK, RunnerOK
<1>3. /\ nextPipes' \in Seq(Pipes) /\ Len(nextPipes') <= NextPipesCap
      /\ Len(nextPipes) + 1 \notin DOMAIN nextPipes /\ nextPipes'[Len(nextPipes) + 1] = p
      /\ DOMAIN nextPipes' = DOMAIN nextPipes \cup {Len(nextPipes) + 1}
      /\ \A i \in DOMAIN nextPipes : nextPipes'[i] = nextPipes[i]
  <2>1. nextPipes \in Seq(Pipes)
    BY DEF IInv, TypeOK, ChansOK
  <2> QED
    BY <1>1, <1>2, <2>1, AtEnd, ConstantsAssumption
<1>4. runner' = IdleRunner /\ runner'.pipe = NoPipe /\ runner'.batch = {} /\ NoPipe \notin Pipes
  BY <1>1, ConstantsAssumption DEF IdleRunner
<1>5. \A q \in Pipes : Held(q)' <=> Held(q)
  <2>1. ASSUME NEW q \in Pipes
        PROVE  Held(q)' <=> q = p \/ \E i \in DOMAIN nextPipes : nextPipes[i] = q
    BY <1>3, <1>4 DEF Held
  <2>2. ASSUME NEW q \in Pipes
        PROVE  Held(q) <=> q = p \/ \E i \in DOMAIN nextPipes : nextPipes[i] = q
    BY <1>1 DEF Held
  <2> QED
    BY <2>1, <2>2
<1>6. Accounting' /\ OnlyWaiting'
  <2>1. \A q \in Pipes : UndoneSubs(q)' = UndoneSubs(q)
    BY <1>1 DEF UndoneSubs
  <2>2. UNCHANGED <<wg, phase>>
    BY <1>1
  <2> QED
    BY <1>5, <2>1, <2>2 DEF IInv, Accounting, Accounted, OnlyWaiting
<1>7. TypeOK'
  <2>1. RunnerOK'
    BY <1>1 DEF RunnerOK, IdleRunner
  <2> QED
    BY <1>1, <1>3, <2>1
    DEF IInv, TypeOK, DbOK, PipesOK, PipeOK, WaitOK, FateOK, ChansOK, ScanOK, WorkerOK,
        AdminOK, BudgetOK
<1>8. OneToken'
  <2>1. \A i \in DOMAIN nextPipes : nextPipes[i] # p
    BY <1>1 DEF IInv, OneToken
  <2>2. nextPipes' \in Seq(Pipes)
    BY <1>3
  <2>3. \A i \in DOMAIN nextPipes' : nextPipes'[i] # runner'.pipe
    BY <1>4, <2>2
  <2>4. \A i, j \in DOMAIN nextPipes' : nextPipes'[i] = nextPipes'[j] => i = j
    BY <1>3, <2>1 DEF IInv, OneToken
  <2> QED
    BY <1>4, <2>3, <2>4 DEF OneToken
<1>9. Fetched'
  <2>1. \A q \in Pipes, s \in Subs : fate[q][s] # "fetched"
    <3> SUFFICES ASSUME NEW q \in Pipes, NEW s \in Subs, fate[q][s] = "fetched"
                 PROVE  FALSE
      OBVIOUS
    <3> QED
      BY <1>1 DEF IInv, Fetched
  <2> QED
    BY <1>1, <1>4, <2>1 DEF Fetched
<1>10. Asking' /\ Queued' /\ Working' /\ ScanFresh' /\ Checkpoint'
  BY <1>1 DEF IInv, Asking, Queued, Working, Busy, ScanFresh, Checkpoint
<1>11. OnePipePerCampaign' /\ Owned' /\ Stopping'
  BY <1>1 DEF IInv, OnePipePerCampaign, Owned, Live, Stopping, StopPending
<1>12. Dropping'
  BY <1>1 DEF IInv, Dropping
<1> QED
  BY <1>6, <1>7, <1>8, <1>9, <1>10, <1>11, <1>12 DEF IInv

(* With nextPipes full the pipe is stopped and its pseudo count released   *)
(* instead.                                                                *)
LEMMA RequeueOverflowKeeps ==
  ASSUME IInv, RequeueOverflow
  PROVE  IInv'
<1> PICK p \in {runner.pipe} : TRUE
  OBVIOUS
<1>1. /\ runner.pipe = p /\ p # NoPipe /\ runner.batch = {}
      /\ runner' = IdleRunner
      /\ wg' = [wg EXCEPT ![p] = @ - 1]
      /\ pipe' = [pipe EXCEPT ![p] = StoppedPipe(@, FALSE)]
      /\ UNCHANGED <<db, pipes, phase, fate, nextPipes, campMsgQ, scan, worker, admin,
                     budget>>
  BY DEF RequeueOverflow, StopAndRelease, Done, chanVars
<1>2. p \in Pipes
  BY <1>1 DEF IInv, TypeOK, RunnerOK
<1>3. runner' = IdleRunner /\ runner'.pipe = NoPipe /\ runner'.batch = {} /\ NoPipe \notin Pipes
  BY <1>1, ConstantsAssumption DEF IdleRunner
<1>4. /\ Held(p) /\ ~Held(p)'
      /\ \A q \in Pipes \ {p} : Held(q)' <=> Held(q)
  <2>1. \A i \in DOMAIN nextPipes : nextPipes[i] # p
    BY <1>1 DEF IInv, OneToken
  <2>2. nextPipes' = nextPipes
    BY <1>1
  <2> QED
    BY <1>1, <1>2, <1>3, <2>1, <2>2 DEF Held
<1>5. PipeOK' /\ \A q \in Pipes : /\ pipe'[q].camp = pipe[q].camp
                                  /\ pipe[q].stopped => pipe'[q].stopped
  BY <1>1, <1>2, StopsPipe
<1>6. UNCHANGED <<db, pipes, phase, fate, nextPipes, campMsgQ, scan, worker, admin, budget>>
  BY <1>1
<1>7. /\ Accounting' /\ OnlyWaiting' /\ WaitOK'
      /\ OnePipePerCampaign' /\ Owned' /\ Dropping'
  BY <1>1, <1>2, <1>4, <1>5, ReleaseStep
<1>8. TypeOK'
  <2>1. RunnerOK'
    BY <1>1 DEF RunnerOK, IdleRunner
  <2> QED
    BY <1>5, <1>6, <1>7, <2>1
    DEF IInv, TypeOK, DbOK, PipesOK, FateOK, ChansOK, ScanOK, WorkerOK, AdminOK, BudgetOK
<1>9. OneToken'
  <2>1. nextPipes \in Seq(Pipes)
    BY DEF IInv, TypeOK, ChansOK
  <2>2. \A i \in DOMAIN nextPipes : nextPipes[i] # NoPipe
    BY <1>3, <2>1
  <2> QED
    BY <1>3, <1>6, <2>2 DEF IInv, OneToken
<1>10. Fetched'
  <2>1. \A q \in Pipes, s \in Subs : fate[q][s] # "fetched"
    <3> SUFFICES ASSUME NEW q \in Pipes, NEW s \in Subs, fate[q][s] = "fetched"
                 PROVE  FALSE
      OBVIOUS
    <3> QED
      BY <1>1 DEF IInv, Fetched
  <2> QED
    BY <1>3, <1>6, <2>1 DEF Fetched
<1>11. Asking' /\ Queued' /\ Working' /\ ScanFresh' /\ Checkpoint'
  BY <1>5, <1>6 DEF IInv, Asking, Queued, Working, Busy, ScanFresh, Checkpoint
<1>12. Stopping'
  BY <1>5, <1>6 DEF IInv, Stopping, StopPending
<1> QED
  BY <1>7, <1>8, <1>9, <1>10, <1>11, <1>12 DEF IInv

-----------------------------------------------------------------------------
(* The launch of a pipe.                                                   *)

(* The scanner launches only what has no pipe, and the pipe is a new one.  *)
LEMMA LaunchKeeps ==
  ASSUME IInv, NEW c \in Campaigns, Launch(c)
  PROVE  IInv'
<1>1. PICK p \in Pipes :
        /\ phase[p] = "new"
        /\ pipes' = [pipes EXCEPT ![c] = p]
        /\ Goto(p, "wait")
        /\ IF Len(nextPipes) < NextPipesCap
             THEN /\ pipe' = [pipe EXCEPT ![p].camp = c]
                  /\ wg' = [wg EXCEPT ![p] = InitialCount]
                  /\ nextPipes' = Append(nextPipes, p)
             ELSE /\ pipe' = [pipe EXCEPT ![p] = StoppedPipe([@ EXCEPT !.camp = c], FALSE)]
                  /\ UNCHANGED <<wg, nextPipes>>
  BY DEF Launch
<1>2. /\ c \in scan.found
      /\ ScanGoesOn([scan EXCEPT !.found = @ \ {c}])
      /\ UNCHANGED <<db, fate, campMsgQ, runner, worker, admin, budget>>
  BY DEF Launch
<1>3. /\ wg[p] = 0 /\ pipes[c] = NoPipe /\ TenantOf[c] \notin scan.tenants
      /\ \A s \in Subs : fate[p][s] = "none"
  BY <1>1, <1>2 DEF IInv, OnlyWaiting, Owned, ScanFresh
<1>4. ~Held(p)
  BY <1>1, HeldWaits
<1>5. /\ PipeOK' /\ pipe'[p].camp = c
      /\ \A q \in Pipes \ {p} : pipe'[q] = pipe[q]
  <2> DEFINE r == [pipe[p] EXCEPT !.camp = c]
             next == StoppedPipe(r, FALSE)
  <2>1. r \in PipeFields /\ r.camp = c
    BY <1>1 DEF IInv, TypeOK, PipeOK, PipeFields
  <2> HIDE DEF r
  <2>2. next \in PipeFields /\ next.camp = c
    <3> DEFINE t == [r EXCEPT !.stopped = TRUE]
    <3>1. t \in PipeFields /\ t.camp = c
      BY <2>1 DEF PipeFields
    <3> HIDE DEF t
    <3>2. /\ [t EXCEPT !.withErrors = @ \/ FALSE] \in PipeFields
          /\ [t EXCEPT !.withErrors = @ \/ FALSE].camp = c
      BY <3>1 DEF PipeFields
    <3>3. next = r \/ next = [t EXCEPT !.withErrors = @ \/ FALSE]
      BY DEF StoppedPipe, t
    <3> QED
      BY <2>1, <3>2, <3>3
  <2> HIDE DEF next
  <2>3. PICK x \in {r, next} : pipe' = [pipe EXCEPT ![p] = x]
    BY <1>1 DEF r, next
  <2> QED
    BY <1>1, <2>1, <2>2, <2>3 DEF IInv, TypeOK, PipeOK, PipeFields
<1>6. /\ phase' \in [Pipes -> Phases] /\ phase'[p] = "wait"
      /\ \A q \in Pipes \ {p} : phase'[q] = phase[q]
  BY <1>1 DEF Goto, IInv, TypeOK, WaitOK, Phases
<1>7. /\ pipes' \in [Campaigns -> Pipes \cup {NoPipe}] /\ pipes'[c] = p
      /\ \A d \in Campaigns \ {c} : pipes'[d] = pipes[d]
  BY <1>1 DEF IInv, TypeOK, PipesOK
<1>8. ScanOK' /\ ScanFresh'
  <2>1. ScanOK'
    BY <1>2 DEF IInv, TypeOK, ScanOK, ScanGoesOn, IdleScan
  <2>2. /\ scan'.found \subseteq scan.found \ {c} /\ scan'.tenants \subseteq scan.tenants
        /\ scan'.tenants = {} \/ scan'.ids = scan.ids
    BY <1>2 DEF IInv, TypeOK, ScanOK, ScanGoesOn, IdleScan
  <2>3. scan'.found \subseteq Campaigns
    BY <2>1 DEF ScanOK
  <2>4. \A d \in scan'.found : pipes'[d] = NoPipe /\ TenantOf[d] \notin scan'.tenants
    BY <1>7, <2>2, <2>3 DEF IInv, ScanFresh
  <2>5. \A d \in Campaigns \ scan'.ids :
          TenantOf[d] \in scan'.tenants => pipes'[d] = NoPipe
    BY <1>3, <1>7, <2>2 DEF IInv, ScanFresh
  <2> QED
    BY <2>1, <2>4, <2>5 DEF ScanFresh

<1>9. /\ nextPipes' \in Seq(Pipes) /\ Len(nextPipes') <= NextPipesCap
      /\ wg' \in [Pipes -> Nat]
      /\ \A q \in Pipes \ {p} : wg'[q] = wg[q]
      /\ wg'[p] = IF p \in {nextPipes'[i] : i \in DOMAIN nextPipes'} THEN 1 ELSE 0
      /\ \A q \in Pipes \ {p} : (\E i \in DOMAIN nextPipes' : nextPipes'[i] = q)
                                  <=> \E i \in DOMAIN nextPipes : nextPipes[i] = q
      /\ \A i, j \in DOMAIN nextPipes' : nextPipes'[i] = nextPipes'[j] => i = j
  <2>1. nextPipes \in Seq(Pipes) /\ Len(nextPipes) <= NextPipesCap
    BY DEF IInv, TypeOK, ChansOK
  <2>2. \A i \in DOMAIN nextPipes : nextPipes[i] # p
    BY <1>4 DEF Held
  <2>3. wg \in [Pipes -> Nat]
    BY DEF IInv, TypeOK, WaitOK
  <2>4. CASE Len(nextPipes) < NextPipesCap
    <3>1. /\ nextPipes' \in Seq(Pipes) /\ Len(nextPipes') = Len(nextPipes) + 1
          /\ Len(nextPipes) + 1 \notin DOMAIN nextPipes
          /\ nextPipes'[Len(nextPipes) + 1] = p
          /\ DOMAIN nextPipes' = DOMAIN nextPipes \cup {Len(nextPipes) + 1}
          /\ \A i \in DOMAIN nextPipes : nextPipes'[i] = nextPipes[i]
      <4>1. nextPipes' = Append(nextPipes, p)
        BY <1>1, <2>4
      <4> QED
        BY <2>1, <4>1, AtEnd
    <3>2. wg' = [wg EXCEPT ![p] = 1]
      BY <1>1, <2>4 DEF InitialCount
    <3>3. Len(nextPipes') <= NextPipesCap
      BY <2>1, <2>4, <3>1, ConstantsAssumption
    <3>4. p \in {nextPipes'[i] : i \in DOMAIN nextPipes'}
      BY <3>1
    <3>5. \A i, j \in DOMAIN nextPipes' : nextPipes'[i] = nextPipes'[j] => i = j
      BY <2>2, <3>1 DEF IInv, OneToken
    <3> QED
      BY <2>3, <3>1, <3>2, <3>3, <3>4, <3>5
  <2>5. CASE ~(Len(nextPipes) < NextPipesCap)
    <3>1. UNCHANGED <<wg, nextPipes>>
      BY <1>1, <2>5
    <3>2. p \notin {nextPipes'[i] : i \in DOMAIN nextPipes'}
      BY <2>2, <3>1
    <3> QED
      BY <1>3, <2>1, <2>3, <3>1, <3>2 DEF IInv, OneToken
  <2> QED
    BY <2>4, <2>5
<1>10. runner'.pipe = runner.pipe /\ runner.pipe # p
  BY <1>2, <1>4 DEF Held
<1>11. Accounting' /\ OnlyWaiting'
  <2>1. \A q \in Pipes : UndoneSubs(q)' = UndoneSubs(q)
    BY <1>2 DEF UndoneSubs
  <2>2. UndoneSubs(p) = {} /\ Cardinality({}) = 0
    BY <1>3, FS_EmptySet DEF UndoneSubs, Undone
  <2>3. Accounted(p)'
    <3>1. Held(p)' <=> p \in {nextPipes'[i] : i \in DOMAIN nextPipes'}
      BY <1>10 DEF Held
    <3>2. Cardinality(UndoneSubs(p)') = 0
      BY <2>1, <2>2
    <3> QED
      BY <1>9, <3>1, <3>2 DEF Accounted
  <2>4. ASSUME NEW q \in Pipes \ {p} PROVE Accounted(q)'
    <3>1. Held(q)' <=> Held(q)
      BY <1>9, <1>10 DEF Held
    <3> QED
      BY <1>9, <2>1, <3>1 DEF IInv, Accounting, Accounted
  <2>5. OnlyWaiting'
    BY <1>6, <1>9 DEF IInv, OnlyWaiting
  <2> QED
    BY <2>3, <2>4, <2>5 DEF Accounting
<1>12. TypeOK'
  <2>1. WaitOK' /\ PipesOK' /\ ChansOK'
    BY <1>2, <1>6, <1>7, <1>9 DEF IInv, TypeOK, WaitOK, PipesOK, ChansOK
  <2> QED
    BY <1>2, <1>5, <1>8, <2>1
    DEF IInv, TypeOK, DbOK, FateOK, RunnerOK, WorkerOK, AdminOK, BudgetOK
<1>13. OneToken'
  <2>1. ASSUME NEW i \in DOMAIN nextPipes' PROVE nextPipes'[i] # runner'.pipe
    <3>1. nextPipes'[i] \in Pipes
      BY <1>9
    <3>2. CASE nextPipes'[i] = p
      BY <1>10, <3>2
    <3>3. CASE nextPipes'[i] # p
      BY <1>9, <1>10, <3>1, <3>3 DEF IInv, OneToken
    <3> QED
      BY <3>2, <3>3
  <2> QED
    BY <1>2, <1>9, <2>1 DEF IInv, OneToken
<1>14. Asking' /\ Fetched' /\ Queued' /\ Working'
  BY <1>2 DEF IInv, Asking, Fetched, Queued, Working, Busy
<1>15. \A q \in Pipes \ {p} : Live(q) => pipe[q].camp \in Campaigns \ {c}
  BY <1>3, ConstantsAssumption DEF IInv, OnePipePerCampaign, Owned
<1>16. /\ \A q \in Pipes \ {p} : Live(q)' <=> Live(q)
       /\ Live(p)' /\ ~Live(p)
  BY <1>1, <1>6 DEF Live, Cleaning
<1>17. OnePipePerCampaign'
  BY <1>5, <1>7, <1>15, <1>16 DEF IInv, OnePipePerCampaign
<1>18. Owned'
  <2>1. \A q \in Pipes : Live(q)' => pipe'[q].camp \in Campaigns
    BY <1>5, <1>15, <1>16
  <2>2. ASSUME NEW d \in Campaigns, pipes'[d] # NoPipe
        PROVE  Live(pipes[d])' /\ pipe'[pipes'[d]].camp = d
    <3>1. CASE d = c
      BY <1>5, <1>6, <1>7, <3>1 DEF Live
    <3>2. CASE d # c
      <4>1. pipes[d] \in Pipes \ {p} /\ Live(pipes[d]) /\ pipe[pipes[d]].camp = d
        BY <1>7, <1>16, <2>2, <3>2 DEF IInv, TypeOK, PipesOK, Owned
      <4>2. phase'[pipes[d]] = phase[pipes[d]] /\ pipes'[d] = pipes[d]
        BY <1>6, <1>7, <3>2, <4>1
      <4> QED
        BY <1>5, <4>1, <4>2 DEF Live
    <3> QED
      BY <3>1, <3>2
  <2>3. \A q \in Pipes : phase'[q] = "new" => \A s \in Subs : fate'[q][s] = "none"
    BY <1>2, <1>6 DEF IInv, Owned
  <2> QED
    BY <2>1, <2>2, <2>3 DEF Owned
<1>19. Checkpoint'
  BY <1>2, <1>3, <1>5, <1>6 DEF IInv, Checkpoint
<1>20. Dropping'
  <2>1. \A q \in Pipes, s \in Subs :
          fate'[q][s] = "dropped" => pipe'[q].stopped \/ phase'[q] = "gone"
    BY <1>2, <1>3, <1>5, <1>6 DEF IInv, Dropping
  <2>2. \A q \in Pipes, s \in Subs :
          phase'[q] \in {"status", "finish"} => fate'[q][s] # "dropped"
    BY <1>2, <1>3, <1>6 DEF IInv, Dropping
  <2> QED
    BY <2>1, <2>2 DEF Dropping
<1>21. Stopping'
  BY <1>2, <1>3, <1>5, <1>6 DEF IInv, Stopping, StopPending
<1> QED
  BY <1>8, <1>11, <1>12, <1>13, <1>14, <1>17, <1>18, <1>19, <1>20, <1>21 DEF IInv

-----------------------------------------------------------------------------
(* cleanup.                                                                *)

(* A step of the goroutine of a drained pipe that may write the row of its *)
(* campaign: no other pipe that waits is the campaign's.                   *)
LEMMA CleanStep ==
  ASSUME IInv, NEW p \in Pipes, NEW next \in Cleaning,
         wg[p] = 0, Live(p), Goto(p, next), DbOK', BudgetOK',
         \A c \in Campaigns \ {pipe[p].camp} : db'[c] = db[c],
         next \in {"status", "finish"} => \A s \in Subs : fate[p][s] # "dropped",
         UNCHANGED <<pipes, pipe, wg, fate, chanVars, runner, scan, worker, admin>>
  PROVE  IInv'
<1>1. UNCHANGED <<pipes, pipe, wg, fate, nextPipes, campMsgQ, runner, scan, worker, admin>>
  BY DEF chanVars
<1>2. /\ phase' \in [Pipes -> Phases] /\ phase'[p] = next
      /\ \A q \in Pipes \ {p} : phase'[q] = phase[q]
  BY DEF Goto, IInv, TypeOK, WaitOK, Phases
<1>3. phase'[p] \notin {"wait", "new", "gone"}
  BY <1>2 DEF Cleaning
<1>4. TypeOK'
  <2>1. WaitOK'
    BY <1>1, <1>2 DEF IInv, TypeOK, WaitOK
  <2> QED
    BY <1>1, <2>1
    DEF IInv, TypeOK, PipesOK, PipeOK, FateOK, ChansOK, RunnerOK, ScanOK, WorkerOK, AdminOK
<1>5. Accounting'
  BY <1>1, SameCounts DEF IInv
<1>6. OnlyWaiting'
  BY <1>1, <1>2 DEF IInv, OnlyWaiting
<1>7. Asking' /\ OneToken' /\ Fetched' /\ Queued' /\ Working' /\ ScanFresh'
  BY <1>1 DEF IInv, Asking, OneToken, Fetched, Queued, Working, Busy, ScanFresh
<1>8. \A q \in Pipes : Live(q)' <=> Live(q)
  BY <1>2 DEF Live
<1>9. OnePipePerCampaign'
  BY <1>1, <1>8 DEF IInv, OnePipePerCampaign
<1>10. Owned'
  <2>1. \A q \in Pipes : Live(q)' => pipe'[q].camp \in Campaigns
    BY <1>1, <1>8 DEF IInv, Owned
  <2>2. ASSUME NEW d \in Campaigns, pipes'[d] # NoPipe
        PROVE  Live(pipes[d])' /\ pipe'[pipes'[d]].camp = d
    <3>1. pipes[d] \in Pipes /\ pipes'[d] = pipes[d]
          /\ Live(pipes[d]) /\ pipe[pipes[d]].camp = d
      BY <1>1, <2>2 DEF IInv, TypeOK, PipesOK, Owned
    <3> QED
      BY <1>1, <1>2, <3>1 DEF Live
  <2>3. \A q \in Pipes : phase'[q] = "new" => \A s \in Subs : fate'[q][s] = "none"
    BY <1>1, <1>2, <1>3 DEF IInv, Owned
  <2> QED
    BY <2>1, <2>2, <2>3 DEF Owned
<1>11. ASSUME NEW q \in Pipes, phase'[q] = "wait"
       PROVE  /\ phase[q] = "wait" /\ pipe[q].camp \in Campaigns
              /\ db'[pipe[q].camp] = db[pipe[q].camp]
  <2>1. q # p /\ phase[q] = "wait" /\ Live(q)
    BY <1>2, <1>3, <1>11 DEF Live
  <2> QED
    BY <2>1 DEF IInv, OnePipePerCampaign, Owned
<1>12. Checkpoint'
  BY <1>1, <1>11 DEF IInv, Checkpoint
<1>13. Dropping'
  <2>1. \A q \in Pipes, s \in Subs :
          fate'[q][s] = "dropped" => pipe'[q].stopped \/ phase'[q] = "gone"
    <3>1. \A q \in Pipes : phase[q] = "gone" => phase'[q] = "gone"
      BY <1>2 DEF Live, Cleaning
    <3> QED
      BY <1>1, <3>1 DEF IInv, Dropping
  <2>2. \A q \in Pipes, s \in Subs :
          phase'[q] \in {"status", "finish"} => fate'[q][s] # "dropped"
    BY <1>1, <1>2 DEF IInv, Dropping
  <2> QED
    BY <2>1, <2>2 DEF Dropping
<1>14. Stopping'
  BY <1>1, <1>11 DEF IInv, Stopping, StopPending
<1> QED
  BY <1>4, <1>5, <1>6, <1>7, <1>9, <1>10, <1>12, <1>13, <1>14 DEF IInv

(* A pipe past its wait has a campaign, and nothing to wait for.           *)
LEMMA CleaningDrained ==
  ASSUME IInv, NEW p \in Pipes, phase[p] \in Cleaning
  PROVE  wg[p] = 0 /\ Live(p) /\ pipe[p].camp \in Campaigns
<1>1. phase[p] # "wait" /\ Live(p)
  BY DEF Cleaning, Live
<1> QED
  BY <1>1 DEF IInv, OnlyWaiting, Owned

(* cleanup starts on a drained pipe, and may move the checkpoint of its    *)
(* campaign back.                                                          *)
LEMMA CleanCountsKeeps ==
  ASSUME IInv, NEW p \in Pipes, CleanCounts(p)
  PROVE  IInv'
<1>1. /\ wg[p] = 0 /\ Live(p) /\ pipe[p].camp \in Campaigns /\ "errors" \in Cleaning
      /\ Goto(p, "errors")
      /\ UNCHANGED <<pipes, pipe, wg, fate, chanVars, runner, scan, worker, admin>>
  BY DEF CleanCounts, IInv, Owned, Live, Cleaning
<1>2. BudgetOK'
  BY DEF CleanCounts, Fault, NoFault, IInv, TypeOK, BudgetOK
<1> DEFINE c == pipe[p].camp
           row == [db[c] EXCEPT !.sent = @ + pipe[p].sent]
           last == IF pipe[p].lastID > 0 THEN pipe[p].lastID ELSE db[c].last
           next == [row EXCEPT !.last = last]
<1>3. db' = db \/ db' = [db EXCEPT ![c] = next]
  <2>1. WithCounts(db[c], pipe[p]) = next
    BY DEF WithCounts
  <2> HIDE DEF next
  <2> QED
    BY <1>1, <2>1 DEF CleanCounts
<1>4. next \in [status : Statuses, sent : Nat, last : Nat,
                reason : {"none", "too_many_errors", "scrub"}]
  <2>1. /\ db[c] \in [status : Statuses, sent : Nat, last : Nat,
                      reason : {"none", "too_many_errors", "scrub"}]
        /\ pipe[p].sent \in Nat /\ pipe[p].lastID \in Nat
    BY <1>1 DEF IInv, TypeOK, DbOK, PipeOK
  <2>2. last \in Nat
    BY <2>1
  <2>3. row \in [status : Statuses, sent : Nat, last : Nat,
                 reason : {"none", "too_many_errors", "scrub"}]
    BY <2>1
  <2> HIDE DEF row, last
  <2> QED
    BY <2>2, <2>3
<1> HIDE DEF next
<1>5. DbOK' /\ \A d \in Campaigns \ {c} : db'[d] = db[d]
  BY <1>1, <1>3, <1>4 DEF IInv, TypeOK, DbOK
<1> QED
  BY <1>1, <1>2, <1>5, CleanStep

(* cleanup branches on withErrors.                                         *)
LEMMA CleanWithErrorsKeeps ==
  ASSUME IInv, NEW p \in Pipes, CleanWithErrors(p)
  PROVE  IInv'
<1> DEFINE next == IF pipe[p].withErrors THEN "pause" ELSE "stopped"
<1>1. /\ next \in Cleaning /\ next \notin {"status", "finish"} /\ Goto(p, next)
      /\ phase[p] \in Cleaning
      /\ UNCHANGED <<db, pipes, pipe, wg, fate, chanVars, runner, scan, worker, admin,
                     budget>>
  BY DEF CleanWithErrors, Cleaning
<1> HIDE DEF next
<1>2. DbOK' /\ BudgetOK'
  BY <1>1 DEF IInv, TypeOK, DbOK, BudgetOK
<1> QED
  BY <1>1, <1>2, CleaningDrained, CleanStep

(* cleanup pauses the campaign of a pipe that is past waiting.             *)
LEMMA CleanPauseKeeps ==
  ASSUME IInv, NEW p \in Pipes, CleanPause(p)
  PROVE  IInv'
<1>1. PICK next \in {"reason", "remove"} : Goto(p, next)
  BY DEF CleanPause
<1>2. /\ next \in Cleaning /\ next \notin {"status", "finish"} /\ phase[p] \in Cleaning
      /\ UNCHANGED <<pipes, pipe, wg, fate, chanVars, runner, scan, worker, admin>>
  BY DEF CleanPause, Cleaning
<1>3. BudgetOK'
  BY DEF CleanPause, Fault, NoFault, IInv, TypeOK, BudgetOK
<1>4. db' = db \/ db' = [db EXCEPT ![pipe[p].camp].status = "paused"]
  BY DEF CleanPause
<1>5. DbOK' /\ \A c \in Campaigns \ {pipe[p].camp} : db'[c] = db[c]
  BY <1>4 DEF IInv, TypeOK, DbOK, Statuses
<1> QED
  BY <1>1, <1>2, <1>3, <1>5, CleaningDrained, CleanStep

(* cleanup records the reason of its pause.                                *)
LEMMA CleanReasonKeeps ==
  ASSUME IInv, NEW p \in Pipes, CleanReason(p)
  PROVE  IInv'
<1>1. /\ "remove" \in Cleaning /\ Goto(p, "remove") /\ phase[p] \in Cleaning
      /\ UNCHANGED <<pipes, pipe, wg, fate, chanVars, runner, scan, worker, admin>>
  BY DEF CleanReason, Cleaning
<1>2. BudgetOK'
  BY DEF CleanReason, Fault, NoFault, IInv, TypeOK, BudgetOK
<1>3. DbOK' /\ \A c \in Campaigns \ {pipe[p].camp} : db'[c] = db[c]
  BY DEF CleanReason, WithReason, IInv, TypeOK, DbOK
<1> QED
  BY <1>1, <1>2, <1>3, CleaningDrained, CleanStep

(* cleanup goes on to the status only for a pipe that was not stopped, and *)
(* so has dropped nothing.                                                 *)
LEMMA CleanStoppedKeeps ==
  ASSUME IInv, NEW p \in Pipes, CleanStopped(p)
  PROVE  IInv'
<1> DEFINE next == AfterStopped(p)
<1>1. /\ next \in Cleaning /\ Goto(p, next) /\ phase[p] \in Cleaning
      /\ UNCHANGED <<db, pipes, pipe, wg, fate, chanVars, runner, scan, worker, admin,
                     budget>>
  BY DEF CleanStopped, AfterStopped, Cleaning
<1>2. next \in {"status", "finish"} => \A s \in Subs : fate[p][s] # "dropped"
  <2>1. next \in {"status", "finish"} => ~pipe[p].stopped
    BY DEF AfterStopped
  <2>2. phase[p] # "gone"
    BY DEF CleanStopped
  <2> QED
    BY <2>1, <2>2 DEF IInv, Dropping
<1> HIDE DEF next
<1>3. DbOK' /\ BudgetOK'
  BY <1>1 DEF IInv, TypeOK, DbOK, BudgetOK
<1> QED
  BY <1>1, <1>2, <1>3, CleaningDrained, CleanStep

(* cleanup reads the status of the campaign.                               *)
LEMMA CleanStatusKeeps ==
  ASSUME IInv, NEW p \in Pipes, CleanStatus(p)
  PROVE  IInv'
<1>1. PICK next \in {"finish", "remove"} : Goto(p, next)
  BY DEF CleanStatus
<1>2. /\ next \in Cleaning /\ phase[p] \in Cleaning
      /\ UNCHANGED <<db, pipes, pipe, wg, fate, chanVars, runner, scan, worker, admin>>
  BY DEF CleanStatus, Cleaning
<1>3. \A s \in Subs : fate[p][s] # "dropped"
  BY DEF CleanStatus, IInv, Dropping
<1>4. DbOK' /\ BudgetOK'
  BY <1>2 DEF CleanStatus, Fault, NoFault, IInv, TypeOK, DbOK, BudgetOK
<1> QED
  BY <1>1, <1>2, <1>3, <1>4, CleaningDrained, CleanStep

(* cleanup finishes the campaign of a pipe that is past waiting.           *)
LEMMA CleanFinishKeeps ==
  ASSUME IInv, NEW p \in Pipes, CleanFinish(p)
  PROVE  IInv'
<1>1. /\ "remove" \in Cleaning /\ Goto(p, "remove") /\ phase[p] \in Cleaning
      /\ UNCHANGED <<pipes, pipe, wg, fate, chanVars, runner, scan, worker, admin>>
  BY DEF CleanFinish, Cleaning
<1>2. BudgetOK'
  BY DEF CleanFinish, Fault, NoFault, IInv, TypeOK, BudgetOK
<1>3. db' = db \/ db' = [db EXCEPT ![pipe[p].camp].status = "finished"]
  BY DEF CleanFinish
<1>4. DbOK' /\ \A c \in Campaigns \ {pipe[p].camp} : db'[c] = db[c]
  BY <1>3 DEF IInv, TypeOK, DbOK, Statuses
<1> QED
  BY <1>1, <1>2, <1>4, CleaningDrained, CleanStep

(* The pipe leaves m.pipes as the last step of its cleanup.                *)
LEMMA CleanRemoveKeeps ==
  ASSUME IInv, NEW p \in Pipes, CleanRemove(p)
  PROVE  IInv'
<1> PICK c \in {pipe[p].camp} : TRUE
  OBVIOUS
<1>1. /\ pipes' = [pipes EXCEPT ![c] = NoPipe] /\ Goto(p, "gone") /\ phase[p] = "remove"
      /\ UNCHANGED <<db, pipe, wg, fate, nextPipes, campMsgQ, runner, scan, worker, admin,
                     budget>>
  BY DEF CleanRemove, chanVars
<1>2. wg[p] = 0 /\ Live(p) /\ c \in Campaigns /\ pipes[c] = p
  <2>1. phase[p] \in Cleaning
    BY <1>1 DEF Cleaning
  <2> QED
    BY <2>1, CleaningDrained DEF IInv, OnePipePerCampaign
<1>3. /\ phase' \in [Pipes -> Phases] /\ phase'[p] = "gone"
      /\ \A q \in Pipes \ {p} : phase'[q] = phase[q]
  BY <1>1 DEF Goto, IInv, TypeOK, WaitOK, Phases
<1>4. /\ pipes' \in [Campaigns -> Pipes \cup {NoPipe}] /\ pipes'[c] = NoPipe
      /\ \A d \in Campaigns \ {c} : pipes'[d] = pipes[d]
  BY <1>1, <1>2 DEF IInv, TypeOK, PipesOK
<1>5. TypeOK'
  <2>1. WaitOK' /\ PipesOK'
    BY <1>1, <1>3, <1>4 DEF IInv, TypeOK, WaitOK, PipesOK
  <2> QED
    BY <1>1, <2>1
    DEF IInv, TypeOK, DbOK, PipeOK, FateOK, ChansOK, RunnerOK, ScanOK, WorkerOK, AdminOK,
        BudgetOK
<1>6. Accounting'
  BY <1>1, SameCounts DEF IInv
<1>7. OnlyWaiting'
  BY <1>1, <1>2, <1>3 DEF IInv, OnlyWaiting
<1>8. Asking' /\ OneToken' /\ Fetched' /\ Queued' /\ Working'
  BY <1>1 DEF IInv, Asking, OneToken, Fetched, Queued, Working, Busy
<1>9. ScanFresh'
  <2>1. \A d \in Campaigns : pipes[d] = NoPipe => pipes'[d] = NoPipe
    BY <1>4
  <2>2. scan'= scan /\ scan.found \subseteq Campaigns
    BY <1>1 DEF IInv, TypeOK, ScanOK
  <2> QED
    BY <2>1, <2>2 DEF IInv, ScanFresh
<1>10. \A q \in Pipes \ {p} : Live(q)' <=> Live(q)
  BY <1>3 DEF Live
<1>11. ~Live(p)'
  BY <1>3 DEF Live, Cleaning
<1>12. OnePipePerCampaign'
  BY <1>1, <1>2, <1>4, <1>10, <1>11 DEF IInv, OnePipePerCampaign, Owned
<1>13. Owned'
  <2>1. \A q \in Pipes : Live(q)' => pipe'[q].camp \in Campaigns
    BY <1>1, <1>10, <1>11 DEF IInv, Owned
  <2>2. ASSUME NEW d \in Campaigns, pipes'[d] # NoPipe
        PROVE  Live(pipes[d])' /\ pipe'[pipes'[d]].camp = d
    <3>1. d # c /\ pipes'[d] = pipes[d]
      BY <1>4, <2>2
    <3>2. pipes[d] \in Pipes /\ Live(pipes[d]) /\ pipe[pipes[d]].camp = d
      BY <2>2, <3>1 DEF IInv, TypeOK, PipesOK, Owned
    <3>3. pipes[d] # p
      BY <3>1, <3>2
    <3> QED
      BY <1>1, <1>3, <3>1, <3>2, <3>3 DEF Live
  <2>3. \A q \in Pipes : phase'[q] = "new" => \A s \in Subs : fate'[q][s] = "none"
    BY <1>1, <1>3 DEF IInv, Owned
  <2> QED
    BY <2>1, <2>2, <2>3 DEF Owned
<1>14. Checkpoint' /\ Stopping'
  BY <1>1, <1>3 DEF IInv, Checkpoint, Stopping, StopPending
<1>15. Dropping'
  <2>1. \A q \in Pipes, s \in Subs :
          fate'[q][s] = "dropped" => pipe'[q].stopped \/ phase'[q] = "gone"
    BY <1>1, <1>3 DEF IInv, Dropping
  <2>2. \A q \in Pipes, s \in Subs :
          phase'[q] \in {"status", "finish"} => fate'[q][s] # "dropped"
    BY <1>1, <1>3 DEF IInv, Dropping
  <2> QED
    BY <2>1, <2>2 DEF Dropping
<1> QED
  BY <1>5, <1>6, <1>7, <1>8, <1>9, <1>12, <1>13, <1>14, <1>15 DEF IInv

-----------------------------------------------------------------------------
(* A crash leaves no live pipe and no message.                             *)
LEMMA CrashKeeps ==
  ASSUME IInv, Crash
  PROVE  IInv'
<1> DEFINE lost(f) == CASE f = "pushed"  -> "sent"
                        [] f = "refused" -> "failed"
                        [] f \in {"fetched", "queued", "taken", "sending"} -> "dropped"
                        [] OTHER -> f
<1>1. /\ pipes' = [c \in Campaigns |-> NoPipe]
      /\ phase' = [p \in Pipes |-> IF Live(p) THEN "gone" ELSE phase[p]]
      /\ wg' = [p \in Pipes |-> 0]
      /\ nextPipes' = <<>> /\ campMsgQ' = <<>>
      /\ runner' = IdleRunner /\ scan' = IdleScan
      /\ worker' = [w \in Workers |-> IdleWorker]
      /\ admin' = [a \in Admins |-> IdleAdmin]
      /\ UNCHANGED <<db, pipe>>
  BY DEF Crash
<1>2. \A p \in Pipes, s \in Subs : fate'[p][s] = lost(fate[p][s])
  BY DEF Crash
<1>3. \A f \in Fates : /\ lost(f) \in Fates \ (Undone \cup {"fetched"})
                       /\ lost(f) = "none" <=> f = "none"
  BY DEF Fates, Undone
<1>4. fate' \in [Pipes -> [Subs -> Fates]]
  <2>1. \A p \in Pipes, s \in Subs : lost(fate[p][s]) \in Fates
    BY <1>3 DEF IInv, TypeOK, FateOK
  <2>2. fate' = [p \in Pipes |-> [s \in Subs |-> lost(fate[p][s])]]
    BY DEF Crash
  <2> HIDE DEF lost
  <2> QED
    BY <2>1, <2>2
<1>5. \A p \in Pipes, s \in Subs :
        fate'[p][s] \notin Undone \cup {"fetched"} /\ (fate'[p][s] = "none" <=> fate[p][s] = "none")
  <2> HIDE DEF lost
  <2> QED
    BY <1>2, <1>3 DEF IInv, TypeOK, FateOK
<1> HIDE DEF lost
<1>6. \A p \in Pipes : phase'[p] \in {"new", "gone"}
                       /\ (phase'[p] = "new" <=> phase[p] = "new")
  BY <1>1 DEF IInv, TypeOK, WaitOK, Phases, Live, Cleaning
<1>7. TypeOK' /\ Asking'
  <2>1. WaitOK' /\ FateOK'
    BY <1>1, <1>4, <1>6 DEF WaitOK, FateOK, Phases
  <2>2. PipesOK' /\ DbOK' /\ PipeOK'
    BY <1>1 DEF IInv, TypeOK, PipesOK, DbOK, PipeOK
  <2>3. ChansOK' /\ RunnerOK'
    BY <1>1, ConstantsAssumption DEF ChansOK, RunnerOK, IdleRunner
  <2>4. ScanOK' /\ WorkerOK'
    BY <1>1 DEF ScanOK, WorkerOK, IdleScan, IdleWorker
  <2>5. AdminOK' /\ Asking'
    BY <1>1 DEF AdminOK, Asking, IdleAdmin
  <2>6. BudgetOK'
    <3>1. budget' = [budget EXCEPT !.crashes = @ + 1]
      BY DEF Crash
    <3>2. budget \in [requests : Nat, faults : Nat, crashes : Nat]
      BY DEF IInv, TypeOK, BudgetOK
    <3> QED
      BY <3>1, <3>2 DEF BudgetOK
  <2> QED
    BY <2>1, <2>2, <2>3, <2>4, <2>5, <2>6 DEF TypeOK
<1>8. Accounting' /\ OnlyWaiting'
  <2>1. \A p \in Pipes : UndoneSubs(p)' = {}
    BY <1>5 DEF UndoneSubs
  <2>2. \A p \in Pipes : ~Held(p)'
    BY <1>1, ConstantsAssumption DEF Held, IdleRunner
  <2>3. \A p \in Pipes : wg'[p] = 0 /\ Cardinality(UndoneSubs(p)') = 0
    BY <1>1, <2>1, FS_EmptySet
  <2> QED
    BY <2>2, <2>3 DEF Accounting, Accounted, OnlyWaiting
<1>9. OneToken' /\ Queued' /\ Working' /\ ScanFresh'
  BY <1>1 DEF OneToken, Queued, Working, Busy, ScanFresh, IdleRunner, IdleWorker, IdleScan
<1>10. Fetched'
  BY <1>1, <1>5 DEF Fetched, IdleRunner
<1>11. \A p \in Pipes : ~Live(p)'
  BY <1>6 DEF Live, Cleaning
<1>12. OnePipePerCampaign'
  BY <1>11 DEF OnePipePerCampaign
<1>13. Owned'
  <2>1. \A d \in Campaigns : pipes'[d] = NoPipe
    BY <1>1
  <2> QED
    BY <1>5, <1>6, <1>11, <2>1 DEF IInv, Owned
<1>14. Checkpoint' /\ Stopping'
  BY <1>6 DEF Checkpoint, Stopping
<1>15. Dropping'
  <2>1. \A q \in Pipes, s \in Subs :
          fate'[q][s] = "dropped" => phase'[q] = "gone"
    BY <1>5, <1>6 DEF IInv, Owned
  <2>2. \A q \in Pipes : phase'[q] \notin {"status", "finish"}
    BY <1>6
  <2> QED
    BY <2>1, <2>2 DEF Dropping
<1> QED
  BY <1>7, <1>8, <1>9, <1>10, <1>12, <1>13, <1>14, <1>15 DEF IInv

-----------------------------------------------------------------------------
(* Every step keeps the invariant.                                         *)
LEMMA NextKeeps == IInv /\ [Next]_vars => IInv'
<1> SUFFICES ASSUME IInv, [Next]_vars PROVE IInv'
  OBVIOUS
<1>1. CASE RunLoop
  BY <1>1, FetchNothingKeeps, FetchBatchKeeps, FetchFailsKeeps, EnqueueMessageKeeps,
     SkipUnrenderedKeeps, RequeueKeeps, RequeueOverflowKeeps DEF RunLoop
<1>2. CASE Scanner
  BY <1>2, ScanTickKeeps, ScanQueryKeeps, ScanQueryFailsKeeps, LaunchKeeps,
     LaunchFailsKeeps DEF Scanner
<1>3. ASSUME NEW w \in Workers, Worker(w) PROVE IInv'
  BY <1>3, WorkerTakeKeeps, WorkerDropKeeps, WorkerPushKeeps, WorkerDoneKeeps,
     WorkerOnErrorKeeps, WorkerLoadLastKeeps, WorkerStoreLastKeeps DEF Worker
<1>4. ASSUME NEW p \in Pipes, Cleanup(p) PROVE IInv'
  BY <1>4, CleanCountsKeeps, CleanWithErrorsKeeps, CleanPauseKeeps, CleanReasonKeeps,
     CleanStoppedKeeps, CleanStatusKeeps, CleanFinishKeeps, CleanRemoveKeeps DEF Cleanup
<1>5. ASSUME NEW a \in Admins, Admin(a) PROVE IInv'
  BY <1>5, AdminCheckKeeps, AdminWriteKeeps, AdminStopKeeps, AdminReasonKeeps DEF Admin
<1>6. CASE Crash
  BY <1>6, CrashKeeps
<1>7. CASE UNCHANGED vars
  <2>1. UNCHANGED <<db, pipes, pipe, wg, phase, fate, nextPipes, campMsgQ, runner, scan,
                    worker, admin, budget>>
    BY <1>7 DEF vars
  <2>2. TypeOK' /\ Asking'
    BY <2>1
    DEF IInv, TypeOK, DbOK, PipesOK, PipeOK, WaitOK, FateOK, ChansOK, RunnerOK, ScanOK,
        WorkerOK, AdminOK, BudgetOK, Asking
  <2>3. Working' /\ ScanFresh' /\ Checkpoint'
    BY <2>1 DEF IInv, Working, Busy, ScanFresh, Checkpoint
  <2>4. Stopping'
    BY <2>1 DEF IInv, Stopping, StopPending
  <2> QED
    BY <2>1, <2>2, <2>3, <2>4, QuietStep DEF IInv
<1> QED
  BY <1>1, <1>2, <1>3, <1>4, <1>5, <1>6, <1>7 DEF Next

(* The invariant holds in every state of every behaviour.                  *)
THEOREM Invariant == Spec => []IInv
<1> QED
  BY InitHolds, NextKeeps, PTL DEF Spec

(* Every variable stays in its type and both channels within capacity.     *)
THEOREM TypeCorrect == Spec => []TypeOK
<1>1. IInv => TypeOK
  BY DEF IInv
<1> QED
  BY <1>1, Invariant, PTL

(* A pipe's cleanup starts only when nothing of it is queued, with a       *)
(* worker, in a batch, or waiting for one.                                 *)
THEOREM CleanupDrained == Spec => []CleanupAfterDrain
<1>1. IInv => CleanupAfterDrain
  <2> SUFFICES ASSUME IInv, NEW p \in Pipes, phase[p] \in Cleaning \cup {"gone"}
               PROVE  Undecided(p) = {} /\ ~Held(p)
    BY DEF CleanupAfterDrain
  <2>1. phase[p] # "wait"
    BY DEF Cleaning
  <2>2. ~Held(p)
    BY <2>1, HeldWaits
  <2>3. \A s \in Subs : fate[p][s] \notin Undone
    BY <2>1, UndoneWaits
  <2>4. \A s \in Subs : fate[p][s] # "fetched"
    BY <2>2 DEF IInv, Fetched, Held
  <2> QED
    BY <2>2, <2>3, <2>4 DEF Undecided
<1> QED
  BY <1>1, Invariant, PTL

(* No campaign is ever processed by two pipes.                             *)
THEOREM OnePipe == Spec => []OnePipePerCampaign
<1>1. IInv => OnePipePerCampaign
  BY DEF IInv
<1> QED
  BY <1>1, Invariant, PTL

(* A pipe that goes on to finish its campaign dropped nobody.              *)
THEOREM FinishedInFull == Spec => []FinishDropsNothing
<1>1. IInv => FinishDropsNothing
  <2> SUFFICES ASSUME IInv, NEW p \in Pipes, phase[p] = "finish", NEW s \in Subs
               PROVE  fate[p][s] \in {"none", "sent", "failed", "skipped"}
    BY DEF FinishDropsNothing
  <2>1. fate[p][s] \notin Undone
    BY UndoneWaits
  <2>2. fate[p][s] # "fetched"
    <3>1. ~Held(p)
      BY HeldWaits
    <3> QED
      BY <3>1 DEF IInv, Fetched, Held
  <2>3. fate[p][s] # "dropped"
    BY DEF IInv, Dropping
  <2>4. fate[p][s] \in Fates
    BY DEF IInv, TypeOK, FateOK
  <2> QED
    BY <2>1, <2>2, <2>3, <2>4 DEF Fates
<1> QED
  BY <1>1, Invariant, PTL

(* Only its own steps, and a crash, move a worker.                         *)
LEMMA TouchesWorker ==
  ASSUME IInv, [Next]_vars, NEW v \in Workers, worker'[v] # worker[v]
  PROVE  Worker(v) \/ Crash
<1>1. CASE RunLoop
  BY <1>1 DEF RunLoop, FetchNothing, FetchBatch, FetchFails, EnqueueMessage,
              SkipUnrendered, Requeue, RequeueOverflow
<1>2. CASE Scanner
  BY <1>2 DEF Scanner, ScanTick, ScanQuery, ScanQueryFails, Launch, LaunchFails
<1>3. ASSUME NEW w \in Workers, Worker(w) PROVE Worker(v)
  <2>1. \E x : worker' = [worker EXCEPT ![w] = x]
    <3>1. CASE WorkerTake(w)
      BY <3>1 DEF WorkerTake
    <3>2. CASE WorkerDrop(w)
      BY <3>2 DEF WorkerDrop
    <3>3. CASE WorkerCheck(w) \/ WorkerPush(w)
      BY <3>3 DEF WorkerCheck, WorkerPush
    <3>4. CASE WorkerDone(w)
      BY <3>4 DEF WorkerDone
    <3>5. CASE WorkerOnError(w)
      BY <3>5 DEF WorkerOnError
    <3>6. CASE WorkerLoadLast(w)
      BY <3>6 DEF WorkerLoadLast
    <3>7. CASE WorkerStoreLast(w)
      BY <3>7 DEF WorkerStoreLast
    <3> QED
      BY <1>3, <3>1, <3>2, <3>3, <3>4, <3>5, <3>6, <3>7 DEF Worker
  <2>2. v = w
    BY <2>1 DEF IInv, TypeOK, WorkerOK
  <2> QED
    BY <1>3, <2>2
<1>4. ASSUME NEW p \in Pipes, Cleanup(p) PROVE FALSE
  BY <1>4 DEF Cleanup, CleanCounts, CleanWithErrors, CleanPause, CleanReason,
              CleanStopped, CleanStatus, CleanFinish, CleanRemove
<1>5. ASSUME NEW a \in Admins, Admin(a) PROVE FALSE
  BY <1>5 DEF Admin, AdminCheck, AdminWrite, AdminStop, AdminReason
<1>6. CASE UNCHANGED vars
  BY <1>6 DEF vars
<1> QED
  BY <1>1, <1>2, <1>3, <1>4, <1>5, <1>6 DEF Next

(* No worker lets a message of a campaign whose pause or cancellation is   *)
(* through past its check.                                                 *)
THEOREM NonePastCheckAfterPause == Spec => NonePastCheckOncePaused
<1> DEFINE NonePast ==
      \A w \in Workers :
        worker[w].pc = "taken" /\ worker'[w].pc = "sending"
          => LET c == pipe[worker[w].pipe].camp
             IN db[c].status \in {"paused", "cancelled"} => StopPending(c)
<1>1. IInv /\ [Next]_vars => [NonePast]_vars
  <2> SUFFICES ASSUME IInv, [Next]_vars, NEW w \in Workers,
                      worker[w].pc = "taken", worker'[w].pc = "sending",
                      db[pipe[worker[w].pipe].camp].status \in {"paused", "cancelled"}
               PROVE  StopPending(pipe[worker[w].pipe].camp)
    OBVIOUS
  <2>1. WorkerCheck(w)
    <3>1. \A v \in Workers : worker'[v] # worker[v] => Worker(v) \/ Crash
      BY TouchesWorker
    <3>2. Worker(w) \/ Crash
      BY <3>1
    <3>3. ~Crash
      BY DEF Crash, IdleWorker
    <3> QED
      BY <3>2, <3>3
      DEF Worker, WorkerTake, WorkerDrop, WorkerPush, WorkerDone, WorkerOnError,
          WorkerLoadLast, WorkerStoreLast, IInv, TypeOK, WorkerOK, IdleWorker
  <2>2. /\ worker[w].pipe \in Pipes /\ worker[w].sub \in Subs
        /\ fate[worker[w].pipe][worker[w].sub] = "taken"
    BY DEF IInv, Working, Busy
  <2>3. phase[worker[w].pipe] = "wait"
    BY <2>2, UndoneWaits DEF Undone
  <2> QED
    BY <2>1, <2>2, <2>3 DEF WorkerCheck, IInv, Stopping
<1>2. QED
  BY <1>1, Invariant, PTL DEF Spec, NonePastCheckOncePaused

=============================================================================
