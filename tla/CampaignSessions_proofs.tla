------------------------ MODULE CampaignSessions_proofs ------------------------
(***************************************************************************)
(* The manager implements CampaignSessions, for every value of its         *)
(* constants: under the mapping of CampaignManager's instance Sessions,    *)
(* initial states map to initial states and every step maps to a step of   *)
(* the abstract specification or to a stutter.  The invariant IInv of      *)
(* CampaignManager_proofs is what makes the steps map: a pipe that is not  *)
(* listed has nobody left, and a batch never takes in anybody again.       *)
(***************************************************************************)
EXTENDS CampaignManager_proofs

-----------------------------------------------------------------------------
(* What the mapping shows of one campaign.                                 *)
SessionOf(c) ==
  IF pipes[c] = NoPipe THEN "closed"
  ELSE IF phase[pipes[c]] = "wait" THEN "open" ELSE "settling"
StopOf(c) == pipes[c] # NoPipe /\ pipe[pipes[c]].stopped
PendingOf(c) == SubsWith(c, Undone \cup {"fetched"})
ServedOf(c) == SubsWith(c, {"sent", "failed", "skipped"})
DroppedOf(c) == SubsWith(c, {"dropped"})

(* The variables of the abstract specification under the mapping.          *)
AbsSession == [c \in Campaigns |-> SessionOf(c)]
AbsStop == [c \in Campaigns |-> StopOf(c)]
AbsPending == [c \in Campaigns |-> PendingOf(c)]
AbsServed == [c \in Campaigns |-> ServedOf(c)]
AbsDropped == [c \in Campaigns |-> DroppedOf(c)]

SameSubs(c) ==
  /\ PendingOf(c)' = PendingOf(c)
  /\ ServedOf(c)' = ServedOf(c)
  /\ DroppedOf(c)' = DroppedOf(c)
Same(c) == SessionOf(c)' = SessionOf(c) /\ StopOf(c)' = StopOf(c) /\ SameSubs(c)
OthersSame(c) == \A d \in Campaigns \ {c} : Same(d)

-----------------------------------------------------------------------------
(* The steps of the abstract specification, one campaign at a time.        *)

(* Nothing changes for any campaign: a stutter.                            *)
LEMMA AbstractStutter ==
  ASSUME \A c \in Campaigns : Same(c)
  PROVE  UNCHANGED Sessions!vars
<1>1. UNCHANGED <<AbsSession, AbsStop, AbsPending, AbsServed, AbsDropped>>
  BY DEF AbsSession, AbsStop, AbsPending, AbsServed, AbsDropped, Same, SameSubs
<1> QED
  BY <1>1
  DEF Sessions!vars, AbsSession, AbsStop, AbsPending, AbsServed, AbsDropped, SessionOf,
      StopOf, PendingOf, ServedOf, DroppedOf

(* A pipe is created for a campaign that had none.                         *)
LEMMA AbstractOpen ==
  ASSUME NEW c \in Campaigns, OthersSame(c),
         SameSubs(c),
         SessionOf(c) = "closed", SessionOf(c)' = "open"
  PROVE  Sessions!Open(c)
<1>1. UNCHANGED <<AbsPending, AbsServed, AbsDropped>>
  BY DEF OthersSame, Same, SameSubs, AbsPending, AbsServed, AbsDropped
<1>2. AbsSession' = [AbsSession EXCEPT ![c] = "open"]
  BY DEF OthersSame, Same, SameSubs, AbsSession
<1>3. AbsStop' = [AbsStop EXCEPT ![c] = StopOf(c)']
  BY DEF OthersSame, Same, SameSubs, AbsStop
<1>4. AbsSession[c] = "closed" /\ StopOf(c)' \in BOOLEAN
  BY DEF AbsSession, StopOf
<1> QED
  BY <1>1, <1>2, <1>3, <1>4
  DEF Sessions!Open, AbsSession, AbsStop, AbsPending, AbsServed, AbsDropped,
      SessionOf, StopOf, PendingOf, ServedOf, DroppedOf

(* A pipe is told to stop, for the first time or again.                    *)
LEMMA AbstractStop ==
  ASSUME NEW c \in Campaigns, OthersSame(c),
         SameSubs(c),
         SessionOf(c) # "closed", SessionOf(c)' = SessionOf(c), StopOf(c)' = TRUE
  PROVE  Sessions!Stop(c)
<1>1. UNCHANGED <<AbsSession, AbsPending, AbsServed, AbsDropped>>
  BY DEF OthersSame, Same, SameSubs, AbsSession, AbsPending, AbsServed, AbsDropped
<1>2. AbsStop' = [AbsStop EXCEPT ![c] = TRUE]
  BY DEF OthersSame, Same, SameSubs, AbsStop
<1>3. AbsSession[c] # "closed"
  BY DEF AbsSession
<1> QED
  BY <1>1, <1>2, <1>3
  DEF Sessions!Stop, AbsSession, AbsStop, AbsPending, AbsServed, AbsDropped,
      SessionOf, StopOf, PendingOf, ServedOf, DroppedOf

(* A batch of subscribers the session has not had is taken in.             *)
LEMMA AbstractFetch ==
  ASSUME NEW c \in Campaigns, NEW batch \in SUBSET Subs, OthersSame(c),
         SessionOf(c) = "open", SessionOf(c)' = "open", StopOf(c)' = StopOf(c),
         batch \cap (PendingOf(c) \cup ServedOf(c) \cup DroppedOf(c)) = {},
         PendingOf(c)' = PendingOf(c) \cup batch,
         ServedOf(c)' = ServedOf(c), DroppedOf(c)' = DroppedOf(c)
  PROVE  Sessions!Fetch(c, batch)
<1>1. UNCHANGED <<AbsSession, AbsStop, AbsServed, AbsDropped>>
  BY DEF OthersSame, Same, SameSubs, AbsSession, AbsStop, AbsServed, AbsDropped
<1>2. AbsPending' = [AbsPending EXCEPT ![c] = @ \cup batch]
  BY DEF OthersSame, Same, SameSubs, AbsPending
<1>3. AbsSession[c] = "open" /\ batch \cap (AbsPending[c] \cup AbsServed[c] \cup AbsDropped[c]) = {}
  BY DEF AbsDropped, AbsPending, AbsServed, AbsSession
<1> QED
  BY <1>1, <1>2, <1>3
  DEF Sessions!Fetch, AbsSession, AbsStop, AbsPending, AbsServed, AbsDropped,
      SessionOf, StopOf, PendingOf, ServedOf, DroppedOf

(* A subscriber is decided on: pushed, refused or not renderable.          *)
LEMMA AbstractServe ==
  ASSUME NEW c \in Campaigns, NEW s \in PendingOf(c), OthersSame(c),
         SessionOf(c)' = SessionOf(c), StopOf(c)' = StopOf(c),
         PendingOf(c)' = PendingOf(c) \ {s},
         ServedOf(c)' = ServedOf(c) \cup {s}, DroppedOf(c)' = DroppedOf(c)
  PROVE  Sessions!Serve(c, s)
<1>1. UNCHANGED <<AbsSession, AbsStop, AbsDropped>>
  BY DEF OthersSame, Same, SameSubs, AbsSession, AbsStop, AbsDropped
<1>2. AbsPending' = [AbsPending EXCEPT ![c] = @ \ {s}]
  BY DEF OthersSame, Same, SameSubs, AbsPending
<1>3. AbsServed' = [AbsServed EXCEPT ![c] = @ \cup {s}]
  BY DEF OthersSame, Same, SameSubs, AbsServed
<1>4. s \in AbsPending[c]
  BY DEF AbsPending
<1> QED
  BY <1>1, <1>2, <1>3, <1>4
  DEF Sessions!Serve, AbsSession, AbsStop, AbsPending, AbsServed, AbsDropped,
      SessionOf, StopOf, PendingOf, ServedOf, DroppedOf

(* A stopped session drops a subscriber.                                   *)
LEMMA AbstractDrop ==
  ASSUME NEW c \in Campaigns, NEW s \in PendingOf(c), OthersSame(c),
         StopOf(c),
         SessionOf(c)' = SessionOf(c), StopOf(c)' = StopOf(c),
         PendingOf(c)' = PendingOf(c) \ {s},
         ServedOf(c)' = ServedOf(c), DroppedOf(c)' = DroppedOf(c) \cup {s}
  PROVE  Sessions!Drop(c, s)
<1>1. UNCHANGED <<AbsSession, AbsStop, AbsServed>>
  BY DEF OthersSame, Same, SameSubs, AbsSession, AbsStop, AbsServed
<1>2. AbsPending' = [AbsPending EXCEPT ![c] = @ \ {s}]
  BY DEF OthersSame, Same, SameSubs, AbsPending
<1>3. AbsDropped' = [AbsDropped EXCEPT ![c] = @ \cup {s}]
  BY DEF OthersSame, Same, SameSubs, AbsDropped
<1>4. AbsStop[c] /\ s \in AbsPending[c]
  BY DEF AbsPending, AbsStop
<1> QED
  BY <1>1, <1>2, <1>3, <1>4
  DEF Sessions!Drop, AbsSession, AbsStop, AbsPending, AbsServed, AbsDropped,
      SessionOf, StopOf, PendingOf, ServedOf, DroppedOf

(* A session with nobody left goes on to its cleanup.                      *)
LEMMA AbstractSettle ==
  ASSUME NEW c \in Campaigns, OthersSame(c),
         SameSubs(c), StopOf(c)' = StopOf(c),
         SessionOf(c) = "open", SessionOf(c)' = "settling", PendingOf(c) = {}
  PROVE  Sessions!Settle(c)
<1>1. UNCHANGED <<AbsStop, AbsPending, AbsServed, AbsDropped>>
  BY DEF OthersSame, Same, SameSubs, AbsStop, AbsPending, AbsServed, AbsDropped
<1>2. AbsSession' = [AbsSession EXCEPT ![c] = "settling"]
  BY DEF OthersSame, Same, SameSubs, AbsSession
<1>3. AbsSession[c] = "open" /\ AbsPending[c] = {}
  BY DEF AbsPending, AbsSession
<1> QED
  BY <1>1, <1>2, <1>3
  DEF Sessions!Settle, AbsSession, AbsStop, AbsPending, AbsServed, AbsDropped,
      SessionOf, StopOf, PendingOf, ServedOf, DroppedOf

(* The session leaves m.pipes.                                             *)
LEMMA AbstractClose ==
  ASSUME NEW c \in Campaigns, OthersSame(c),
         SessionOf(c) = "settling", SessionOf(c)' = "closed", StopOf(c)' = FALSE,
         PendingOf(c)' = PendingOf(c), ServedOf(c)' = {}, DroppedOf(c)' = {}
  PROVE  Sessions!Close(c)
<1>1. UNCHANGED <<AbsPending>>
  BY DEF OthersSame, Same, SameSubs, AbsPending
<1>2. AbsSession' = [AbsSession EXCEPT ![c] = "closed"]
  BY DEF OthersSame, Same, SameSubs, AbsSession
<1>3. AbsStop' = [AbsStop EXCEPT ![c] = FALSE]
  BY DEF OthersSame, Same, SameSubs, AbsStop
<1>4. AbsServed' = [AbsServed EXCEPT ![c] = {}]
  BY DEF OthersSame, Same, SameSubs, AbsServed
<1>5. AbsDropped' = [AbsDropped EXCEPT ![c] = {}]
  BY DEF OthersSame, Same, SameSubs, AbsDropped
<1>6. AbsSession[c] = "settling"
  BY DEF AbsSession
<1> QED
  BY <1>1, <1>2, <1>3, <1>4, <1>5, <1>6
  DEF Sessions!Close, AbsSession, AbsStop, AbsPending, AbsServed, AbsDropped,
      SessionOf, StopOf, PendingOf, ServedOf, DroppedOf

-----------------------------------------------------------------------------
(* What a step of the manager looks like from there.                       *)
SessionStep == [Sessions!Next]_Sessions!vars

(* A pipe that is alive is the one its campaign lists.                     *)
LEMMA Listed ==
  ASSUME IInv, NEW p \in Pipes, Live(p)
  PROVE  /\ pipe[p].camp \in Campaigns
         /\ pipes[pipe[p].camp] = p /\ p # NoPipe
         /\ \A d \in Campaigns \ {pipe[p].camp} : pipes[d] # p
<1>1. p # NoPipe
  BY ConstantsAssumption
<1> QED
  BY <1>1 DEF IInv, OnePipePerCampaign, Owned

(* Pipes, cleanups, fates and stops are as before: a stutter.              *)
LEMMA QuietSessions ==
  ASSUME IInv, UNCHANGED <<pipes, phase, fate>>,
         \A p \in Pipes : pipe'[p].stopped = pipe[p].stopped
  PROVE  SessionStep
<1>1. \A c \in Campaigns : pipes[c] # NoPipe => pipes[c] \in Pipes
  BY DEF IInv, TypeOK, PipesOK
<1>2. \A c \in Campaigns : SessionOf(c)' = SessionOf(c) /\ SameSubs(c)
  BY DEF SessionOf, SameSubs, PendingOf, ServedOf, DroppedOf, SubsWith
<1>3. \A c \in Campaigns : StopOf(c)' = StopOf(c)
  BY <1>1 DEF StopOf
<1> QED
  BY <1>2, <1>3, AbstractStutter DEF Same, SessionStep

(* At most one pipe is stopped: a Stop of its campaign, or a stutter when  *)
(* it was stopped before or no campaign lists it any more.                 *)
LEMMA StopsSession ==
  ASSUME IInv, NEW p \in Pipes, UNCHANGED <<pipes, phase, fate>>,
         \A q \in Pipes \ {p} : pipe'[q].stopped = pipe[q].stopped,
         pipe'[p].stopped = pipe[p].stopped \/ pipe'[p].stopped = TRUE
  PROVE  SessionStep
<1>1. CASE pipe'[p].stopped = pipe[p].stopped
  BY <1>1, QuietSessions
<1>2. ASSUME pipe'[p].stopped = TRUE, NEW c \in Campaigns, pipes[c] = p
      PROVE  SessionStep
  <2>1. p # NoPipe
    BY ConstantsAssumption
  <2>2. \A d \in Campaigns \ {c} : pipes[d] # p /\ (pipes[d] # NoPipe => pipes[d] \in Pipes)
    BY <1>2, <2>1 DEF IInv, Owned, TypeOK, PipesOK
  <2>3. \A d \in Campaigns : SessionOf(d)' = SessionOf(d) /\ SameSubs(d)
    BY DEF SessionOf, SameSubs, PendingOf, ServedOf, DroppedOf, SubsWith
  <2>4. \A d \in Campaigns \ {c} : StopOf(d)' = StopOf(d)
    BY <2>2 DEF StopOf
  <2>5. StopOf(c)' = TRUE /\ SessionOf(c) # "closed"
    BY <1>2, <2>1 DEF StopOf, SessionOf
  <2>6. Sessions!Stop(c)
    BY <2>3, <2>4, <2>5, AbstractStop DEF OthersSame, Same
  <2> QED
    BY <2>6 DEF SessionStep, Sessions!Next
<1>3. CASE \A c \in Campaigns : pipes[c] # p
  <2>1. \A c \in Campaigns : pipes[c] # NoPipe => pipes[c] \in Pipes \ {p}
    BY <1>3 DEF IInv, TypeOK, PipesOK
  <2>2. \A c \in Campaigns : SessionOf(c)' = SessionOf(c) /\ SameSubs(c)
    BY DEF SessionOf, SameSubs, PendingOf, ServedOf, DroppedOf, SubsWith
  <2>3. \A c \in Campaigns : StopOf(c)' = StopOf(c)
    BY <2>1 DEF StopOf
  <2> QED
    BY <2>2, <2>3, AbstractStutter DEF Same, SessionStep
<1> QED
  BY <1>1, <1>2, <1>3

(* Something becomes of one subscriber of a pipe that waits: it stays      *)
(* pending, or it is served, or it is dropped by a stopped pipe.           *)
LEMMA MarksSession ==
  ASSUME IInv, NEW p \in Pipes, NEW s \in Subs, NEW f \in Fates,
         phase[p] = "wait", fate[p][s] \in Undone \cup {"fetched"},
         f \notin {"none"}, f = "dropped" => pipe[p].stopped,
         Mark(p, s, f), UNCHANGED <<pipes, phase>>,
         \A q \in Pipes : pipe'[q].stopped = pipe[q].stopped
  PROVE  SessionStep
<1>1. PICK c \in Campaigns :
        pipes[c] = p /\ p # NoPipe /\ \A d \in Campaigns \ {c} : pipes[d] # p
  <2>1. Live(p)
    BY DEF Live
  <2> QED
    BY <2>1, Listed
<1>2. \A q \in Pipes, u \in Subs :
        fate'[q][u] = IF q = p /\ u = s THEN f ELSE fate[q][u]
  BY MarkCounts DEF IInv
<1>3. \A d \in Campaigns : pipes[d] # NoPipe => pipes[d] \in Pipes
  BY DEF IInv, TypeOK, PipesOK
<1>4. \A d \in Campaigns : SessionOf(d)' = SessionOf(d) /\ StopOf(d)' = StopOf(d)
  BY <1>3 DEF SessionOf, StopOf
<1>5. ASSUME NEW d \in Campaigns \ {c} PROVE SameSubs(d)
  <2>1. CASE pipes[d] = NoPipe
    BY <2>1 DEF SameSubs, PendingOf, ServedOf, DroppedOf, SubsWith
  <2>2. CASE pipes[d] # NoPipe
    <3>1. \A u \in Subs : fate'[pipes[d]][u] = fate[pipes[d]][u]
      BY <1>1, <1>2, <1>3, <2>2
    <3> QED
      BY <3>1 DEF SameSubs, PendingOf, ServedOf, DroppedOf, SubsWith
  <2> QED
    BY <2>1, <2>2
<1>6. OthersSame(c)
  BY <1>4, <1>5 DEF OthersSame, Same
<1>7. s \in PendingOf(c)
  BY <1>1 DEF PendingOf, SubsWith
<1>8. CASE f \in Undone \cup {"fetched"}
  <2>1. SameSubs(c)
    BY <1>1, <1>2, <1>8
    DEF SameSubs, PendingOf, ServedOf, DroppedOf, SubsWith, Undone
  <2>2. \A d \in Campaigns : Same(d)
    BY <1>1, <1>4, <1>5, <2>1 DEF Same
  <2> QED
    BY <2>2, AbstractStutter DEF SessionStep
<1>9. CASE f \in {"sent", "failed", "skipped"}
  <2>1. /\ PendingOf(c)' = PendingOf(c) \ {s}
        /\ ServedOf(c)' = ServedOf(c) \cup {s}
        /\ DroppedOf(c)' = DroppedOf(c)
    BY <1>1, <1>2, <1>9 DEF PendingOf, ServedOf, DroppedOf, SubsWith, Undone
  <2>2. Sessions!Serve(c, s)
    BY <1>1, <1>4, <1>6, <1>7, <2>1, AbstractServe
  <2> QED
    BY <1>1, <2>2 DEF SessionStep, Sessions!Next
<1>10. CASE f = "dropped"
  <2>1. /\ PendingOf(c)' = PendingOf(c) \ {s}
        /\ ServedOf(c)' = ServedOf(c)
        /\ DroppedOf(c)' = DroppedOf(c) \cup {s}
    BY <1>1, <1>2, <1>10 DEF PendingOf, ServedOf, DroppedOf, SubsWith, Undone
  <2>2. StopOf(c)
    BY <1>1, <1>10 DEF StopOf
  <2>3. Sessions!Drop(c, s)
    BY <1>1, <1>4, <1>6, <1>7, <2>1, <2>2, AbstractDrop
  <2> QED
    BY <1>1, <2>3 DEF SessionStep, Sessions!Next
<1> QED
  BY <1>8, <1>9, <1>10 DEF Fates

-----------------------------------------------------------------------------
(* The steps of the manager.                                               *)

(* pipe.Stop leaves the pipe stopped, and touches no other.                *)
LEMMA StopIsStop ==
  ASSUME IInv, NEW p \in Pipes, NEW e \in BOOLEAN, NEW r \in PipeFields,
         pipe' = [pipe EXCEPT ![p] = StoppedPipe(r, e)]
  PROVE  /\ pipe'[p].stopped = TRUE
         /\ \A q \in Pipes \ {p} : pipe'[q].stopped = pipe[q].stopped
<1>1. StoppedPipe(r, e).stopped = TRUE
  BY DEF StoppedPipe, PipeFields
<1> QED
  BY <1>1 DEF IInv, TypeOK, PipeOK

(* The Run loop takes in a batch: the subscribers are beyond the           *)
(* checkpoint, and everybody the pipe has had is not.                      *)
LEMMA FetchBatchSession ==
  ASSUME IInv, FetchBatch
  PROVE  SessionStep
<1> PICK p \in {Head(nextPipes)} : TRUE
  OBVIOUS
<1> PICK c \in {pipe[p].camp} : TRUE
  OBVIOUS
<1> PICK b \in {Batch(c)} : TRUE
  OBVIOUS
<1>1. /\ nextPipes # <<>> /\ runner.pipe = NoPipe /\ nextPipes' = Tail(nextPipes)
      /\ fate' = [fate EXCEPT ![p] = [s \in Subs |-> IF s \in b THEN "fetched" ELSE @[s]]]
      /\ UNCHANGED <<pipes, pipe, phase>>
  BY DEF FetchBatch
<1>2. p \in Pipes /\ phase[p] = "wait"
  BY <1>1, TakeNextPipe, HeldWaits
<1>3. c \in Campaigns /\ pipes[c] = p /\ p # NoPipe /\ \A d \in Campaigns \ {c} : pipes[d] # p
  <2>1. Live(p)
    BY <1>2 DEF Live
  <2> QED
    BY <1>2, <2>1, Listed
<1>4. b \subseteq Subs /\ \A s \in b : s > db[c].last /\ s \in Nat
  BY <1>3, ConstantsAssumption DEF Batch, Ahead, Subs
<1>5. \A s \in b : fate[p][s] = "none"
  <2>1. db[c].last \in Nat
    BY <1>3 DEF IInv, TypeOK, DbOK
  <2> QED
    BY <1>2, <1>4, <2>1 DEF IInv, Checkpoint
<1>6. \A q \in Pipes, s \in Subs :
        fate'[q][s] = IF q = p /\ s \in b THEN "fetched" ELSE fate[q][s]
  BY <1>1, <1>2 DEF IInv, TypeOK, FateOK
<1>7. \A d \in Campaigns : SessionOf(d)' = SessionOf(d) /\ StopOf(d)' = StopOf(d)
  BY <1>1 DEF SessionOf, StopOf
<1>8. ASSUME NEW d \in Campaigns \ {c} PROVE SameSubs(d)
  <2>1. CASE pipes[d] = NoPipe
    BY <1>1, <2>1 DEF SameSubs, PendingOf, ServedOf, DroppedOf, SubsWith
  <2>2. CASE pipes[d] # NoPipe
    <3>1. pipes[d] \in Pipes \ {p}
      BY <1>3, <2>2 DEF IInv, TypeOK, PipesOK
    <3>2. \A u \in Subs : fate'[pipes[d]][u] = fate[pipes[d]][u]
      BY <1>6, <3>1
    <3>3. pipes'[d] = pipes[d]
      BY <1>1
    <3>4. \A F : SubsWith(d, F)' = SubsWith(d, F)
      BY <3>2, <3>3 DEF SubsWith
    <3> QED
      BY <3>4 DEF SameSubs, PendingOf, ServedOf, DroppedOf
  <2> QED
    BY <2>1, <2>2
<1>9. /\ PendingOf(c)' = PendingOf(c) \cup b
      /\ ServedOf(c)' = ServedOf(c) /\ DroppedOf(c)' = DroppedOf(c)
  BY <1>1, <1>2, <1>3, <1>4, <1>5, <1>6 DEF PendingOf, ServedOf, DroppedOf, SubsWith
<1>10. b \cap (PendingOf(c) \cup ServedOf(c) \cup DroppedOf(c)) = {}
  BY <1>3, <1>5 DEF PendingOf, ServedOf, DroppedOf, SubsWith, Undone
<1>11. SessionOf(c) = "open"
  BY <1>2, <1>3 DEF SessionOf
<1>12. Sessions!Fetch(c, b)
  BY <1>3, <1>4, <1>7, <1>8, <1>9, <1>10, <1>11, AbstractFetch DEF OthersSame, Same
<1> QED
  BY <1>3, <1>4, <1>12 DEF SessionStep, Sessions!Next

(* The other steps of the Run loop decide on a subscriber, stop a pipe, or *)
(* show nothing.                                                           *)
LEMMA RunLoopSession ==
  ASSUME IInv, RunLoop
  PROVE  SessionStep
<1>1. CASE FetchNothing \/ Requeue
  <2>1. UNCHANGED <<pipes, pipe, phase, fate>>
    BY <1>1 DEF FetchNothing, Requeue, pipeVars
  <2> QED
    BY <2>1, QuietSessions
<1>2. CASE FetchBatch
  BY <1>2, FetchBatchSession
<1>3. ASSUME NEW p \in Pipes, StopAndRelease(p), UNCHANGED <<pipes, phase, fate>>
      PROVE  SessionStep
  <2>1. pipe[p] \in PipeFields
    BY DEF IInv, TypeOK, PipeOK, PipeFields
  <2>2. pipe' = [pipe EXCEPT ![p] = StoppedPipe(pipe[p], FALSE)]
    BY <1>3 DEF StopAndRelease
  <2>3. pipe'[p].stopped = TRUE /\ \A q \in Pipes \ {p} : pipe'[q].stopped = pipe[q].stopped
    BY <2>1, <2>2, StopIsStop
  <2> QED
    BY <1>3, <2>3, StopsSession
<1>4. CASE FetchFails
  BY <1>3, <1>4, TakeNextPipe DEF FetchFails
<1>5. CASE RequeueOverflow
  <2>1. runner.pipe \in Pipes
    BY <1>5 DEF RequeueOverflow, IInv, TypeOK, RunnerOK
  <2> QED
    BY <1>3, <1>5, <2>1 DEF RequeueOverflow
<1>6. ASSUME NEW s \in runner.batch, NEW f \in {"queued", "skipped"},
             Mark(runner.pipe, s, f), UNCHANGED <<pipes, pipe, phase>>
      PROVE  SessionStep
  <2>1. runner.pipe \in Pipes /\ s \in Subs /\ fate[runner.pipe][s] = "fetched"
    BY DEF IInv, TypeOK, RunnerOK, OneToken, Fetched
  <2>2. phase[runner.pipe] = "wait"
    BY <2>1, HeldWaits DEF Held
  <2>3. f \in Fates
    BY DEF Fates, Undone
  <2> QED
    BY <1>6, <2>1, <2>2, <2>3, MarksSession
<1>7. CASE EnqueueMessage \/ SkipUnrendered
  BY <1>6, <1>7 DEF EnqueueMessage, SkipUnrendered
<1> QED
  BY <1>1, <1>2, <1>4, <1>5, <1>7 DEF RunLoop

(* The workers: a message that was counted is decided on, once.            *)
LEMMA WorkerSession ==
  ASSUME IInv, NEW w \in Workers, Worker(w)
  PROVE  SessionStep
<1>1. ASSUME NEW p \in Pipes, NEW s \in Subs, NEW f \in Fates \ {"none"},
             fate[p][s] \in Undone, f = "dropped" => pipe[p].stopped,
             Mark(p, s, f), UNCHANGED <<pipes, pipe, phase>>
      PROVE  SessionStep
  <2>1. phase[p] = "wait"
    BY <1>1, UndoneWaits
  <2> QED
    BY <1>1, <2>1, MarksSession
<1>2. CASE WorkerTake(w)
  <2>1. /\ campMsgQ # <<>> /\ Mark(Head(campMsgQ).pipe, Head(campMsgQ).sub, "taken")
        /\ UNCHANGED <<pipes, pipe, phase>>
    BY <1>2 DEF WorkerTake
  <2>2. /\ 1 \in DOMAIN campMsgQ /\ Head(campMsgQ) = campMsgQ[1]
        /\ Head(campMsgQ) \in [pipe : Pipes, sub : Subs]
    <3> DEFINE M == [pipe : Pipes, sub : Subs]
    <3>1. campMsgQ \in Seq(M)
      BY DEF IInv, TypeOK, ChansOK
    <3> HIDE DEF M
    <3>2. 1 \in DOMAIN campMsgQ /\ Head(campMsgQ) = campMsgQ[1] /\ Head(campMsgQ) \in M
      BY <2>1, <3>1, HeadTail
    <3> QED
      BY <3>2 DEF M
  <2>3. /\ Head(campMsgQ).pipe \in Pipes /\ Head(campMsgQ).sub \in Subs
        /\ fate[Head(campMsgQ).pipe][Head(campMsgQ).sub] = "queued"
    BY <2>2 DEF IInv, Queued
  <2>4. "taken" \in Fates \ {"none"} /\ "queued" \in Undone
    BY DEF Fates, Undone
  <2> QED
    BY <1>1, <2>1, <2>3, <2>4
<1>3. ASSUME Busy(w), NEW f \in {"dropped", "sending", "pushed", "refused", "sent", "failed"},
             f = "dropped" => pipe[worker[w].pipe].stopped,
             Mark(worker[w].pipe, worker[w].sub, f), UNCHANGED <<pipes, pipe, phase>>
      PROVE  SessionStep
  <2>1. /\ worker[w].pipe \in Pipes /\ worker[w].sub \in Subs
        /\ fate[worker[w].pipe][worker[w].sub] \in Undone
    BY <1>3 DEF IInv, Working, Busy, Undone
  <2>2. f \in Fates \ {"none"}
    BY DEF Fates, Undone
  <2> QED
    BY <1>1, <1>3, <2>1, <2>2
<1>4. CASE WorkerDrop(w) \/ WorkerCheck(w) \/ WorkerPush(w) \/ WorkerDone(w)
  BY <1>3, <1>4 DEF WorkerDrop, WorkerCheck, WorkerPush, WorkerDone, Busy
<1>5. CASE WorkerOnError(w)
  <2> PICK p \in {worker[w].pipe} : TRUE
    OBVIOUS
  <2>1. p \in Pipes
    BY <1>5 DEF WorkerOnError, IInv, Working
  <2> DEFINE counted == [pipe[p] EXCEPT !.errors = @ + 1]
  <2>2. pipe[p] \in PipeFields /\ counted \in PipeFields /\ counted.stopped = pipe[p].stopped
    BY <2>1 DEF IInv, TypeOK, PipeOK, PipeFields
  <2>3. /\ pipe' = [pipe EXCEPT ![p] = IF MaxSendErrors = 0 THEN pipe[p]
                                       ELSE IF counted.errors < MaxSendErrors THEN counted
                                       ELSE StoppedPipe(counted, TRUE)]
        /\ UNCHANGED <<pipes, phase, fate>>
    BY <1>5 DEF WorkerOnError
  <2>4. CASE pipe' = [pipe EXCEPT ![p] = pipe[p]] \/ pipe' = [pipe EXCEPT ![p] = counted]
    <3>1. \A q \in Pipes : pipe'[q].stopped = pipe[q].stopped
      BY <2>1, <2>2, <2>4 DEF IInv, TypeOK, PipeOK
    <3> QED
      BY <2>3, <3>1, QuietSessions
  <2>5. CASE pipe' = [pipe EXCEPT ![p] = StoppedPipe(counted, TRUE)]
    <3> HIDE DEF counted
    <3>1. /\ pipe'[p].stopped = TRUE
          /\ \A q \in Pipes \ {p} : pipe'[q].stopped = pipe[q].stopped
      BY <2>1, <2>2, <2>5, StopIsStop
    <3> QED
      BY <2>1, <2>3, <3>1, StopsSession
  <2> HIDE DEF counted
  <2> QED
    BY <2>3, <2>4, <2>5
<1>6. CASE WorkerLoadLast(w) \/ WorkerStoreLast(w)
  <2>1. worker[w].pipe \in Pipes
    BY <1>6 DEF WorkerLoadLast, WorkerStoreLast, IInv, Working
  <2>2. \A q \in Pipes : pipe'[q].stopped = pipe[q].stopped
    <3>1. CASE UNCHANGED pipe
      BY <3>1
    <3>2. ASSUME NEW r \in PipeFields, r.stopped = pipe[worker[w].pipe].stopped,
                 pipe' = [pipe EXCEPT ![worker[w].pipe] = r]
          PROVE  \A q \in Pipes : pipe'[q].stopped = pipe[q].stopped
      BY <2>1, <3>2 DEF IInv, TypeOK, PipeOK
    <3> DEFINE old == pipe[worker[w].pipe]
    <3>3. old \in PipeFields /\ worker[w].sub \in Nat
      BY <1>6, <2>1, ConstantsAssumption
      DEF WorkerLoadLast, WorkerStoreLast, IInv, TypeOK, PipeOK, PipeFields, Working, Subs
    <3>4. CountSent(old) \in PipeFields /\ CountSent(old).stopped = old.stopped
      BY <3>3 DEF CountSent, PipeFields
    <3> DEFINE stored == [old EXCEPT !.lastID = worker[w].sub]
    <3>5. stored \in PipeFields /\ stored.stopped = old.stopped
      BY <3>3 DEF PipeFields
    <3>6. CountSent(stored) \in PipeFields /\ CountSent(stored).stopped = old.stopped
      <4> HIDE DEF stored
      <4> QED
        BY <3>5 DEF CountSent, PipeFields
    <3> QED
      BY <1>6, <3>1, <3>2, <3>4, <3>6 DEF WorkerLoadLast, WorkerStoreLast
  <2>3. UNCHANGED <<pipes, phase, fate>>
    BY <1>6 DEF WorkerLoadLast, WorkerStoreLast
  <2> QED
    BY <2>2, <2>3, QuietSessions
<1> QED
  BY <1>2, <1>4, <1>5, <1>6 DEF Worker

(* cleanup: a session settles when its WaitGroup reached 0, closes when    *)
(* the pipe leaves m.pipes, and shows nothing in between.                  *)
LEMMA CleanupSession ==
  ASSUME IInv, NEW p \in Pipes, Cleanup(p)
  PROVE  SessionStep
<1>1. phase[p] \in {"wait"} \cup Cleaning /\ Live(p)
  BY DEF Cleanup, CleanCounts, CleanWithErrors, CleanPause, CleanReason, CleanStopped,
         CleanStatus, CleanFinish, CleanRemove, Cleaning, Live
<1>2. PICK c \in Campaigns :
        pipes[c] = p /\ p # NoPipe /\ \A d \in Campaigns \ {c} : pipes[d] # p
  BY <1>1, Listed
<1>3. c = pipe[p].camp
  BY <1>2 DEF IInv, Owned
<1>4. wg[p] = 0 => ~Held(p) /\ PendingOf(c) = {}
  <2> SUFFICES ASSUME wg[p] = 0 PROVE ~Held(p) /\ PendingOf(c) = {}
    OBVIOUS
  <2>1. ~Held(p)
    BY HeldWaits
  <2>2. \A s \in Subs : fate[p][s] \notin Undone
    BY UndoneWaits
  <2>3. \A s \in Subs : fate[p][s] # "fetched"
    BY <2>1 DEF IInv, Fetched, Held
  <2> QED
    BY <1>2, <2>1, <2>2, <2>3 DEF PendingOf, SubsWith
<1>5. \A d \in Campaigns : pipes[d] # NoPipe => pipes[d] \in Pipes
  BY DEF IInv, TypeOK, PipesOK
<1>6. CASE CleanCounts(p)
  <2>1. /\ phase[p] = "wait" /\ wg[p] = 0 /\ phase' = [phase EXCEPT ![p] = "errors"]
        /\ UNCHANGED <<pipes, pipe, fate>>
    BY <1>6 DEF CleanCounts, Goto
  <2>2. \A d \in Campaigns : SameSubs(d) /\ StopOf(d)' = StopOf(d)
    BY <2>1 DEF SameSubs, PendingOf, ServedOf, DroppedOf, SubsWith, StopOf
  <2>3. /\ SessionOf(c) = "open" /\ SessionOf(c)' = "settling"
        /\ \A d \in Campaigns \ {c} : SessionOf(d)' = SessionOf(d)
    BY <1>2, <1>5, <2>1 DEF IInv, TypeOK, WaitOK, SessionOf
  <2>4. Sessions!Settle(c)
    BY <1>4, <2>1, <2>2, <2>3, AbstractSettle DEF OthersSame, Same
  <2> QED
    BY <2>4 DEF SessionStep, Sessions!Next
<1>7. CASE CleanRemove(p)
  <2>1. /\ phase[p] = "remove" /\ phase' = [phase EXCEPT ![p] = "gone"]
        /\ pipes' = [pipes EXCEPT ![c] = NoPipe]
        /\ UNCHANGED <<pipe, fate>>
    BY <1>3, <1>7 DEF CleanRemove, Goto
  <2>2. pipes'[c] = NoPipe /\ \A d \in Campaigns \ {c} : pipes'[d] = pipes[d]
    BY <2>1 DEF IInv, TypeOK, PipesOK
  <2>3. SessionOf(c) = "settling" /\ SessionOf(c)' = "closed" /\ StopOf(c)' = FALSE
    BY <1>2, <2>1, <2>2 DEF SessionOf, StopOf
  <2>4. PendingOf(c)' = {} /\ ServedOf(c)' = {} /\ DroppedOf(c)' = {}
    BY <2>2 DEF PendingOf, ServedOf, DroppedOf, SubsWith
  <2>5. PendingOf(c) = {}
    BY <1>4, <2>1 DEF IInv, OnlyWaiting
  <2>6. \A d \in Campaigns \ {c} : SessionOf(d)' = SessionOf(d)
    BY <1>2, <1>5, <2>1, <2>2 DEF IInv, TypeOK, WaitOK, SessionOf
  <2>7. \A d \in Campaigns \ {c} : SameSubs(d) /\ StopOf(d)' = StopOf(d)
    BY <2>1, <2>2 DEF SameSubs, PendingOf, ServedOf, DroppedOf, SubsWith, StopOf
  <2>8. Sessions!Close(c)
    BY <2>3, <2>4, <2>5, <2>6, <2>7, AbstractClose DEF OthersSame, Same
  <2> QED
    BY <2>8 DEF SessionStep, Sessions!Next
<1>8. CASE ~CleanCounts(p) /\ ~CleanRemove(p)
  <2>1. PICK next \in Cleaning : phase' = [phase EXCEPT ![p] = next]
    BY <1>8
    DEF Cleanup, CleanWithErrors, CleanPause, CleanReason, CleanStopped, AfterStopped,
        CleanStatus, CleanFinish, Goto, Cleaning
  <2>2. phase[p] # "wait" /\ UNCHANGED <<pipes, pipe, fate>>
    BY <1>8
    DEF Cleanup, CleanWithErrors, CleanPause, CleanReason, CleanStopped, CleanStatus,
        CleanFinish
  <2>3. \A d \in Campaigns : SessionOf(d)' = SessionOf(d)
    BY <1>5, <2>1, <2>2 DEF IInv, TypeOK, WaitOK, SessionOf, Cleaning
  <2>4. \A d \in Campaigns : SameSubs(d) /\ StopOf(d)' = StopOf(d)
    BY <2>2 DEF SameSubs, PendingOf, ServedOf, DroppedOf, SubsWith, StopOf
  <2> QED
    BY <2>3, <2>4, AbstractStutter DEF Same, SessionStep
<1> QED
  BY <1>6, <1>7, <1>8

(* newPipe opens a session: the campaign had none and the pipe has had     *)
(* nobody.                                                                 *)
LEMMA LaunchSession ==
  ASSUME IInv, NEW c \in Campaigns, Launch(c)
  PROVE  SessionStep
<1>1. PICK p \in Pipes :
        /\ phase[p] = "new"
        /\ pipes' = [pipes EXCEPT ![c] = p]
        /\ phase' = [phase EXCEPT ![p] = "wait"]
        /\ \E r : pipe' = [pipe EXCEPT ![p] = r]
        /\ UNCHANGED fate
  BY DEF Launch, Goto
<1>2. p # NoPipe /\ pipes[c] = NoPipe /\ \A d \in Campaigns : pipes[d] # p
  <2>1. pipes[c] = NoPipe
    BY DEF Launch, IInv, ScanFresh
  <2>2. ~Live(p)
    BY <1>1 DEF Live, Cleaning
  <2> QED
    BY <2>1, <2>2, ConstantsAssumption DEF IInv, Owned
<1>3. pipes'[c] = p /\ \A d \in Campaigns \ {c} : pipes'[d] = pipes[d]
  BY <1>1 DEF IInv, TypeOK, PipesOK
<1>4. \A d \in Campaigns : pipes[d] # NoPipe =>
        /\ pipes[d] \in Pipes /\ phase'[pipes[d]] = phase[pipes[d]]
        /\ pipe'[pipes[d]] = pipe[pipes[d]]
  BY <1>1, <1>2 DEF IInv, TypeOK, PipesOK, PipeOK, WaitOK
<1>5. \A d \in Campaigns \ {c} : SessionOf(d)' = SessionOf(d) /\ StopOf(d)' = StopOf(d)
  BY <1>3, <1>4 DEF SessionOf, StopOf
<1>6. \A d \in Campaigns \ {c} : SameSubs(d)
  BY <1>1, <1>3 DEF SameSubs, PendingOf, ServedOf, DroppedOf, SubsWith
<1>7. SessionOf(c) = "closed" /\ SessionOf(c)' = "open"
  BY <1>1, <1>2, <1>3 DEF SessionOf, IInv, TypeOK, WaitOK
<1>8. SameSubs(c)
  <2>1. \A s \in Subs : fate'[p][s] = "none"
    BY <1>1 DEF IInv, Owned
  <2> QED
    BY <1>2, <1>3, <2>1 DEF SameSubs, PendingOf, ServedOf, DroppedOf, SubsWith, Undone
<1>9. Sessions!Open(c)
  BY <1>5, <1>6, <1>7, <1>8, AbstractOpen DEF OthersSame, Same
<1> QED
  BY <1>9 DEF SessionStep, Sessions!Next

(* The scanner otherwise only takes counts and reads the database.         *)
LEMMA ScannerSession ==
  ASSUME IInv, Scanner
  PROVE  SessionStep
<1>1. CASE ScanTick
  <2>1. UNCHANGED <<pipes, phase, fate>>
    BY <1>1 DEF ScanTick
  <2>2. \E P : pipe' = [p \in Pipes |->
                        IF p \in P THEN [pipe[p] EXCEPT !.sent = 0] ELSE pipe[p]]
    BY <1>1 DEF ScanTick
  <2>3. \A p \in Pipes : pipe'[p].stopped = pipe[p].stopped
    BY <2>2 DEF IInv, TypeOK, PipeOK
  <2> QED
    BY <2>1, <2>3, QuietSessions
<1>2. ASSUME NEW c \in Campaigns, LaunchFails(c) PROVE SessionStep
  BY <1>2, QuietSessions DEF LaunchFails, pipeVars
<1>3. ASSUME NEW t \in Tenants, ScanQuery(t) \/ ScanQueryFails(t) PROVE SessionStep
  <2>1. UNCHANGED <<pipes, pipe, phase, fate>>
    BY <1>3 DEF ScanQuery, ScanQueryFails, pipeVars
  <2> QED
    BY <2>1, QuietSessions
<1> QED
  BY <1>1, <1>2, <1>3, LaunchSession DEF Scanner

(* Of a status request, the session sees its StopCampaign.                 *)
LEMMA AdminSession ==
  ASSUME IInv, NEW a \in Admins, Admin(a)
  PROVE  SessionStep
<1>1. CASE AdminStop(a)
  <2> PICK p \in {pipes[admin[a].camp]} : TRUE
    OBVIOUS
  <2>1. /\ pipe' = IF p = NoPipe THEN pipe
                   ELSE [pipe EXCEPT ![p] = StoppedPipe(pipe[p], FALSE)]
        /\ UNCHANGED <<pipes, phase, fate>>
    BY <1>1 DEF AdminStop
  <2>2. CASE p = NoPipe
    BY <2>1, <2>2, QuietSessions
  <2>3. CASE p # NoPipe
    <3>1. p \in Pipes
      BY <1>1, <2>3 DEF AdminStop, IInv, Asking, TypeOK, PipesOK
    <3>2. pipe[p] \in PipeFields
      BY <3>1 DEF IInv, TypeOK, PipeOK, PipeFields
    <3>3. /\ pipe'[p].stopped = TRUE
          /\ \A q \in Pipes \ {p} : pipe'[q].stopped = pipe[q].stopped
      BY <2>1, <2>3, <3>1, <3>2, StopIsStop
    <3> QED
      BY <2>1, <3>1, <3>3, StopsSession
  <2> QED
    BY <2>2, <2>3
<1>2. CASE ~AdminStop(a)
  <2>1. UNCHANGED <<pipes, pipe, phase, fate>>
    BY <1>2 DEF Admin, AdminCheck, AdminWrite, AdminReason, pipeVars
  <2> QED
    BY <2>1, QuietSessions
<1> QED
  BY <1>1, <1>2

(* A crash ends every session.                                             *)
LEMMA CrashSession ==
  ASSUME Crash
  PROVE  SessionStep
<1>1. \A c \in Campaigns : pipes'[c] = NoPipe
  BY DEF Crash
<1>2. \A c \in Campaigns : /\ SessionOf(c)' = "closed" /\ StopOf(c)' = FALSE
                          /\ PendingOf(c)' = {} /\ ServedOf(c)' = {} /\ DroppedOf(c)' = {}
  BY <1>1 DEF SessionOf, StopOf, PendingOf, ServedOf, DroppedOf, SubsWith
<1>3. Sessions!Crash
  <2>1. /\ AbsSession' = [c \in Campaigns |-> "closed"]
        /\ AbsStop' = [c \in Campaigns |-> FALSE]
        /\ AbsPending' = [c \in Campaigns |-> {}]
        /\ AbsServed' = [c \in Campaigns |-> {}]
        /\ AbsDropped' = [c \in Campaigns |-> {}]
    BY <1>2 DEF AbsSession, AbsStop, AbsPending, AbsServed, AbsDropped
  <2> QED
    BY <2>1
    DEF Sessions!Crash, Sessions!Closed, AbsSession, AbsStop, AbsPending, AbsServed,
        AbsDropped, SessionOf, StopOf, PendingOf, ServedOf, DroppedOf
<1> QED
  BY <1>3 DEF SessionStep, Sessions!Next

-----------------------------------------------------------------------------
(* The refinement.                                                         *)
LEMMA SessionInit == Init => Sessions!Init
<1> SUFFICES ASSUME Init PROVE Sessions!Init
  OBVIOUS
<1>1. \A c \in Campaigns : /\ SessionOf(c) = "closed" /\ StopOf(c) = FALSE
                          /\ PendingOf(c) = {} /\ ServedOf(c) = {} /\ DroppedOf(c) = {}
  BY DEF Init, SessionOf, StopOf, PendingOf, ServedOf, DroppedOf, SubsWith
<1>2. /\ AbsSession = [c \in Campaigns |-> "closed"]
      /\ AbsStop = [c \in Campaigns |-> FALSE]
      /\ AbsPending = [c \in Campaigns |-> {}]
      /\ AbsServed = [c \in Campaigns |-> {}]
      /\ AbsDropped = [c \in Campaigns |-> {}]
  BY <1>1 DEF AbsSession, AbsStop, AbsPending, AbsServed, AbsDropped
<1> QED
  BY <1>2
  DEF Sessions!Init, Sessions!Closed, AbsSession, AbsStop, AbsPending, AbsServed,
      AbsDropped, SessionOf, StopOf, PendingOf, ServedOf, DroppedOf

(* Every step of the manager is a step of one session or a stutter.        *)
LEMMA SessionNext == IInv /\ [Next]_vars => [Sessions!Next]_Sessions!vars
<1> SUFFICES ASSUME IInv, [Next]_vars PROVE SessionStep
  BY DEF SessionStep
<1>1. CASE UNCHANGED vars
  <2>1. UNCHANGED <<pipes, pipe, phase, fate>>
    BY <1>1 DEF vars
  <2> QED
    BY <2>1, QuietSessions
<1> QED
  BY <1>1, RunLoopSession, ScannerSession, WorkerSession, CleanupSession, AdminSession,
     CrashSession DEF Next

(* The pipeline with its queues, workers, WaitGroups and scanner does      *)
(* nothing that the sessions of CampaignSessions could not do: batches     *)
(* are of new subscribers, everybody is served at most once, only stopped  *)
(* pipes drop, and a session settles with nobody left.                     *)
THEOREM Refinement == Spec => ImplementsSessions
<1> QED
  BY SessionInit, SessionNext, Invariant, PTL DEF Spec, ImplementsSessions, Sessions!Spec

(* What the abstraction is for: a session of the manager that is being     *)
(* cleaned up without ever having been stopped has served everybody it     *)
(* took in.                                                                *)
THEOREM SessionsLoseNobody == Spec => []Sessions!NobodyLost
<1>1. ASSUME IInv, NEW c \in Campaigns, SessionOf(c) = "settling", ~StopOf(c)
      PROVE  PendingOf(c) = {} /\ DroppedOf(c) = {}
  <2> PICK p \in {pipes[c]} : TRUE
    OBVIOUS
  <2>1. p # NoPipe /\ p \in Pipes /\ phase[p] # "wait" /\ ~pipe[p].stopped
    BY <1>1 DEF SessionOf, StopOf, IInv, TypeOK, PipesOK
  <2>2. phase[p] # "gone"
    BY <1>1, <2>1 DEF IInv, Owned, Live, Cleaning
  <2>3. \A s \in Subs : fate[p][s] # "dropped"
    BY <1>1, <2>1, <2>2 DEF IInv, Dropping
  <2>4. ~Held(p) /\ \A s \in Subs : fate[p][s] \notin Undone
    BY <1>1, <2>1, HeldWaits, UndoneWaits
  <2>5. \A s \in Subs : fate[p][s] # "fetched"
    BY <1>1, <2>1, <2>4 DEF IInv, Fetched, Held
  <2> QED
    BY <2>3, <2>4, <2>5 DEF PendingOf, DroppedOf, SubsWith
<1>2. IInv => Sessions!NobodyLost
  BY <1>1 DEF Sessions!NobodyLost, SessionOf, StopOf, PendingOf, DroppedOf
<1> QED
  BY <1>2, Invariant, PTL

=============================================================================
