---------------------------- MODULE WebhookDelivery ----------------------------
(***************************************************************************)
(* Outgoing webhooks: the queue in webhook_deliveries, the workers of      *)
(* internal/webhooks that claim due deliveries for the length of a lease,  *)
(* POST them one after the other and record how each attempt went, and the *)
(* requests that retry a delivery or change its endpoint meanwhile.        *)
(*                                                                         *)
(* Times are counted down in ticks, so that no clock has to be bounded.    *)
(* Only calls to endpoints take time.  The clock of the database and that  *)
(* of the application, which sets next_attempt_at, are taken to agree.     *)
(***************************************************************************)
EXTENDS Integers, Sequences, FiniteSets

CONSTANTS
  Deliveries,   \* rows that can be enqueued
  NoDelivery,   \* none of them
  Tests,        \* those of them that are test events
  Endpoints,
  EndpointOf,   \* [delivery -> endpoint]
  Instances,    \* application instances, one worker each
  MaxAttempts,
  Backoff,      \* ticks to wait after each failed attempt, the last for all others
  Timeout,      \* ticks an endpoint has to answer
  ClaimBatch,
  ClaimLease,   \* in ticks
  MaxRetries, MaxRotations, MaxFaults, MaxCrashes  \* bounds of the environment

ASSUME ConstantsAssumption ==
  /\ Tests \subseteq Deliveries
  /\ NoDelivery \notin Deliveries
  /\ EndpointOf \in [Deliveries -> Endpoints]
  /\ {MaxAttempts, ClaimBatch, ClaimLease, Timeout} \subseteq Nat \ {0}
  /\ Backoff \in Seq(Nat) /\ Backoff # <<>>
  /\ \A n \in DOMAIN Backoff : Backoff[n] > ClaimLease
  /\ {MaxRetries, MaxRotations, MaxFaults, MaxCrashes} \subseteq Nat

VARIABLES
  row,       \* webhook_deliveries: status, attempts, next_attempt_at, locked_until
  endpoint,  \* webhook_endpoints: status and secret
  worker,    \* the workers: the jobs claimed, the one at hand, how far it is
  budget

vars == <<row, endpoint, worker, budget>>

Null == -1  \* of next_attempt_at

Open == {"pending", "retrying"}
Done == {"success", "failed"}
Absent == {"none", "gone"}  \* not enqueued yet, deleted

Row(status, attempts, next, lock) ==
  [status |-> status, attempts |-> attempts, next |-> next, lock |-> lock]
NoRow(status) == Row(status, 0, Null, 0)
NoJob == [id |-> NoDelivery, attempts |-> 0, secret |-> 0, lease |-> 0, again |-> FALSE]
Idle == [jobs |-> {}, job |-> NoJob, pc |-> "idle", elapsed |-> 0]

Init ==
  /\ row = [d \in Deliveries |-> NoRow("none")]
  /\ endpoint = [e \in Endpoints |-> [status |-> "active", secret |-> 0]]
  /\ worker = [w \in Instances |-> Idle]
  /\ budget = [retries |-> 0, rotations |-> 0, faults |-> 0, crashes |-> 0]

Spend(what, limit) ==
  /\ budget[what] < limit
  /\ budget' = [budget EXCEPT ![what] = @ + 1]

(* The jobs a worker holds, the one it is sending included.                *)
Held(w) == worker[w].jobs \cup (IF worker[w].pc = "idle" THEN {} ELSE {worker[w].job})

-----------------------------------------------------------------------------
(* The queue.                                                              *)

(* An event is queued for an active endpoint, a test for any.              *)
Enqueue(d) ==
  /\ row[d].status = "none"
  /\ \/ endpoint[EndpointOf[d]].status = "active"
     \/ d \in Tests /\ endpoint[EndpointOf[d]].status = "disabled"
  /\ row' = [row EXCEPT ![d] = Row("pending", 0, 0, 0)]
  /\ UNCHANGED <<endpoint, worker, budget>>

(* retry-webhook-delivery: now, whoever has it.                            *)
Again(job, d) == IF job.id = d THEN [job EXCEPT !.again = TRUE] ELSE job
KeptAttempts(r) == r.attempts  \* mutant: no fresh set
RetriedAttempts(r) == IF r.status \in Done THEN 0 ELSE r.attempts
Retry(d) ==
  /\ row[d].status \notin Absent
  /\ Spend("retries", MaxRetries)
  /\ row' = [row EXCEPT ![d] =
               Row(IF @.status = "retrying" THEN "retrying" ELSE "pending",
                   RetriedAttempts(@), 0, 0)]
  /\ worker' = [w \in Instances |->
       [jobs |-> {Again(j, d) : j \in worker[w].jobs}, job |-> Again(worker[w].job, d),
        pc |-> worker[w].pc, elapsed |-> worker[w].elapsed]]
  /\ UNCHANGED endpoint

(* prune-webhook-deliveries, once it is old enough.                        *)
Prune(d) ==
  /\ row[d].status \in Done
  /\ row' = [row EXCEPT ![d] = NoRow("gone")]
  /\ UNCHANGED <<endpoint, worker, budget>>

UpdateEndpoint(e, status) ==
  /\ endpoint[e].status # "deleted"
  /\ endpoint' = [endpoint EXCEPT ![e].status = status]
  /\ UNCHANGED <<row, worker, budget>>

RotateSecret(e) ==
  /\ endpoint[e].status # "deleted"
  /\ Spend("rotations", MaxRotations)
  /\ endpoint' = [endpoint EXCEPT ![e].secret = @ + 1]
  /\ UNCHANGED <<row, worker>>

(* An endpoint goes with its deliveries.                                   *)
DeleteEndpoint(e) ==
  /\ endpoint[e].status # "deleted"
  /\ endpoint' = [endpoint EXCEPT ![e].status = "deleted"]
  /\ row' = [d \in Deliveries |->
               IF EndpointOf[d] = e THEN NoRow("gone") ELSE row[d]]
  /\ UNCHANGED <<worker, budget>>

-----------------------------------------------------------------------------
(* A worker.                                                               *)

DuePending(d) ==  \* mutant: a retry is not due
  row[d].status = "pending" /\ row[d].next = 0 /\ row[d].lock = 0
Due(d) == row[d].status \in Open /\ row[d].next = 0 /\ row[d].lock = 0

(* claim-webhook-deliveries: up to a batch of what is due, with the URL    *)
(* and the secret as they are now.  Which of them is first in line is left *)
(* open.                                                                   *)
Claim(w) ==
  /\ Held(w) = {}
  /\ LET due == {d \in Deliveries : Due(d)}
     IN \E batch \in SUBSET due :
          /\ batch # {}
          /\ Cardinality(batch) <= ClaimBatch
          /\ batch = due \/ Cardinality(batch) = ClaimBatch
          /\ row' = [d \in Deliveries |->
                       IF d \in batch THEN [row[d] EXCEPT !.lock = ClaimLease] ELSE row[d]]
          /\ worker' = [worker EXCEPT ![w].jobs =
               {[id |-> d, attempts |-> row[d].attempts,
                 secret |-> endpoint[EndpointOf[d]].secret,
                 lease |-> ClaimLease, again |-> FALSE] : d \in batch}]
  /\ UNCHANGED <<endpoint, budget>>

(* Send signs the next job with the secret it was claimed with.            *)
StartSend(w) ==
  /\ worker[w].pc = "idle"
  /\ \E j \in worker[w].jobs :
       worker' = [worker EXCEPT ![w] =
         [jobs |-> @.jobs \ {j}, job |-> j, pc |-> "sending", elapsed |-> 0]]
  /\ UNCHANGED <<row, endpoint, budget>>

(* The endpoint accepts it (2xx); anything else, and no answer, refuses it.*)
Answer(w) ==
  /\ worker[w].pc = "sending"
  /\ \E outcome \in {"accepted", "refused"} :
       worker' = [worker EXCEPT ![w].pc = outcome]
  /\ UNCHANGED <<row, endpoint, budget>>

(* What RunOnce makes of an attempt, by the number it was claimed with.    *)
Left(attempt) == attempt < MaxAttempts
NoDelay(attempt) == 0  \* mutant: no wait between attempts
Delay(attempt) ==
  IF attempt <= Len(Backoff) THEN Backoff[attempt] ELSE Backoff[Len(Backoff)]
Outcome(ok, attempt) ==
  IF ok THEN Row("success", attempt, Null, 0)
  ELSE IF Left(attempt) THEN Row("retrying", attempt, Delay(attempt), 0)
  ELSE Row("failed", attempt, Null, 0)

Proceed(w) == worker' = [worker EXCEPT ![w] = [Idle EXCEPT !.jobs = worker[w].jobs]]

(* record-webhook-attempt writes over whatever the row is by now; there is *)
(* nothing to write when it is gone.                                       *)
Record(w) ==
  /\ worker[w].pc \in {"accepted", "refused"}
  /\ LET j == worker[w].job
     IN row' = IF row[j.id].status = "gone" THEN row
               ELSE [row EXCEPT ![j.id] =
                       Outcome(worker[w].pc = "accepted", j.attempts + 1)]
  /\ Proceed(w)
  /\ UNCHANGED <<endpoint, budget>>

(* An attempt that can't be recorded is only logged.                       *)
RecordFails(w) ==
  /\ worker[w].pc \in {"accepted", "refused"}
  /\ Spend("faults", MaxFaults)
  /\ Proceed(w)
  /\ UNCHANGED <<row, endpoint>>

Crash(w) ==
  /\ Held(w) # {}
  /\ Spend("crashes", MaxCrashes)
  /\ worker' = [worker EXCEPT ![w] = Idle]
  /\ UNCHANGED <<row, endpoint>>

-----------------------------------------------------------------------------
Down(n) == IF n > 0 THEN n - 1 ELSE n
OneTickOn(job) == [job EXCEPT !.lease = Down(@)]

(* Time passes only while every worker waits, for its endpoint's answer    *)
(* and no longer than that may take, or for deliveries to become due.      *)
WaitingOn(w) == worker[w].pc = "sending" \/ Held(w) = {}  \* mutant: no timeout
Waiting(w) ==
  \/ worker[w].pc = "sending" /\ worker[w].elapsed < Timeout
  \/ Held(w) = {}
Tick ==
  /\ \A w \in Instances : Waiting(w)
  /\ row' = [d \in Deliveries |->
               Row(row[d].status, row[d].attempts, Down(row[d].next), Down(row[d].lock))]
  /\ worker' = [w \in Instances |->
       [jobs |-> {OneTickOn(j) : j \in worker[w].jobs}, job |-> OneTickOn(worker[w].job),
        pc |-> worker[w].pc,
        elapsed |-> worker[w].elapsed + (IF worker[w].pc = "sending" THEN 1 ELSE 0)]]
  /\ UNCHANGED <<endpoint, budget>>

Worker(w) == Claim(w) \/ StartSend(w) \/ Answer(w) \/ Record(w)

Next ==
  \/ \E d \in Deliveries : Enqueue(d) \/ Retry(d) \/ Prune(d)
  \/ \E e \in Endpoints :
       \/ \E status \in {"active", "disabled"} : UpdateEndpoint(e, status)
       \/ RotateSecret(e) \/ DeleteEndpoint(e)
  \/ \E w \in Instances : Worker(w) \/ RecordFails(w) \/ Crash(w)
  \/ Tick

Spec == Init /\ [][Next]_vars

(* Workers poll for ever, calls time out, and time goes by.                *)
FairSpec ==
  /\ Spec
  /\ \A w \in Instances : WF_vars(Worker(w))
  /\ WF_vars(Tick)

-----------------------------------------------------------------------------
Jobs ==
  [id : Deliveries, attempts : Nat, secret : Nat, lease : Nat, again : BOOLEAN]

TypeOK ==
  /\ row \in [Deliveries ->
       [status : Absent \cup Open \cup Done, attempts : Nat,
        next : Nat \cup {Null}, lock : Nat]]
  /\ endpoint \in [Endpoints ->
       [status : {"active", "disabled", "deleted"}, secret : Nat]]
  /\ worker \in [Instances ->
       [jobs : SUBSET Jobs, job : Jobs \cup {NoJob},
        pc : {"idle", "sending", "accepted", "refused"}, elapsed : 0..Timeout]]
  /\ budget \in [{"retries", "rotations", "faults", "crashes"} -> Nat]

(* A delivery's status, its attempts and its next attempt always agree,    *)
(* whatever outdated attempts are written over it: one that is open is     *)
(* scheduled and has attempts left, one that is done is not scheduled, and *)
(* only one whose attempts are used up has failed (webhooks.md:100).       *)
AttemptsMatchStatus ==
  \A d \in Deliveries :
    LET r == row[d]
    IN /\ r.status = "pending"  => r.attempts = 0 /\ r.next # Null
       /\ r.status = "retrying" => r.attempts \in 1..(MaxAttempts - 1) /\ r.next # Null
       /\ r.status = "success"  => r.attempts \in 1..MaxAttempts /\ r.next = Null
       /\ r.status = "failed"   => r.attempts = MaxAttempts /\ r.next = Null

(* webhooks.sql:52: a delivery is locked to one worker for the length of   *)
(* its lease.  A worker that records late clears the lock of another, but  *)
(* then the backoff keeps the delivery from being claimed again; only a    *)
(* retry asked for by hand may put it with a second worker.                *)
LeasesDisjoint ==
  \A v, w \in Instances : v # w =>
    \A i \in Held(v), j \in Held(w) :
      i.id = j.id /\ i.lease > 0 /\ j.lease > 0 => i.again \/ j.again

(* Every delivery is decided for good in the end: outdated attempts set    *)
(* its count back, but not for ever.                                       *)
EventuallySettled == <>[](\A d \in Deliveries : row[d].status \notin Open)
===============================================================================
