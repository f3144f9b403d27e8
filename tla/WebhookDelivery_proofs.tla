------------------------ MODULE WebhookDelivery_proofs ------------------------
(***************************************************************************)
(* Theorems about WebhookDelivery, for any number of deliveries, endpoints *)
(* and instances, any number of attempts, and any lease shorter than every *)
(* backoff.                                                                *)
(***************************************************************************)
EXTENDS WebhookDelivery, TLAPS

(* The delivery can't become due in less than n ticks.                     *)
NotDueFor(d, n) ==
  row[d].status \notin Open \/ row[d].lock >= n \/ row[d].next >= n

(* What holds of a job from its claim to its end: it was claimed with      *)
(* attempts left, and as long as its lease runs its delivery is not due,   *)
(* unless it was retried by hand.                                          *)
JobOK(j) ==
  /\ j.attempts < MaxAttempts
  /\ j.lease <= ClaimLease
  /\ row[j.id].status # "none"
  /\ j.lease > 0 /\ ~j.again => NotDueFor(j.id, j.lease)

HeldTyped == \A w \in Instances : Held(w) \subseteq Jobs
HeldOK == \A w \in Instances : \A j \in Held(w) : JobOK(j)

(* The inductive invariant.  AttemptsMatchStatus needs HeldOK because the  *)
(* attempts recorded are those of the claim; LeasesDisjoint needs it       *)
(* because a second claim asks for a delivery that is due.                 *)
IInv == TypeOK /\ HeldTyped /\ HeldOK /\ AttemptsMatchStatus /\ LeasesDisjoint

Rows ==
  [status : Absent \cup Open \cup Done, attempts : Nat,
   next : Nat \cup {Null}, lock : Nat]
States ==
  [jobs : SUBSET Jobs, job : Jobs \cup {NoJob},
   pc : {"idle", "sending", "accepted", "refused"}, elapsed : 0..Timeout]
RowOK(r) ==
  /\ r.status = "pending"  => r.attempts = 0 /\ r.next # Null
  /\ r.status = "retrying" => r.attempts \in 1..(MaxAttempts - 1) /\ r.next # Null
  /\ r.status = "success"  => r.attempts \in 1..MaxAttempts /\ r.next = Null
  /\ r.status = "failed"   => r.attempts = MaxAttempts /\ r.next = Null

-----------------------------------------------------------------------------
(* Operators.                                                              *)

(* The rows that are inserted or deleted agree with themselves.            *)
LEMMA NewRows ==
  /\ \A s \in Absent : /\ NoRow(s) \in Rows /\ RowOK(NoRow(s))
                       /\ NoRow(s).status = s
  /\ LET r == Row("pending", 0, 0, 0)
     IN r \in Rows /\ RowOK(r) /\ r.status = "pending"
  BY DEF NoRow, Row, Rows, RowOK, Absent, Open, Done, Null

(* The last backoff stands for all attempts after it; each is longer than  *)
(* a lease.                                                                *)
LEMMA DelayOutlastsLease ==
  ASSUME NEW n \in Nat, n >= 1
  PROVE  Delay(n) \in Nat /\ Delay(n) > ClaimLease
<1>1. Len(Backoff) \in Nat /\ Len(Backoff) >= 1 /\ DOMAIN Backoff = 1..Len(Backoff)
  BY ConstantsAssumption
<1>2. \A i \in 1..Len(Backoff) : Backoff[i] \in Nat /\ Backoff[i] > ClaimLease
  BY <1>1, ConstantsAssumption
<1>3. QED
  BY <1>1, <1>2 DEF Delay

(* What an attempt makes of the row agrees with itself.                    *)
LEMMA OutcomeOK ==
  ASSUME NEW ok \in BOOLEAN, NEW n \in Nat, n >= 1, n <= MaxAttempts
  PROVE  LET r == Outcome(ok, n)
         IN /\ r \in Rows /\ RowOK(r)
            /\ r.status \in {"success", "retrying", "failed"}
            /\ r.status \in Open => r.next > ClaimLease
<1>1. MaxAttempts \in Nat /\ ClaimLease \in Nat
  BY ConstantsAssumption
<1>2. Delay(n) \in Nat /\ Delay(n) > ClaimLease
  BY DelayOutlastsLease
<1>3. CASE ok
  BY <1>1, <1>3 DEF Outcome, Row, Rows, RowOK, Absent, Open, Done, Null
<1>4. CASE ~ok /\ Left(n)
  <2>1. n \in 1..(MaxAttempts - 1)
    BY <1>1, <1>4 DEF Left
  <2>2. Outcome(ok, n) = [status |-> "retrying", attempts |-> n, next |-> Delay(n), lock |-> 0]
    BY <1>4 DEF Outcome, Row
  <2>3. Delay(n) # Null
    BY <1>2 DEF Null
  <2>4. QED
    BY <1>1, <1>2, <2>1, <2>2, <2>3 DEF Rows, RowOK, Absent, Open, Done
<1>5. CASE ~ok /\ ~Left(n)
  <2>1. n = MaxAttempts
    BY <1>1, <1>5 DEF Left
  <2>2. Outcome(ok, n) = [status |-> "failed", attempts |-> n, next |-> Null, lock |-> 0]
    BY <1>5 DEF Outcome, Row
  <2>3. QED
    BY <1>1, <2>1, <2>2 DEF Rows, RowOK, Absent, Open, Done
<1>6. QED
  BY <1>3, <1>4, <1>5

(* A retry marks the jobs of its delivery and changes nothing else of a    *)
(* job.                                                                    *)
LEMMA AgainJob ==
  ASSUME NEW j \in Jobs, NEW d
  PROVE  LET k == Again(j, d)
         IN /\ k \in Jobs
            /\ k.id = j.id /\ k.attempts = j.attempts /\ k.lease = j.lease
            /\ ~k.again => ~j.again /\ j.id # d
  BY DEF Again, Jobs

(* Counting down keeps NULL apart, never goes below 0 and keeps order.     *)
LEMMA DownProps ==
  ASSUME NEW n \in Nat \cup {Null}
  PROVE  /\ Down(n) \in Nat \cup {Null}
         /\ n \in Nat => Down(n) \in Nat /\ Down(n) <= n
         /\ Down(n) = Null <=> n = Null
         /\ \A m \in Nat : n >= m => Down(n) >= Down(m)
         /\ Down(n) > 0 => n > 0
  BY DEF Down, Null

(* A tick shortens the lease of a job and changes nothing else of it.      *)
LEMMA TickedJob ==
  ASSUME NEW j \in Jobs
  PROVE  LET k == OneTickOn(j)
         IN /\ k \in Jobs
            /\ k.id = j.id /\ k.attempts = j.attempts /\ k.again = j.again
            /\ k.lease = Down(j.lease)
  BY DownProps DEF OneTickOn, Jobs

(* Held depends on the worker alone.                                       *)
LEMMA HeldDef ==
  ASSUME NEW w
  PROVE  /\ worker[w].pc = "idle" => Held(w) = worker[w].jobs
         /\ worker[w].pc # "idle" => Held(w) = worker[w].jobs \cup {worker[w].job}
         /\ worker'[w].pc = "idle" => Held(w)' = worker'[w].jobs
         /\ worker'[w].pc # "idle" => Held(w)' = worker'[w].jobs \cup {worker'[w].job}
         /\ worker'[w] = worker[w] => Held(w)' = Held(w)
  BY DEF Held

-----------------------------------------------------------------------------
(* The rows.                                                               *)

Typed == TypeOK /\ HeldTyped

(* Rows have the type Rows.                                                *)
LEMMA RowTyped == TypeOK => row \in [Deliveries -> Rows]
  BY DEF TypeOK, Rows

(* A worker at an answer records it with an attempt left.                  *)
LEMMA AtHand ==
  ASSUME Typed, HeldOK, NEW w \in Instances, worker[w].pc # "idle"
  PROVE  /\ worker[w].job \in Held(w) /\ worker[w].job \in Jobs
         /\ worker[w].job.id \in Deliveries
         /\ worker[w].job.attempts + 1 \in 1..MaxAttempts
<1>1. worker[w].job \in Held(w)
  BY HeldDef
<1>2. worker[w].job \in Jobs
  BY <1>1 DEF Typed, HeldTyped
<1>3. worker[w].job.attempts < MaxAttempts
  BY <1>1 DEF HeldOK, JobOK
<1>4. worker[w].job.id \in Deliveries /\ worker[w].job.attempts \in Nat
  BY <1>2 DEF Jobs
<1>5. MaxAttempts \in Nat
  BY ConstantsAssumption
<1>6. QED
  BY <1>1, <1>2, <1>3, <1>4, <1>5

(* retry-webhook-delivery leaves a row that agrees with itself, whatever   *)
(* it was.                                                                 *)
LEMMA RetriedRow ==
  ASSUME NEW r \in Rows, RowOK(r), r.status \notin Absent
  PROVE  LET s == Row(IF r.status = "retrying" THEN "retrying" ELSE "pending",
                      RetriedAttempts(r), 0, 0)
         IN s \in Rows /\ RowOK(s) /\ s.status # "none"
  BY ConstantsAssumption DEF Row, Rows, RowOK, RetriedAttempts, Absent, Open, Done, Null

(* Time changes neither the status nor the attempts of a row, and          *)
(* schedules nothing.                                                      *)
LEMMA TickedRow ==
  ASSUME NEW r \in Rows, RowOK(r)
  PROVE  LET s == Row(r.status, r.attempts, Down(r.next), Down(r.lock))
         IN /\ s \in Rows /\ RowOK(s)
            /\ s.status = r.status /\ s.next = Down(r.next) /\ s.lock = Down(r.lock)
<1>1. /\ Down(r.next) \in Nat \cup {Null} /\ Down(r.lock) \in Nat
      /\ Down(r.next) = Null <=> r.next = Null
  BY DownProps DEF Rows
<1>2. QED
  BY <1>1 DEF Row, Rows, RowOK

(* Every step leaves rows whose status, attempts and schedule agree: only  *)
(* Record writes an attempt, with the number of its claim.                 *)
LEMMA RowsStep ==
  ASSUME Typed, HeldOK, AttemptsMatchStatus, [Next]_vars
  PROVE  /\ row' \in [Deliveries -> Rows]
         /\ \A d \in Deliveries : RowOK(row'[d])
<1> DEFINE Goal == /\ row' \in [Deliveries -> Rows]
                   /\ \A d \in Deliveries : RowOK(row'[d])
<1>1. row \in [Deliveries -> Rows]
  BY RowTyped DEF Typed
<1>2. \A d \in Deliveries : RowOK(row[d])
  BY DEF AttemptsMatchStatus, RowOK
<1>3. ASSUME NEW d \in Deliveries, NEW r \in Rows, RowOK(r),
             row' = [row EXCEPT ![d] = r]
      PROVE  Goal
  <2>1. \A e \in Deliveries : row'[e] = IF e = d THEN r ELSE row[e]
    BY <1>1, <1>3
  <2>2. row' \in [Deliveries -> Rows]
    BY <1>1, <1>3
  <2>3. QED
    BY <1>2, <1>3, <2>1, <2>2
<1>4. CASE UNCHANGED row
  BY <1>1, <1>2, <1>4
<1>5. ASSUME NEW d \in Deliveries, Enqueue(d) PROVE Goal
  <2> DEFINE r == Row("pending", 0, 0, 0)
  <2>1. row' = [row EXCEPT ![d] = r]
    BY <1>5 DEF Enqueue
  <2>2. r \in Rows /\ RowOK(r)
    BY NewRows DEF Absent
  <2> HIDE DEF r
  <2>3. QED
    BY <1>3, <2>1, <2>2
<1>6. ASSUME NEW d \in Deliveries, Retry(d) PROVE Goal
  <2> DEFINE s == Row(IF row[d].status = "retrying" THEN "retrying" ELSE "pending",
                      RetriedAttempts(row[d]), 0, 0)
  <2>1. row' = [row EXCEPT ![d] = s]
    BY <1>6 DEF Retry
  <2>2. s \in Rows /\ RowOK(s)
    BY <1>1, <1>2, <1>6, RetriedRow DEF Retry
  <2> HIDE DEF s
  <2>3. QED
    BY <1>3, <2>1, <2>2
<1>7. ASSUME NEW d \in Deliveries, Prune(d) PROVE Goal
  <2> DEFINE r == NoRow("gone")
  <2>1. row' = [row EXCEPT ![d] = r]
    BY <1>7 DEF Prune
  <2>2. r \in Rows /\ RowOK(r)
    BY NewRows DEF Absent
  <2> HIDE DEF r
  <2>3. QED
    BY <1>3, <2>1, <2>2
<1>8. ASSUME NEW e \in Endpoints, DeleteEndpoint(e) PROVE Goal
  <2> DEFINE r == NoRow("gone")
  <2>1. row' = [d \in Deliveries |-> IF EndpointOf[d] = e THEN r ELSE row[d]]
    BY <1>8 DEF DeleteEndpoint
  <2>2. r \in Rows /\ RowOK(r)
    BY NewRows DEF Absent
  <2> HIDE DEF r
  <2>3. QED
    BY <1>1, <1>2, <2>1, <2>2
<1>9. ASSUME NEW w \in Instances, Claim(w) PROVE Goal
  <2>1. PICK batch \in SUBSET {d \in Deliveries : Due(d)} :
          row' = [d \in Deliveries |->
                    IF d \in batch THEN [row[d] EXCEPT !.lock = ClaimLease] ELSE row[d]]
    BY <1>9 DEF Claim
  <2>2. ASSUME NEW d \in Deliveries
        PROVE  /\ [row[d] EXCEPT !.lock = ClaimLease] \in Rows
               /\ RowOK([row[d] EXCEPT !.lock = ClaimLease])
    BY <1>1, <1>2, ConstantsAssumption DEF Rows, RowOK
  <2>3. QED
    BY <1>1, <1>2, <2>1, <2>2
<1>10. ASSUME NEW w \in Instances, Record(w) PROVE Goal
  <2> DEFINE j == worker[w].job
             r == Outcome(worker[w].pc = "accepted", j.attempts + 1)
  <2>1. row' = row \/ row' = [row EXCEPT ![j.id] = r]
    BY <1>10 DEF Record
  <2>2. /\ j.id \in Deliveries /\ j.attempts + 1 \in Nat
        /\ j.attempts + 1 >= 1 /\ j.attempts + 1 <= MaxAttempts
    BY <1>10, AtHand, ConstantsAssumption DEF Record
  <2>3. r \in Rows /\ RowOK(r)
    BY <2>2, OutcomeOK
  <2> HIDE DEF r, j
  <2>4. QED
    BY <1>3, <1>4, <2>1, <2>2, <2>3
<1>11. CASE Tick
  <2> DEFINE s(d) == Row(row[d].status, row[d].attempts, Down(row[d].next), Down(row[d].lock))
  <2>1. row' = [d \in Deliveries |-> s(d)]
    BY <1>11 DEF Tick
  <2>2. \A d \in Deliveries : s(d) \in Rows /\ RowOK(s(d))
    BY <1>1, <1>2, TickedRow
  <2> HIDE DEF s
  <2>3. QED
    BY <2>1, <2>2
<1>12. QED
  BY <1>4, <1>5, <1>6, <1>7, <1>8, <1>9, <1>10, <1>11
  DEF Next, vars, UpdateEndpoint, RotateSecret, Worker, StartSend, Answer,
      RecordFails, Crash

-----------------------------------------------------------------------------
(* The workers: how a step changes the jobs they hold.                     *)

(* The job a claim makes of a delivery.                                    *)
Claimed(d) ==
  [id |-> d, attempts |-> row[d].attempts,
   secret |-> endpoint[EndpointOf[d]].secret, lease |-> ClaimLease, again |-> FALSE]

(* Workers have the type States.                                           *)
LEMMA WorkerTyped == TypeOK => worker \in [Instances -> States]
  BY DEF TypeOK, States

(* A step of one worker that is not a claim.                               *)
Steps(w) == StartSend(w) \/ Answer(w) \/ Record(w) \/ RecordFails(w) \/ Crash(w)

(* Sending, answering, recording and dying give a worker no new job.       *)
LEMMA StepsKeep ==
  ASSUME Typed, NEW w \in Instances, Steps(w)
  PROVE  /\ worker' \in [Instances -> States]
         /\ \A v \in Instances : Held(v)' \subseteq Held(v)
<1> DEFINE Goal == /\ worker' \in [Instances -> States]
                   /\ \A v \in Instances : Held(v)' \subseteq Held(v)
<1>1. worker \in [Instances -> States]
  BY WorkerTyped DEF Typed
<1>2. worker[w] \in States /\ 0 \in 0..Timeout
  BY <1>1, ConstantsAssumption
<1>3. ASSUME NEW s \in States, worker' = [worker EXCEPT ![w] = s],
             s.jobs \subseteq Held(w), s.pc # "idle" => s.job \in Held(w)
      PROVE  Goal
  <2>1. worker' \in [Instances -> States]
    BY <1>1, <1>3
  <2>2. worker'[w] = s /\ \A v \in Instances \ {w} : worker'[v] = worker[v]
    BY <1>1, <1>3
  <2>3. Held(w)' \subseteq Held(w)
    BY <1>3, <2>2, HeldDef
  <2>4. \A v \in Instances \ {w} : Held(v)' = Held(v)
    BY <2>2, HeldDef
  <2>5. QED
    BY <2>1, <2>3, <2>4
<1>4. Idle \in States /\ Idle.jobs = {} /\ Idle.pc = "idle"
  BY <1>2 DEF Idle, States
<1>5. ASSUME Proceed(w) PROVE Goal
  <2> DEFINE s == [Idle EXCEPT !.jobs = worker[w].jobs]
  <2>1. s = [jobs |-> worker[w].jobs, job |-> NoJob, pc |-> "idle", elapsed |-> 0]
    BY DEF Idle
  <2>2. s \in States /\ s.jobs = worker[w].jobs /\ s.pc = "idle"
    BY <1>2, <2>1 DEF States
  <2>3. worker' = [worker EXCEPT ![w] = s]
    BY <1>5 DEF Proceed
  <2>4. worker[w].jobs \subseteq Held(w)
    BY HeldDef
  <2> HIDE DEF s
  <2>5. QED
    BY <1>3, <2>2, <2>3, <2>4
<1>6. CASE StartSend(w)
  <2>1. PICK j \in worker[w].jobs :
          worker' = [worker EXCEPT ![w] =
            [jobs |-> @.jobs \ {j}, job |-> j, pc |-> "sending", elapsed |-> 0]]
    BY <1>6 DEF StartSend
  <2> DEFINE s == [jobs |-> worker[w].jobs \ {j}, job |-> j, pc |-> "sending", elapsed |-> 0]
  <2>2. worker[w].jobs \subseteq Held(w)
    BY HeldDef
  <2>3. s \in States /\ s.jobs \subseteq Held(w) /\ s.job \in Held(w)
    BY <1>2, <2>2 DEF States
  <2>4. worker' = [worker EXCEPT ![w] = s]
    BY <1>1, <2>1
  <2> HIDE DEF s
  <2>5. QED
    BY <1>3, <2>3, <2>4
<1>7. CASE Answer(w)
  <2>1. worker[w].pc = "sending"
    BY <1>7 DEF Answer
  <2>2. PICK outcome \in {"accepted", "refused"} :
          worker' = [worker EXCEPT ![w].pc = outcome]
    BY <1>7 DEF Answer
  <2> DEFINE s == [worker[w] EXCEPT !.pc = outcome]
  <2>3. s = [jobs |-> worker[w].jobs, job |-> worker[w].job, pc |-> outcome,
             elapsed |-> worker[w].elapsed]
    BY <1>2 DEF States
  <2>4. Held(w) = worker[w].jobs \cup {worker[w].job}
    BY <2>1, HeldDef
  <2>5. s \in States /\ s.jobs \subseteq Held(w) /\ s.job \in Held(w)
    BY <1>2, <2>3, <2>4 DEF States
  <2>6. worker' = [worker EXCEPT ![w] = s]
    BY <1>1, <2>2
  <2> HIDE DEF s
  <2>7. QED
    BY <1>3, <2>5, <2>6
<1>8. CASE Record(w)
  BY <1>5, <1>8 DEF Record
<1>9. CASE RecordFails(w)
  BY <1>5, <1>9 DEF RecordFails
<1>10. CASE Crash(w)
  <2>1. worker' = [worker EXCEPT ![w] = Idle]
    BY <1>10 DEF Crash
  <2>2. QED
    BY <1>3, <1>4, <2>1
<1>11. QED
  BY <1>6, <1>7, <1>8, <1>9, <1>10 DEF Steps

(* What claim-webhook-deliveries returns for a delivery is a job.          *)
LEMMA ClaimedJob ==
  ASSUME Typed, NEW d \in Deliveries
  PROVE  Claimed(d) \in Jobs
<1>1. row[d].attempts \in Nat
  BY RowTyped DEF Typed, Rows
<1>2. endpoint[EndpointOf[d]].secret \in Nat
  BY ConstantsAssumption DEF Typed, TypeOK
<1>3. ClaimLease \in Nat
  BY ConstantsAssumption
<1>4. QED
  BY <1>1, <1>2, <1>3 DEF Claimed, Jobs

(* A claim gives a worker without jobs those of a batch of due deliveries, *)
(* and locks these.                                                        *)
LEMMA ClaimHolds ==
  ASSUME Typed, NEW w \in Instances, Claim(w)
  PROVE  /\ worker' \in [Instances -> States]
         /\ \A v \in Instances \ {w} : Held(v)' = Held(v)
         /\ Held(w) = {}
         /\ \E batch \in SUBSET {d \in Deliveries : Due(d)} :
              /\ Held(w)' = {Claimed(d) : d \in batch}
              /\ row' = [d \in Deliveries |->
                           IF d \in batch THEN [row[d] EXCEPT !.lock = ClaimLease]
                           ELSE row[d]]
<1>1. worker \in [Instances -> States] /\ worker[w] \in States
  BY WorkerTyped DEF Typed
<1>2. PICK batch \in SUBSET {d \in Deliveries : Due(d)} :
        /\ row' = [d \in Deliveries |->
                     IF d \in batch THEN [row[d] EXCEPT !.lock = ClaimLease] ELSE row[d]]
        /\ worker' = [worker EXCEPT ![w].jobs = {Claimed(d) : d \in batch}]
  BY DEF Claim, Claimed
<1>3. worker[w].pc = "idle"
  BY DEF Claim, Held
<1> DEFINE new == {Claimed(d) : d \in batch}
           s == [jobs |-> new, job |-> worker[w].job, pc |-> worker[w].pc,
                 elapsed |-> worker[w].elapsed]
<1>4. new \subseteq Jobs
  BY ClaimedJob
<1> HIDE DEF new
<1>5. s \in States
  BY <1>1, <1>4 DEF States
<1>6. worker' = [worker EXCEPT ![w] = s]
  <2>1. worker' = [worker EXCEPT ![w].jobs = new]
    BY <1>2 DEF new
  <2>2. [worker[w] EXCEPT !.jobs = new] = s
    BY <1>1 DEF States
  <2>3. QED
    BY <1>1, <2>1, <2>2
<1>7. s.pc = "idle" /\ s.jobs = new
  BY <1>3
<1> HIDE DEF s
<1>8. worker'[w] = s /\ \A v \in Instances \ {w} : worker'[v] = worker[v]
  BY <1>1, <1>6
<1>9. Held(w)' = new
  BY <1>7, <1>8, HeldDef
<1>10. \A v \in Instances \ {w} : Held(v)' = Held(v)
  BY <1>8, HeldDef
<1>11. worker' \in [Instances -> States]
  BY <1>1, <1>5, <1>6
<1>12. Held(w) = {}
  BY DEF Claim
<1>13. QED
  BY <1>2, <1>9, <1>10, <1>11, <1>12 DEF new

(* A retry changes the jobs held by its mark only.                         *)
LEMMA RetryHolds ==
  ASSUME Typed, NEW d \in Deliveries, Retry(d)
  PROVE  /\ worker' \in [Instances -> States]
         /\ \A v \in Instances : \A k \in Held(v)' : \E j \in Held(v) : k = Again(j, d)
<1>1. worker \in [Instances -> States]
  BY WorkerTyped DEF Typed
<1> DEFINE s(v) == [jobs |-> {Again(j, d) : j \in worker[v].jobs},
                    job |-> Again(worker[v].job, d),
                    pc |-> worker[v].pc, elapsed |-> worker[v].elapsed]
<1>2. worker' = [v \in Instances |-> s(v)]
  BY DEF Retry
<1>3. ASSUME NEW v \in Instances
      PROVE  s(v) \in States /\ \A k \in Held(v)' : \E j \in Held(v) : k = Again(j, d)
  <2>1. worker[v] \in States
    BY <1>1
  <2>2. {Again(j, d) : j \in worker[v].jobs} \subseteq Jobs
    BY <2>1, AgainJob DEF States
  <2>3. Again(worker[v].job, d) \in Jobs \cup {NoJob}
    <3>1. CASE worker[v].job \in Jobs
      BY <3>1, AgainJob
    <3>2. CASE worker[v].job = NoJob
      <4>1. NoJob.id # d
        BY ConstantsAssumption DEF NoJob
      <4>2. QED
        BY <3>2, <4>1 DEF Again, NoJob
    <3>3. QED
      BY <2>1, <3>1, <3>2 DEF States
  <2>4. s(v) \in States
    BY <2>1, <2>2, <2>3 DEF States
  <2>5. worker'[v] = s(v)
    BY <1>2
  <2>6. CASE worker[v].pc = "idle"
    <3>1. worker'[v].pc = "idle" /\ worker'[v].jobs = {Again(j, d) : j \in worker[v].jobs}
      BY <2>5, <2>6
    <3>2. Held(v)' = worker'[v].jobs /\ Held(v) = worker[v].jobs
      BY <2>6, <3>1, HeldDef
    <3>3. QED
      BY <2>4, <3>1, <3>2
  <2>7. CASE worker[v].pc # "idle"
    <3>1. /\ worker'[v].pc # "idle" /\ worker'[v].job = Again(worker[v].job, d)
          /\ worker'[v].jobs = {Again(j, d) : j \in worker[v].jobs}
      BY <2>5, <2>7
    <3>2. Held(v)' = {Again(j, d) : j \in worker[v].jobs} \cup {Again(worker[v].job, d)}
      BY <3>1, HeldDef
    <3>3. Held(v) = worker[v].jobs \cup {worker[v].job}
      BY <2>7, HeldDef
    <3>4. QED
      BY <2>4, <3>2, <3>3
  <2>8. QED
    BY <2>4, <2>6, <2>7
<1> HIDE DEF s
<1>4. QED
  BY <1>2, <1>3

(* A tick changes the jobs held by their leases only.                      *)
LEMMA TickHolds ==
  ASSUME Typed, Tick
  PROVE  /\ worker' \in [Instances -> States]
         /\ \A v \in Instances : \A k \in Held(v)' : \E j \in Held(v) : k = OneTickOn(j)
<1>1. worker \in [Instances -> States]
  BY WorkerTyped DEF Typed
<1> DEFINE s(v) == [jobs |-> {OneTickOn(j) : j \in worker[v].jobs},
                    job |-> OneTickOn(worker[v].job), pc |-> worker[v].pc,
                    elapsed |-> worker[v].elapsed +
                                  (IF worker[v].pc = "sending" THEN 1 ELSE 0)]
<1>2. worker' = [v \in Instances |-> s(v)]
  BY DEF Tick
<1>3. ASSUME NEW v \in Instances
      PROVE  s(v) \in States /\ \A k \in Held(v)' : \E j \in Held(v) : k = OneTickOn(j)
  <2>1. worker[v] \in States
    BY <1>1
  <2>2. {OneTickOn(j) : j \in worker[v].jobs} \subseteq Jobs
    BY <2>1, TickedJob DEF States
  <2>3. OneTickOn(worker[v].job) \in Jobs \cup {NoJob}
    <3>1. CASE worker[v].job \in Jobs
      BY <3>1, TickedJob
    <3>2. CASE worker[v].job = NoJob
      <4>1. Down(NoJob.lease) = NoJob.lease
        BY DEF Down, NoJob
      <4>2. [NoJob EXCEPT !.lease = NoJob.lease] = NoJob
        BY DEF NoJob
      <4>3. QED
        BY <3>2, <4>1, <4>2 DEF OneTickOn
    <3>3. QED
      BY <2>1, <3>1, <3>2 DEF States
  <2>4. s(v).elapsed \in 0..Timeout
    <3>1. worker[v].elapsed \in 0..Timeout
      BY <2>1 DEF States
    <3>2. worker[v].pc = "sending" => worker[v].elapsed < Timeout
      BY DEF Tick, Waiting, Held
    <3>3. Timeout \in Nat
      BY ConstantsAssumption
    <3>4. QED
      BY <3>1, <3>2, <3>3
  <2>5. s(v) \in States
    BY <2>1, <2>2, <2>3, <2>4 DEF States
  <2>6. worker'[v] = s(v)
    BY <1>2
  <2>7. CASE worker[v].pc = "idle"
    <3>1. worker'[v].pc = "idle" /\ worker'[v].jobs = {OneTickOn(j) : j \in worker[v].jobs}
      BY <2>6, <2>7
    <3>2. Held(v)' = worker'[v].jobs /\ Held(v) = worker[v].jobs
      BY <2>7, <3>1, HeldDef
    <3>3. QED
      BY <2>5, <3>1, <3>2
  <2>8. CASE worker[v].pc # "idle"
    <3>1. /\ worker'[v].pc # "idle" /\ worker'[v].job = OneTickOn(worker[v].job)
          /\ worker'[v].jobs = {OneTickOn(j) : j \in worker[v].jobs}
      BY <2>6, <2>8
    <3>2. Held(v)' = {OneTickOn(j) : j \in worker[v].jobs} \cup {OneTickOn(worker[v].job)}
      BY <3>1, HeldDef
    <3>3. Held(v) = worker[v].jobs \cup {worker[v].job}
      BY <2>8, HeldDef
    <3>4. QED
      BY <2>5, <3>2, <3>3
  <2>9. QED
    BY <2>5, <2>7, <2>8
<1> HIDE DEF s
<1>4. QED
  BY <1>2, <1>3

-----------------------------------------------------------------------------
(* A step is one of one worker, one that only touches rows or endpoints,   *)
(* a claim, a retry or a tick.                                             *)
RowsOnly ==
  /\ UNCHANGED worker
  /\ \/ UNCHANGED row
     \/ \E d \in Deliveries : Enqueue(d) \/ Prune(d)
     \/ \E e \in Endpoints : DeleteEndpoint(e)

(* The steps, by what they do to the workers.                              *)
LEMMA StepKinds ==
  ASSUME [Next]_vars
  PROVE  \/ RowsOnly
         \/ \E w \in Instances : Steps(w) \/ Claim(w)
         \/ \E d \in Deliveries : Retry(d)
         \/ Tick
<1>1. CASE UNCHANGED vars
  BY <1>1 DEF vars, RowsOnly
<1>2. ASSUME NEW d \in Deliveries, Enqueue(d) \/ Prune(d) PROVE RowsOnly
  BY <1>2 DEF RowsOnly, Enqueue, Prune
<1>3. ASSUME NEW e \in Endpoints,
             \/ \E status \in {"active", "disabled"} : UpdateEndpoint(e, status)
             \/ RotateSecret(e) \/ DeleteEndpoint(e)
      PROVE  RowsOnly
  BY <1>3 DEF RowsOnly, UpdateEndpoint, RotateSecret, DeleteEndpoint
<1>4. QED
  BY <1>1, <1>2, <1>3 DEF Next, Worker, Steps

(* Where no worker changes, the jobs held stay.                            *)
LEMMA HeldRowsOnly ==
  ASSUME UNCHANGED worker
  PROVE  \A v \in Instances : Held(v)' = Held(v)
  BY HeldDef

(* Every step keeps the types of the workers and of the jobs they hold.    *)
LEMMA WorkersStep ==
  ASSUME Typed, [Next]_vars
  PROVE  worker' \in [Instances -> States] /\ HeldTyped'
<1>1. worker \in [Instances -> States] /\ \A v \in Instances : Held(v) \subseteq Jobs
  BY WorkerTyped DEF Typed, HeldTyped
<1>2. CASE RowsOnly
  BY <1>1, <1>2, HeldRowsOnly DEF RowsOnly, HeldTyped
<1>3. ASSUME NEW w \in Instances, Steps(w) PROVE worker' \in [Instances -> States] /\ HeldTyped'
  BY <1>1, <1>3, StepsKeep DEF HeldTyped
<1>4. ASSUME NEW w \in Instances, Claim(w) PROVE worker' \in [Instances -> States] /\ HeldTyped'
  <2>1. Held(w)' \subseteq Jobs
    BY <1>4, ClaimHolds, ClaimedJob
  <2>2. QED
    BY <1>1, <1>4, <2>1, ClaimHolds DEF HeldTyped
<1>5. ASSUME NEW d \in Deliveries, Retry(d) PROVE worker' \in [Instances -> States] /\ HeldTyped'
  BY <1>1, <1>5, RetryHolds, AgainJob DEF HeldTyped
<1>6. CASE Tick
  BY <1>1, <1>6, TickHolds, TickedJob DEF HeldTyped
<1>7. QED
  BY <1>2, <1>3, <1>4, <1>5, <1>6, StepKinds

-----------------------------------------------------------------------------
(* What holds of a job survives what others do to its row.                 *)

(* JobOK, with the row it is about.                                        *)
JobRowOK(j, r) ==
  /\ j.attempts < MaxAttempts
  /\ j.lease <= ClaimLease
  /\ r.status # "none"
  /\ j.lease > 0 /\ ~j.again =>
       r.status \notin Open \/ r.lock >= j.lease \/ r.next >= j.lease

(* Whether a job is in order depends on the row of its delivery alone.     *)
LEMMA JobOKRow ==
  ASSUME NEW j
  PROVE  (JobOK(j) <=> JobRowOK(j, row[j.id])) /\ (JobOK(j)' <=> JobRowOK(j, row'[j.id]))
  BY DEF JobOK, JobRowOK, NotDueFor

(* A row that is deleted, or that an attempt was recorded on, or that was  *)
(* locked for a whole lease.                                               *)
LEMMA JobSurvives ==
  ASSUME NEW j \in Jobs, NEW r \in Rows, NEW s \in Rows, JobRowOK(j, r),
         \/ s = r
         \/ s.status \in Done \cup {"gone"}
         \/ s.status = "retrying" /\ s.next > ClaimLease
         \/ s.status = r.status /\ s.lock = ClaimLease
  PROVE  JobRowOK(j, s)
<1>1. ClaimLease \in Nat /\ j.lease \in Nat /\ s.lock \in Nat /\ s.next \in Int
  BY ConstantsAssumption DEF Jobs, Rows, Null
<1>2. QED
  BY <1>1 DEF JobRowOK, Open, Done

(* Every step keeps the jobs held in order: while a lease runs, its        *)
(* delivery stays locked or waits for a backoff longer than the lease.     *)
LEMMA HeldStep ==
  ASSUME Typed, HeldOK, AttemptsMatchStatus, [Next]_vars
  PROVE  HeldOK'
<1>1. row \in [Deliveries -> Rows] /\ row' \in [Deliveries -> Rows]
  BY RowTyped, RowsStep DEF Typed
<1>2. ASSUME NEW v \in Instances, NEW j \in Held(v)
      PROVE  j \in Jobs /\ j.id \in Deliveries /\ JobRowOK(j, row[j.id])
  <2>1. j \in Jobs
    BY DEF Typed, HeldTyped
  <2>2. JobRowOK(j, row[j.id])
    BY JobOKRow DEF HeldOK
  <2>3. QED
    BY <2>1, <2>2 DEF Jobs
<1>3. ASSUME \A v \in Instances : Held(v)' \subseteq Held(v),
             \A v \in Instances : \A j \in Held(v) : JobRowOK(j, row'[j.id])
      PROVE  HeldOK'
  <2>1. \A v \in Instances : \A j \in Held(v)' : JobOK(j)'
    BY <1>3, JobOKRow
  <2>2. QED
    BY <2>1 DEF HeldOK
<1>4. CASE UNCHANGED row /\ \A v \in Instances : Held(v)' \subseteq Held(v)
  BY <1>2, <1>3, <1>4
<1>5. ASSUME UNCHANGED worker, NEW d \in Deliveries, Enqueue(d) \/ Prune(d)
      PROVE  HeldOK'
  <2>1. \A v \in Instances : Held(v)' \subseteq Held(v)
    BY <1>5, HeldRowsOnly
  <2>2. ASSUME NEW v \in Instances, NEW j \in Held(v)
        PROVE  JobRowOK(j, row'[j.id])
    <3>1. CASE j.id # d
      <4>1. row'[j.id] = row[j.id]
        BY <1>1, <1>2, <1>5, <3>1 DEF Enqueue, Prune
      <4>2. QED
        BY <1>2, <4>1
    <3>2. CASE j.id = d
      <4>1. row[d].status # "none"
        BY <1>2, <3>2 DEF JobRowOK
      <4>2. Prune(d)
        BY <1>5, <4>1 DEF Enqueue
      <4>3. row'[d] = NoRow("gone") /\ NoRow("gone").status = "gone"
        BY <1>1, <4>2, NewRows DEF Prune, Absent
      <4>4. QED
        BY <1>1, <1>2, <3>2, <4>3, JobSurvives
    <3>3. QED
      BY <3>1, <3>2
  <2>3. QED
    BY <1>3, <2>1, <2>2
<1>6. ASSUME UNCHANGED worker, NEW e \in Endpoints, DeleteEndpoint(e)
      PROVE  HeldOK'
  <2>1. \A v \in Instances : Held(v)' \subseteq Held(v)
    BY <1>6, HeldRowsOnly
  <2>2. ASSUME NEW v \in Instances, NEW j \in Held(v)
        PROVE  JobRowOK(j, row'[j.id])
    <3>1. row'[j.id] = row[j.id] \/ row'[j.id] = NoRow("gone")
      BY <1>2, <1>6 DEF DeleteEndpoint
    <3>2. NoRow("gone").status = "gone"
      BY NewRows DEF Absent
    <3>3. QED
      BY <1>1, <1>2, <3>1, <3>2, JobSurvives
  <2>3. QED
    BY <1>3, <2>1, <2>2
<1>7. ASSUME NEW w \in Instances, Record(w) PROVE HeldOK'
  <2>1. \A v \in Instances : Held(v)' \subseteq Held(v)
    BY <1>7, StepsKeep DEF Steps
  <2> DEFINE k == worker[w].job
             o == Outcome(worker[w].pc = "accepted", k.attempts + 1)
  <2>2. /\ k.id \in Deliveries /\ k.attempts + 1 \in Nat
        /\ k.attempts + 1 >= 1 /\ k.attempts + 1 <= MaxAttempts
    BY <1>7, AtHand, ConstantsAssumption DEF Record
  <2>3. /\ o.status \in {"success", "retrying", "failed"}
        /\ o.status \in Open => o.next > ClaimLease
    BY <2>2, OutcomeOK
  <2>4. row' = row \/ row' = [row EXCEPT ![k.id] = o]
    BY <1>7 DEF Record
  <2> HIDE DEF k, o
  <2>5. o.status \in Done \/ (o.status = "retrying" /\ o.next > ClaimLease)
    BY <2>3 DEF Open, Done
  <2>6. ASSUME NEW v \in Instances, NEW j \in Held(v)
        PROVE  JobRowOK(j, row'[j.id])
    <3>1. row'[j.id] = row[j.id] \/ row'[j.id] = o
      BY <1>1, <1>2, <2>2, <2>4
    <3>2. QED
      BY <1>1, <1>2, <2>5, <3>1, JobSurvives
  <2>7. QED
    BY <1>3, <2>1, <2>6
<1>8. ASSUME NEW w \in Instances, Claim(w) PROVE HeldOK'
  <2>1. PICK batch \in SUBSET {d \in Deliveries : Due(d)} :
          /\ Held(w)' = {Claimed(d) : d \in batch}
          /\ row' = [d \in Deliveries |->
                       IF d \in batch THEN [row[d] EXCEPT !.lock = ClaimLease]
                       ELSE row[d]]
    BY <1>8, ClaimHolds
  <2>2. ASSUME NEW d \in Deliveries
        PROVE  \/ row'[d] = row[d]
               \/ row'[d].status = row[d].status /\ row'[d].lock = ClaimLease
    BY <1>1, <2>1 DEF Rows
  <2>3. ASSUME NEW d \in batch
        PROVE  /\ row'[d].status \in Open /\ row'[d].lock = ClaimLease
               /\ row[d].attempts < MaxAttempts
    <3>1. d \in Deliveries /\ row[d].status \in Open
      BY DEF Due
    <3>2. row'[d].status = row[d].status /\ row'[d].lock = ClaimLease
      BY <1>1, <2>1, <3>1 DEF Rows
    <3>3. row[d].attempts < MaxAttempts
      BY <3>1, ConstantsAssumption DEF AttemptsMatchStatus, Open
    <3>4. QED
      BY <3>1, <3>2, <3>3
  <2>4. ASSUME NEW d \in batch PROVE JobRowOK(Claimed(d), row'[d]) /\ Claimed(d).id = d
    BY <2>3, ConstantsAssumption DEF JobRowOK, Claimed, Open
  <2>5. \A j \in Held(w)' : JobOK(j)'
    BY <2>1, <2>4, JobOKRow
  <2>6. ASSUME NEW v \in Instances \ {w}, NEW j \in Held(v)' PROVE JobOK(j)'
    <3>1. j \in Held(v)
      BY <1>8, ClaimHolds
    <3>2. JobRowOK(j, row'[j.id])
      BY <1>1, <1>2, <2>2, <3>1, JobSurvives
    <3>3. QED
      BY <3>2, JobOKRow
  <2>7. QED
    BY <2>5, <2>6 DEF HeldOK
<1>9. ASSUME NEW d \in Deliveries, Retry(d) PROVE HeldOK'
  <2>1. ASSUME NEW v \in Instances, NEW k \in Held(v)' PROVE JobOK(k)'
    <3>1. PICK j \in Held(v) : k = Again(j, d)
      BY <1>9, RetryHolds
    <3>2. /\ k.id = j.id /\ k.attempts = j.attempts /\ k.lease = j.lease
          /\ ~k.again => ~j.again /\ j.id # d
      BY <1>2, <3>1, AgainJob
    <3>3. CASE j.id = d
      <4>1. row'[d].status # "none"
        BY <1>1, <1>9 DEF Retry, Row
      <4>2. QED
        BY <1>2, <3>2, <3>3, <4>1, JobOKRow DEF JobRowOK
    <3>4. CASE j.id # d
      <4>1. row'[j.id] = row[j.id]
        BY <1>1, <1>2, <1>9, <3>4 DEF Retry
      <4>2. QED
        BY <1>2, <3>2, <4>1, JobOKRow DEF JobRowOK
    <3>5. QED
      BY <3>3, <3>4
  <2>2. QED
    BY <2>1 DEF HeldOK
<1>10. CASE Tick
  <2>1. ASSUME NEW v \in Instances, NEW k \in Held(v)' PROVE JobOK(k)'
    <3>1. PICK j \in Held(v) : k = OneTickOn(j)
      BY <1>10, TickHolds
    <3>2. /\ k.id = j.id /\ k.attempts = j.attempts /\ k.again = j.again
          /\ k.lease = Down(j.lease)
      BY <1>2, <3>1, TickedJob
    <3>3. /\ row'[j.id].status = row[j.id].status
          /\ row'[j.id].next = Down(row[j.id].next)
          /\ row'[j.id].lock = Down(row[j.id].lock)
      BY <1>2, <1>10 DEF Tick, Row
    <3>4. j.lease \in Nat /\ row[j.id].next \in Nat \cup {Null} /\ row[j.id].lock \in Nat
      BY <1>1, <1>2 DEF Jobs, Rows
    <3>5. /\ Down(j.lease) <= j.lease /\ Down(j.lease) \in Nat
          /\ Down(j.lease) > 0 => j.lease > 0
          /\ row[j.id].next >= j.lease => Down(row[j.id].next) >= Down(j.lease)
          /\ row[j.id].lock >= j.lease => Down(row[j.id].lock) >= Down(j.lease)
      BY <3>4, DownProps
    <3>6. JobRowOK(j, row[j.id])
      BY <1>2
    <3>7. ClaimLease \in Nat
      BY ConstantsAssumption
    <3>8. JobRowOK(k, row'[k.id])
      BY <3>2, <3>3, <3>4, <3>5, <3>6, <3>7 DEF JobRowOK
    <3>9. QED
      BY <3>8, JobOKRow
  <2>2. QED
    BY <2>1 DEF HeldOK
<1>11. ASSUME NEW w \in Instances, Steps(w) PROVE HeldOK'
  <2>1. Record(w) \/ (UNCHANGED row /\ \A v \in Instances : Held(v)' \subseteq Held(v))
    BY <1>11, StepsKeep DEF Steps, StartSend, Answer, RecordFails, Crash
  <2>2. QED
    BY <1>4, <1>7, <2>1
<1>12. CASE RowsOnly
  <2>1. UNCHANGED worker /\ \A v \in Instances : Held(v)' \subseteq Held(v)
    BY <1>12, HeldRowsOnly DEF RowsOnly
  <2>2. QED
    BY <1>4, <1>5, <1>6, <1>12, <2>1 DEF RowsOnly
<1>13. QED
  BY <1>8, <1>9, <1>10, <1>11, <1>12, StepKinds

-----------------------------------------------------------------------------
(* A second claim asks for a delivery that is due, which the job that      *)
(* holds it says it is not.                                                *)
Disjoint(i, j) ==
  i.id = j.id /\ i.lease > 0 /\ j.lease > 0 => i.again \/ j.again

(* Every step keeps leases disjoint: what is claimed is due, so no         *)
(* unexpired lease without a retry names it.                               *)
LEMMA LeaseStep ==
  ASSUME Typed, HeldOK, LeasesDisjoint, [Next]_vars
  PROVE  LeasesDisjoint'
<1>1. ASSUME NEW v \in Instances, NEW j \in Held(v)
      PROVE  j \in Jobs /\ JobRowOK(j, row[j.id])
  BY JobOKRow DEF Typed, HeldTyped, HeldOK
<1>2. \A v, w \in Instances : v # w => \A i \in Held(v), j \in Held(w) : Disjoint(i, j)
  BY DEF LeasesDisjoint, Disjoint
<1>3. SUFFICES \A v, w \in Instances : v # w =>
                  \A i \in Held(v)', j \in Held(w)' : Disjoint(i, j)
  BY DEF LeasesDisjoint, Disjoint
<1> DEFINE Goal == \A v, w \in Instances : v # w =>
                     \A i \in Held(v)', j \in Held(w)' : Disjoint(i, j)
<1>4. CASE \A v \in Instances : Held(v)' \subseteq Held(v)
  BY <1>2, <1>4
<1>5. ASSUME NEW c \in Instances, Claim(c) PROVE Goal
  <2>1. PICK batch \in SUBSET {d \in Deliveries : Due(d)} :
          Held(c)' = {Claimed(d) : d \in batch}
    BY <1>5, ClaimHolds
  <2>2. ASSUME NEW d \in batch, NEW v \in Instances, NEW j \in Held(v)
        PROVE  Disjoint(Claimed(d), j) /\ Disjoint(j, Claimed(d))
    <3>1. row[d].next = 0 /\ row[d].lock = 0 /\ row[d].status \in Open
      BY DEF Due
    <3>2. j.lease \in Nat /\ JobRowOK(j, row[j.id])
      BY <1>1 DEF Jobs
    <3>3. Claimed(d).id = d
      BY DEF Claimed
    <3>4. j.id = d /\ j.lease > 0 => j.again
      BY <3>1, <3>2 DEF JobRowOK
    <3>5. QED
      BY <3>3, <3>4 DEF Disjoint
  <2>3. \A v \in Instances \ {c} : Held(v)' = Held(v)
    BY <1>5, ClaimHolds
  <2>4. QED
    BY <1>2, <2>1, <2>2, <2>3
<1>6. ASSUME NEW d \in Deliveries, Retry(d) PROVE Goal
  <2>1. ASSUME NEW v \in Instances, NEW k \in Held(v)'
        PROVE  \E j \in Held(v) : /\ k.id = j.id /\ k.lease = j.lease
                                  /\ ~k.again => ~j.again
    BY <1>1, <1>6, RetryHolds, AgainJob
  <2>2. QED
    BY <1>2, <2>1 DEF Disjoint
<1>7. CASE Tick
  <2>1. ASSUME NEW v \in Instances, NEW k \in Held(v)'
        PROVE  \E j \in Held(v) : /\ k.id = j.id /\ k.again = j.again
                                  /\ k.lease > 0 => j.lease > 0
    <3>1. PICK j \in Held(v) : k = OneTickOn(j)
      BY <1>7, TickHolds
    <3>2. j \in Jobs /\ j.lease \in Nat
      BY <1>1 DEF Jobs
    <3>3. Down(j.lease) > 0 => j.lease > 0
      BY <3>2, DownProps
    <3>4. QED
      BY <3>1, <3>2, <3>3, TickedJob
  <2>2. QED
    BY <1>2, <2>1 DEF Disjoint
<1>8. CASE RowsOnly
  BY <1>4, <1>8, HeldRowsOnly DEF RowsOnly
<1>9. ASSUME NEW w \in Instances, Steps(w) PROVE Goal
  BY <1>4, <1>9, StepsKeep
<1>10. QED
  BY <1>5, <1>6, <1>7, <1>8, <1>9, StepKinds

-----------------------------------------------------------------------------
(* Every step keeps the type of the bounds.                                *)
LEMMA BudgetTyped ==
  ASSUME Typed, [Next]_vars
  PROVE  budget' \in [{"retries", "rotations", "faults", "crashes"} -> Nat]
<1>1. ASSUME NEW what \in {"retries", "rotations", "faults", "crashes"}, NEW limit,
             Spend(what, limit)
      PROVE  budget' \in [{"retries", "rotations", "faults", "crashes"} -> Nat]
  BY <1>1 DEF Typed, TypeOK, Spend
<1>2. CASE UNCHANGED budget
  BY <1>2 DEF Typed, TypeOK
<1>3. QED
  BY <1>1, <1>2 DEF Next, vars, Enqueue, Retry, Prune, UpdateEndpoint, RotateSecret,
     DeleteEndpoint, Worker, Claim, StartSend, Answer, Record, RecordFails, Crash, Tick

(* Every step keeps the type of the endpoints.                             *)
LEMMA EndpointTyped ==
  ASSUME Typed, [Next]_vars
  PROVE  endpoint' \in
           [Endpoints -> [status : {"active", "disabled", "deleted"}, secret : Nat]]
<1>1. endpoint \in
        [Endpoints -> [status : {"active", "disabled", "deleted"}, secret : Nat]]
  BY DEF Typed, TypeOK
<1>2. CASE UNCHANGED endpoint
  BY <1>1, <1>2
<1>3. ASSUME NEW e \in Endpoints, NEW s \in {"active", "disabled", "deleted"},
             endpoint' = [endpoint EXCEPT ![e].status = s]
      PROVE  endpoint' \in
               [Endpoints -> [status : {"active", "disabled", "deleted"}, secret : Nat]]
  BY <1>1, <1>3
<1>4. ASSUME NEW e \in Endpoints, RotateSecret(e)
      PROVE  endpoint' \in
               [Endpoints -> [status : {"active", "disabled", "deleted"}, secret : Nat]]
  BY <1>1, <1>4 DEF RotateSecret
<1>5. QED
  BY <1>2, <1>3, <1>4 DEF Next, vars, Enqueue, Retry, Prune, UpdateEndpoint,
     DeleteEndpoint, Worker, Claim, StartSend, Answer, Record, RecordFails, Crash, Tick

(* AttemptsMatchStatus is RowOK of every row, before and after a step.     *)
LEMMA RowOKIsMatch ==
  /\ AttemptsMatchStatus <=> \A d \in Deliveries : RowOK(row[d])
  /\ AttemptsMatchStatus' <=> \A d \in Deliveries : RowOK(row'[d])
  BY DEF AttemptsMatchStatus, RowOK

(* The inductive invariant holds initially and is kept by every step.      *)
THEOREM DeliveryInvariant == Spec => []IInv
<1>1. Init => IInv
  <2> SUFFICES ASSUME Init PROVE IInv
    OBVIOUS
  <2>1. row \in [Deliveries -> Rows] /\ \A d \in Deliveries : RowOK(row[d])
    BY NewRows DEF Init, Absent
  <2>2. Idle \in States /\ Idle.jobs = {} /\ Idle.pc = "idle"
    BY ConstantsAssumption DEF Idle, States
  <2>3. worker \in [Instances -> States] /\ \A w \in Instances : Held(w) = {}
    BY <2>2, HeldDef DEF Init
  <2>4. TypeOK
    BY <2>1, <2>3 DEF Init, TypeOK, Rows, States
  <2>5. QED
    BY <2>1, <2>3, <2>4, RowOKIsMatch DEF IInv, HeldTyped, HeldOK, LeasesDisjoint
<1>2. IInv /\ [Next]_vars => IInv'
  <2> SUFFICES ASSUME IInv, [Next]_vars PROVE IInv'
    OBVIOUS
  <2>1. Typed /\ HeldOK /\ AttemptsMatchStatus /\ LeasesDisjoint
    BY DEF IInv, Typed
  <2>2. row' \in [Deliveries -> Rows] /\ AttemptsMatchStatus'
    BY <2>1, RowsStep, RowOKIsMatch
  <2>3. worker' \in [Instances -> States] /\ HeldTyped'
    BY <2>1, WorkersStep
  <2>4. TypeOK'
    BY <2>1, <2>2, <2>3, BudgetTyped, EndpointTyped DEF TypeOK, Rows, States
  <2>5. HeldOK' /\ LeasesDisjoint'
    BY <2>1, HeldStep, LeaseStep
  <2>6. QED
    BY <2>2, <2>3, <2>4, <2>5 DEF IInv
<1>3. QED
  BY <1>1, <1>2, PTL DEF Spec

(* The types; in particular no call outlives its timeout.                  *)
THEOREM DeliveryTypes == Spec => []TypeOK
<1>1. IInv => TypeOK
  BY DEF IInv
<1>2. QED
  BY <1>1, DeliveryInvariant, PTL

(* Status, attempts and next attempt of a delivery agree, however late the *)
(* attempts are recorded and however often it is retried by hand.          *)
THEOREM StatusAgrees == Spec => []AttemptsMatchStatus
<1>1. IInv => AttemptsMatchStatus
  BY DEF IInv
<1>2. QED
  BY <1>1, DeliveryInvariant, PTL

(* Two workers whose leases run hold the same delivery only if it was      *)
(* retried by hand, as long as every backoff is longer than a lease.       *)
THEOREM OneLease == Spec => []LeasesDisjoint
<1>1. IInv => LeasesDisjoint
  BY DEF IInv
<1>2. QED
  BY <1>1, DeliveryInvariant, PTL
===============================================================================
