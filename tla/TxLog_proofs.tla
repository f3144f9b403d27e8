------------------------------ MODULE TxLog_proofs ------------------------------
(* The truth of the message log, for any number of requests, workers,      *)
(* messages and reports of a bounce.  A message is in one place at a time: *)
(* with its request, in the queue, or with a worker; it is taken or given  *)
(* up only from there, and what is still to be recorded of it was true     *)
(* when it was found out.                                                  *)
EXTENDS TxLog, SequenceTheorems, FiniteSetTheorems, TLAPS

JobSets == {<<>>, <<"failed">>, <<"bounced">>, <<"sent">>, <<"delivered">>, <<"sent", "delivered">>}
JobStates == [msg : Messages \cup {NoMessage}, sets : JobSets, tell : Told \cup {"none"}]
RequestStates == [pc : {"record", "push"}, left : Seq(Messages)]

Types ==
  /\ log \in [Messages -> Statuses]
  /\ recorded \in Seq(Messages)
  /\ queue \in Seq(Messages) /\ Len(queue) <= QueueCap
  /\ request \in [Requests -> RequestStates]
  /\ \A r \in Requests : request[r].pc = "push" => request[r].left # <<>>
  /\ sending \in [Workers -> Messages \cup {NoMessage}]
  /\ job \in [Callers -> JobStates]
  /\ reported \subseteq Bounces /\ pushed \subseteq Messages
  /\ lost \subseteq Messages /\ untold \subseteq Messages
  /\ told \in [Messages -> [Told -> Nat]]
  /\ faults \in 0..MaxFaults /\ crashes \in 0..MaxCrashes

Recorded(m) == \E i \in 1..Len(recorded) : recorded[i] = m

(* Where a message is.                                                     *)
Ahead(m) == \E r \in Requests : \E i \in 1..Len(request[r].left) : request[r].left[i] = m
Waits(m) == \E i \in 1..Len(queue) : queue[i] = m
OnItsWay(m) == \E w \in Workers : sending[w] = m
InFlight(m) == Ahead(m) \/ Waits(m) \/ OnItsWay(m)

Apart ==
  \A r, q \in Requests : \A i \in 1..Len(request[r].left), k \in 1..Len(request[q].left) :
    request[r].left[i] = request[q].left[k] => r = q /\ i = k
QueueApart == \A i, k \in 1..Len(queue) : queue[i] = queue[k] => i = k
WorkersApart == \A w, v \in Workers : sending[w] = sending[v] /\ sending[w] # NoMessage => w = v
OnePlace(m) ==
  /\ ~(Ahead(m) /\ Waits(m)) /\ ~(Ahead(m) /\ OnItsWay(m)) /\ ~(Waits(m) /\ OnItsWay(m))
  /\ InFlight(m) => m \notin pushed

(* A request has recorded the message it is about to queue, and none after.*)
Unrecorded ==
  \A r \in Requests : \A i \in 1..Len(request[r].left) :
    request[r].pc = "record" \/ i > 1 => log[request[r].left[i]] = "none"

(* What is still to be recorded is true.                                   *)
JobOK(c) ==
  LET m == job[c].msg
      sets == job[c].sets IN
  /\ sets # <<>> => m \in Messages /\ log[m] # "none"
  /\ job[c].tell # "none" => m \in Messages
  /\ sets \in {<<"sent">>, <<"delivered">>, <<"sent", "delivered">>} => m \in pushed
  /\ sets \in {<<"delivered">>, <<"sent", "delivered">>} => m \in Email
  /\ sets = <<"failed">> => m \notin pushed /\ ~InFlight(m)

LogOK(m) ==
  /\ log[m] # "none" <=> Recorded(m)
  /\ log[m] \in {"sent", "delivered"} => m \in pushed
  /\ log[m] = "delivered" => m \in Email
  /\ log[m] = "failed" => m \notin pushed /\ ~InFlight(m)

IInv ==
  /\ Types
  /\ Apart /\ QueueApart /\ WorkersApart /\ Unrecorded
  /\ \A m \in Messages : OnePlace(m) /\ LogOK(m)
  /\ \A c \in Callers : JobOK(c)

-----------------------------------------------------------------------------
(* What stays when a step changes something else.                          *)

(* Messages leave their place for the next one or for good, and a          *)
(* messenger takes only what was in flight.                                *)
Forward ==
  /\ \A m \in Messages : InFlight(m)' => InFlight(m)
  /\ pushed \subseteq pushed'
  /\ \A m \in pushed' \ pushed : InFlight(m)
RowsStay == \A m \in Messages : log[m] # "none" => log'[m] # "none"

LEMMA JobKept ==
  ASSUME IInv, Forward, RowsStay, NEW c \in Callers, job'[c] = job[c]
  PROVE  JobOK(c)'
<1> DEFINE m == job[c].msg
<1>1. JobOK(c) /\ pushed \subseteq pushed'
  BY DEF IInv, Forward
<1>2. job[c].sets # <<>> => m \in Messages /\ log'[m] # "none"
  BY <1>1 DEF JobOK, RowsStay
<1>3. job[c].sets = <<"failed">> => m \notin pushed' /\ ~InFlight(m)'
  <2> SUFFICES ASSUME job[c].sets = <<"failed">> PROVE m \notin pushed' /\ ~InFlight(m)'
    OBVIOUS
  <2>1. m \in Messages /\ m \notin pushed /\ ~InFlight(m)
    BY <1>1 DEF JobOK
  <2>2. QED BY <2>1 DEF Forward
<1>4. QED BY <1>1, <1>2, <1>3 DEF JobOK

LEMMA LogKept ==
  ASSUME IInv, Forward, NEW m \in Messages, log'[m] = log[m], Recorded(m)' <=> Recorded(m)
  PROVE  LogOK(m)'
<1>1. LogOK(m) /\ pushed \subseteq pushed'
  BY DEF IInv, Forward
<1>2. m \notin pushed /\ ~InFlight(m) => m \notin pushed' /\ ~InFlight(m)'
  BY DEF Forward
<1>3. QED BY <1>1, <1>2 DEF LogOK

(* A request goes on to its next message, or ends.                         *)
GoesOn(r, d) ==
  /\ request' \in [Requests -> RequestStates]
  /\ \A q \in Requests \ {r} : request'[q] = request[q]
  /\ Len(request'[r].left) <= Len(request[r].left) - d \/ request'[r].left = <<>>
  /\ \A i \in 1..Len(request'[r].left) : request'[r].left[i] = request[r].left[i + d]

LEMMA RequestGoes ==
  ASSUME IInv, NEW r \in Requests, request[r].left # <<>>,
         NEW h, h = Head(request[r].left),
         NEW d \in {0, 1}, GoesOn(r, d)
  PROVE  /\ Apart'
         /\ \A m \in Messages : Ahead(m)' => Ahead(m)
         /\ h \in Messages /\ Ahead(h) /\ (d = 1 => ~Ahead(h)')
<1>0. PICK new : new = request'[r]
  OBVIOUS
<1>1. /\ request' \in [Requests -> RequestStates] /\ request'[r] = new /\ new \in RequestStates
      /\ \A q \in Requests \ {r} : request'[q] = request[q]
      /\ Len(new.left) <= Len(request[r].left) - d \/ new.left = <<>>
      /\ \A i \in 1..Len(new.left) : new.left[i] = request[r].left[i + d]
  BY <1>0 DEF GoesOn
<1>2. request[r].left \in Seq(Messages) /\ new.left \in Seq(Messages)
  BY <1>1 DEF IInv, Types, RequestStates
<1>3. Len(request[r].left) \in Nat /\ Len(new.left) \in Nat
  BY <1>2, LenProperties
<1>4. \A i \in 1..Len(new.left) : i + d \in 1..Len(request[r].left)
  BY <1>1, <1>2, <1>3, EmptySeq
<1>5. ASSUME NEW q \in Requests, NEW i \in 1..Len(request'[q].left)
      PROVE  \E j \in 1..Len(request[q].left) :
               request[q].left[j] = request'[q].left[i] /\ (q = r => j = i + d) /\ (q # r => j = i)
  <2>1. CASE q = r
    <3>1. i \in 1..Len(new.left)
      BY <1>1, <2>1
    <3>2. i + d \in 1..Len(request[q].left) /\ request[q].left[i + d] = request'[q].left[i]
      BY <1>1, <1>4, <2>1, <3>1
    <3>3. QED BY <2>1, <3>2
  <2>2. CASE q # r
    <3>1. request'[q] = request[q]
      BY <1>1, <2>2
    <3>2. QED BY <2>2, <3>1
  <2>3. QED BY <2>1, <2>2
<1>6. Apart'
  <2> SUFFICES ASSUME NEW p \in Requests, NEW q \in Requests,
                      NEW i \in 1..Len(request'[p].left), NEW k \in 1..Len(request'[q].left),
                      request'[p].left[i] = request'[q].left[k]
               PROVE  p = q /\ i = k
    BY DEF Apart
  <2>1. PICK j \in 1..Len(request[p].left) :
          request[p].left[j] = request'[p].left[i] /\ (p = r => j = i + d) /\ (p # r => j = i)
    BY <1>5
  <2>2. PICK l \in 1..Len(request[q].left) :
          request[q].left[l] = request'[q].left[k] /\ (q = r => l = k + d) /\ (q # r => l = k)
    BY <1>5
  <2>3. p = q /\ j = l
    BY <2>1, <2>2 DEF IInv, Apart
  <2>4. i \in Int /\ k \in Int
    OBVIOUS
  <2>5. QED BY <2>1, <2>2, <2>3, <2>4
<1>7. \A m \in Messages : Ahead(m)' => Ahead(m)
  <2> TAKE m \in Messages
  <2>1. ASSUME NEW q \in Requests, NEW i \in 1..Len(request'[q].left), request'[q].left[i] = m
        PROVE  Ahead(m)
    <3>1. PICK j \in 1..Len(request[q].left) : request[q].left[j] = m
      BY <1>5, <2>1
    <3>2. QED BY <3>1 DEF Ahead
  <2>2. QED BY <2>1 DEF Ahead
<1>8. 1 \in 1..Len(request[r].left) /\ h = request[r].left[1] /\ h \in Messages
  BY <1>2, <1>3, EmptySeq, HeadTailProperties
<1>9. Ahead(h)
  BY <1>8 DEF Ahead
<1>10. ASSUME d = 1, Ahead(h)' PROVE FALSE
  <2>0. PICK q \in Requests : \E i \in 1..Len(request'[q].left) : request'[q].left[i] = h
    BY <1>10 DEF Ahead
  <2>1. PICK i \in 1..Len(request'[q].left) : request'[q].left[i] = h
    BY <2>0
  <2>2. PICK j \in 1..Len(request[q].left) :
          request[q].left[j] = h /\ (q = r => j = i + d) /\ (q # r => j = i)
    BY <1>5, <2>1
  <2>3. q = r /\ j = 1
    BY <1>8, <2>2 DEF IInv, Apart
  <2>4. QED BY <1>10, <2>2, <2>3
<1>11. QED BY <1>1, <1>6, <1>7, <1>8, <1>9, <1>10

LEMMA PlacesKept ==
  ASSUME IInv, \A m \in Messages : Ahead(m)' => Ahead(m),
         queue' = queue, sending' = sending, pushed' = pushed
  PROVE  /\ QueueApart' /\ WorkersApart' /\ Forward
         /\ \A m \in Messages : OnePlace(m)'
<1>1. QueueApart' /\ WorkersApart'
  BY DEF IInv, QueueApart, WorkersApart
<1>2. \A m \in Messages : (Waits(m)' <=> Waits(m)) /\ (OnItsWay(m)' <=> OnItsWay(m))
  BY DEF Waits, OnItsWay
<1>3. Forward
  BY <1>2 DEF Forward, InFlight
<1>4. \A m \in Messages : OnePlace(m)'
  BY <1>2 DEF IInv, OnePlace, InFlight
<1>5. QED BY <1>1, <1>3, <1>4

LEMMA CreateTxMessageStep ==
  ASSUME IInv, NEW m \in Messages, NEW status \in {"queued", "failed"}, CreateTxMessage(m, status)
  PROVE  /\ log' \in [Messages -> Statuses] /\ recorded' \in Seq(Messages)
         /\ log'[m] = status /\ \A n \in Messages \ {m} : log'[n] = log[n]
         /\ \A n \in Messages : Recorded(n)' <=> Recorded(n) \/ n = m
         /\ RowsStay
<1>1. log \in [Messages -> Statuses] /\ recorded \in Seq(Messages) /\ status \in Statuses
  BY DEF IInv, Types, Statuses, Told
<1>2. /\ log' \in [Messages -> Statuses]
      /\ log'[m] = status /\ \A n \in Messages \ {m} : log'[n] = log[n]
  BY <1>1 DEF CreateTxMessage
<1>3. recorded' = Append(recorded, m) /\ Len(recorded) \in Nat
  BY <1>1, LenProperties DEF CreateTxMessage
<1>4. /\ recorded' \in Seq(Messages) /\ Len(recorded') = Len(recorded) + 1
      /\ \A i \in 1..Len(recorded) : recorded'[i] = recorded[i]
      /\ recorded'[Len(recorded) + 1] = m
  BY <1>1, <1>3, AppendProperties
<1>5. \A n \in Messages : Recorded(n)' <=> Recorded(n) \/ n = m
  BY <1>3, <1>4 DEF Recorded
<1>6. RowsStay
  BY <1>2 DEF RowsStay
<1>7. QED BY <1>2, <1>4, <1>5, <1>6

LEMMA FaultTypes ==
  ASSUME Types, UNCHANGED faults \/ Fault
  PROVE  faults' \in 0..MaxFaults
BY TxLogAssumption DEF Types, Fault

(* One count goes up by one.                                               *)
LEMMA CountUp ==
  ASSUME NEW f \in [Messages -> [Told -> Nat]], NEW m \in Messages, NEW s \in Told,
         NEW g, g = [f EXCEPT ![m][s] = @ + 1]
  PROVE  /\ g \in [Messages -> [Told -> Nat]] /\ g[m][s] = f[m][s] + 1
         /\ \A n \in Messages, t \in Told : n # m \/ t # s => g[n][t] = f[n][t]
OBVIOUS

(* The solvers tell tuples apart by their lengths and their first elements.*)
LEMMA SetsDiffer ==
  /\ <<"sent">> # <<>> /\ <<"sent">> # <<"failed">> /\ <<"sent">> # <<"bounced">>
  /\ <<"sent">> # <<"delivered">> /\ <<"sent">> # <<"sent", "delivered">>
  /\ <<"sent", "delivered">> # <<>> /\ <<"sent", "delivered">> # <<"failed">>
  /\ <<"sent", "delivered">> # <<"bounced">> /\ <<"sent", "delivered">> # <<"delivered">>
  /\ <<"delivered">> # <<"failed">> /\ <<"delivered">> # <<"bounced">>
  /\ <<>> \notin {<<"sent">>, <<"delivered">>, <<"sent", "delivered">>, <<"failed">>, <<"bounced">>}
<1>1. /\ Len(<<>>) = 0 /\ Len(<<"sent">>) = 1 /\ Len(<<"failed">>) = 1 /\ Len(<<"bounced">>) = 1
      /\ Len(<<"delivered">>) = 1 /\ Len(<<"sent", "delivered">>) = 2
  OBVIOUS
<1>2. <<"sent">>[1] = "sent" /\ <<"failed">>[1] = "failed" /\ <<"bounced">>[1] = "bounced" /\ <<"delivered">>[1] = "delivered"
  OBVIOUS
<1>3. QED BY <1>1, <1>2

LEMMA Nobody ==
  Nothing \in JobStates /\ Nothing.msg = NoMessage /\ Nothing.sets = <<>> /\ Nothing.tell = "none"
BY DEF Nothing, JobStates, JobSets

(* A job of nothing, or one that only tells, has nothing to be true.       *)
LEMMA NothingIsTrue ==
  ASSUME NEW c \in Callers, job'[c] = Nothing
  PROVE  JobOK(c)'
<1>1. <<>> \notin {<<"sent">>, <<"delivered">>, <<"sent", "delivered">>, <<"failed">>, <<"bounced">>}
  BY SetsDiffer
<1>2. job'[c].sets = <<>> /\ job'[c].tell = "none"
  BY Nobody
<1>3. QED BY <1>1, <1>2, Zenon DEF JobOK

-----------------------------------------------------------------------------
(* The requests.                                                           *)

LEMMA RecordReadyStep ==
  ASSUME IInv, NEW r \in Requests, RecordReady(r)
  PROVE  IInv'
<1>0. PICK m : m = Head(request[r].left)
  OBVIOUS
<1>1. /\ request[r].pc = "record" /\ request[r].left # <<>>
      /\ request' = [request EXCEPT ![r].pc = "push"]
      /\ CreateTxMessage(m, "queued") \/ UNCHANGED <<log, recorded>>
      /\ UNCHANGED faults \/ Fault
      /\ UNCHANGED <<queue, sending, job, reported, pushed, told, moved, lost, untold, crashes>>
  BY <1>0 DEF RecordReady, history
<1>2. PICK new \in RequestStates :
        /\ request' = [request EXCEPT ![r] = new]
        /\ new.pc = "push" /\ new.left = request[r].left
  <2> DEFINE new == [request[r] EXCEPT !.pc = "push"]
  <2>1. request' = [request EXCEPT ![r] = new]
    BY <1>1 DEF IInv, Types
  <2>2. new \in RequestStates /\ new.pc = "push" /\ new.left = request[r].left
    BY DEF IInv, Types, RequestStates
  <2>3. QED BY <2>1, <2>2
<1>3. request[r].left \in Seq(Messages) /\ Len(request[r].left) \in Nat
  BY LenProperties DEF IInv, Types, RequestStates
<1>4. /\ request' \in [Requests -> RequestStates] /\ request'[r] = new
      /\ \A q \in Requests \ {r} : request'[q] = request[q]
      /\ Apart' /\ \A n \in Messages : Ahead(n)' => Ahead(n)
      /\ m \in Messages /\ Ahead(m)
  <2>1. /\ request' \in [Requests -> RequestStates] /\ request'[r] = new
        /\ \A q \in Requests \ {r} : request'[q] = request[q]
    BY <1>2 DEF IInv, Types
  <2>2. PICK d \in {0, 1} : d = 0
    OBVIOUS
  <2>3. GoesOn(r, d)
    BY <1>2, <1>3, <2>1, <2>2 DEF GoesOn
  <2>4. QED BY <1>0, <1>1, <2>1, <2>2, <2>3, RequestGoes
<1>5. /\ log' \in [Messages -> Statuses] /\ recorded' \in Seq(Messages)
      /\ \A n \in Messages \ {m} : log'[n] = log[n] /\ (Recorded(n)' <=> Recorded(n))
      /\ (log'[m] = "queued" /\ Recorded(m)') \/ (log'[m] = log[m] /\ (Recorded(m)' <=> Recorded(m)))
      /\ RowsStay
  <2>1. CASE CreateTxMessage(m, "queued")
    BY <1>4, <2>1, CreateTxMessageStep
  <2>2. CASE UNCHANGED <<log, recorded>>
    BY <2>2 DEF IInv, Types, Recorded, RowsStay
  <2>3. QED BY <1>1, <2>1, <2>2
<1>6. faults' \in 0..MaxFaults
  BY <1>1, FaultTypes DEF IInv
<1>7. Types'
  BY <1>1, <1>2, <1>4, <1>5, <1>6 DEF IInv, Types
<1>8. /\ QueueApart' /\ WorkersApart' /\ Forward
      /\ \A n \in Messages : OnePlace(n)'
  BY <1>1, <1>4, PlacesKept
<1>9. Unrecorded'
  <2> SUFFICES ASSUME NEW q \in Requests, NEW i \in 1..Len(request'[q].left),
                      request'[q].pc = "record" \/ i > 1
               PROVE  log'[request'[q].left[i]] = "none"
    BY DEF Unrecorded
  <2>1. /\ request'[q].left = request[q].left /\ request[q].left[i] \in Messages
        /\ request[q].pc = "record" \/ i > 1
        /\ ~(q = r /\ i = 1)
    BY <1>1, <1>2, <1>4, ElementOfSeq DEF IInv, Types, RequestStates
  <2>2. m = request[r].left[1] /\ 1 \in 1..Len(request[r].left)
    BY <1>0, <1>1, <1>3, EmptySeq, HeadTailProperties
  <2>3. request[q].left[i] # m
    BY <2>1, <2>2 DEF IInv, Apart
  <2>4. QED BY <1>5, <2>1, <2>3 DEF IInv, Unrecorded
<1>10. \A c \in Callers : JobOK(c)'
  BY <1>1, <1>5, <1>8, JobKept
<1>11. \A n \in Messages : LogOK(n)'
  <2>1. \A n \in Messages : log'[n] = log[n] /\ (Recorded(n)' <=> Recorded(n)) => LogOK(n)'
    BY <1>8, LogKept
  <2>2. log'[m] = "queued" /\ Recorded(m)' => LogOK(m)'
    BY DEF LogOK
  <2>3. QED BY <1>5, <2>1, <2>2
<1>12. QED BY <1>4, <1>7, <1>8, <1>9, <1>10, <1>11 DEF IInv

(* The head of what is left goes, and perhaps all of the rest.             *)
LEMMA RequestDrops ==
  ASSUME IInv, NEW r \in Requests, request[r].left # <<>>,
         NEW m, m = Head(request[r].left), NEW new \in RequestStates,
         request' = [request EXCEPT ![r] = new], new.pc = "record",
         new.left = Tail(request[r].left) \/ new.left = <<>>
  PROVE  /\ request' \in [Requests -> RequestStates]
         /\ \A q \in Requests : request'[q].pc = "push" => request'[q].left # <<>>
         /\ Apart' /\ \A n \in Messages : Ahead(n)' => Ahead(n)
         /\ m \in Messages /\ Ahead(m) /\ ~Ahead(m)'
         /\ \A q \in Requests : \A i \in 1..Len(request'[q].left) :
              /\ request'[q].left[i] \in Messages
              /\ request'[q].pc = "record" \/ i > 1 => log[request'[q].left[i]] = "none"
<1>1. request[r].left \in Seq(Messages) /\ Len(request[r].left) \in Nat \ {0}
  BY EmptySeq DEF IInv, Types, RequestStates
<1>2. /\ Len(new.left) <= Len(request[r].left) - 1 \/ new.left = <<>>
      /\ \A i \in 1..Len(new.left) : new.left[i] = request[r].left[i + 1] /\ i + 1 \in 1..Len(request[r].left)
  <2>1. CASE new.left = Tail(request[r].left)
    BY <1>1, <2>1, HeadTailProperties
  <2>2. CASE new.left = <<>>
    BY <2>2, EmptySeq
  <2>3. QED BY <2>1, <2>2
<1>3. /\ request' \in [Requests -> RequestStates] /\ request'[r] = new
      /\ \A q \in Requests \ {r} : request'[q] = request[q]
      /\ Apart' /\ \A n \in Messages : Ahead(n)' => Ahead(n)
      /\ m \in Messages /\ Ahead(m) /\ ~Ahead(m)'
  <2>1. /\ request' \in [Requests -> RequestStates] /\ request'[r] = new
        /\ \A q \in Requests \ {r} : request'[q] = request[q]
    BY DEF IInv, Types
  <2>2. PICK d \in {0, 1} : d = 1
    OBVIOUS
  <2>3. GoesOn(r, d)
    BY <1>2, <2>1, <2>2 DEF GoesOn
  <2>4. QED BY <2>1, <2>2, <2>3, RequestGoes
<1>4. ASSUME NEW q \in Requests, NEW i \in 1..Len(request'[q].left)
      PROVE  /\ request'[q].left[i] \in Messages /\ request'[q].left[i] # m
             /\ request'[q].pc = "record" \/ i > 1 => log[request'[q].left[i]] = "none"
  <2>1. request'[q].left[i] \in Messages
    BY <1>3, ElementOfSeq DEF RequestStates
  <2>2. request'[q].left[i] # m
    BY <1>3 DEF Ahead
  <2>3. CASE q = r
    BY <1>2, <1>3, <2>1, <2>2, <2>3 DEF IInv, Unrecorded
  <2>4. CASE q # r
    BY <1>3, <2>1, <2>2, <2>4 DEF IInv, Unrecorded
  <2>5. QED BY <2>3, <2>4
<1>5. \A q \in Requests : request'[q].pc = "push" => request'[q].left # <<>>
  BY <1>3 DEF IInv, Types
<1>6. QED BY <1>3, <1>4, <1>5

LEMMA RecordUnsendableStep ==
  ASSUME IInv, NEW r \in Requests, RecordUnsendable(r)
  PROVE  IInv'
<1>0. PICK m : m = Head(request[r].left)
  OBVIOUS
<1>1. /\ request[r].pc = "record" /\ request[r].left # <<>> /\ Free(r)
      /\ \/ /\ CreateTxMessage(m, "failed") /\ UNCHANGED faults
            /\ job' = [job EXCEPT ![r] = [msg |-> m, sets |-> <<>>, tell |-> "failed"]]
         \/ Fault /\ UNCHANGED <<log, recorded, job>>
      /\ UNCHANGED <<queue, sending, reported, pushed, told, lost, untold, crashes>>
  BY <1>0 DEF RecordUnsendable
<1>2. PICK new \in RequestStates :
        /\ request' = [request EXCEPT ![r] = new] /\ new.pc = "record"
        /\ new.left = Tail(request[r].left) \/ new.left = <<>>
  <2>1. PICK left \in {Tail(request[r].left), <<>>} : request' = [request EXCEPT ![r].left = left]
    BY DEF RecordUnsendable
  <2> DEFINE new == [request[r] EXCEPT !.left = left]
  <2>2. left \in Seq(Messages)
    <3>1. request[r].left \in Seq(Messages)
      BY DEF IInv, Types, RequestStates
    <3>2. CASE left = Tail(request[r].left)
      BY <1>1, <3>1, <3>2, HeadTailProperties
    <3>3. CASE left = <<>>
      BY <3>3, EmptySeq
    <3>4. QED BY <2>1, <3>2, <3>3
  <2>3. request' = [request EXCEPT ![r] = new]
    BY <2>1 DEF IInv, Types
  <2>4. new \in RequestStates /\ new.pc = "record" /\ new.left = left
    BY <1>1, <2>2 DEF IInv, Types, RequestStates
  <2>5. QED BY <2>3, <2>4
<1>3. /\ request' \in [Requests -> RequestStates]
      /\ \A q \in Requests : request'[q].pc = "push" => request'[q].left # <<>>
      /\ Apart' /\ \A n \in Messages : Ahead(n)' => Ahead(n)
      /\ m \in Messages /\ Ahead(m) /\ ~Ahead(m)'
      /\ \A q \in Requests : \A i \in 1..Len(request'[q].left) :
           /\ request'[q].left[i] \in Messages
           /\ request'[q].pc = "record" \/ i > 1 => log[request'[q].left[i]] = "none"
  BY <1>0, <1>1, <1>2, RequestDrops
<1>4. /\ QueueApart' /\ WorkersApart' /\ Forward
      /\ \A n \in Messages : OnePlace(n)'
  BY <1>1, <1>3, PlacesKept
<1>5. m \notin pushed' /\ ~InFlight(m)'
  <2>1. OnePlace(m)
    BY <1>3 DEF IInv
  <2>2. ~Waits(m) /\ ~OnItsWay(m) /\ m \notin pushed
    BY <1>3, <2>1 DEF OnePlace, InFlight
  <2>3. ~Waits(m)' /\ ~OnItsWay(m)'
    BY <1>1, <2>2 DEF Waits, OnItsWay
  <2>4. QED BY <1>1, <1>3, <2>2, <2>3 DEF InFlight
<1>6. r \in Callers
  BY DEF Callers
<1>7. /\ log' \in [Messages -> Statuses] /\ recorded' \in Seq(Messages)
      /\ \A n \in Messages \ {m} : log'[n] = log[n] /\ (Recorded(n)' <=> Recorded(n))
      /\ (log'[m] = "failed" /\ Recorded(m)') \/ (log'[m] = log[m] /\ (Recorded(m)' <=> Recorded(m)))
      /\ RowsStay
      /\ job' \in [Callers -> JobStates]
      /\ \A c \in Callers \ {r} : job'[c] = job[c]
      /\ (job'[r].sets = <<>> /\ job'[r].msg = m) \/ job'[r] = job[r]
  <2>1. CASE CreateTxMessage(m, "failed") /\ job' = [job EXCEPT ![r] = [msg |-> m, sets |-> <<>>, tell |-> "failed"]]
    <3>1. [msg |-> m, sets |-> <<>>, tell |-> "failed"] \in JobStates
      BY <1>3 DEF JobStates, JobSets, Told
    <3>2. QED BY <1>3, <1>6, <2>1, <3>1, CreateTxMessageStep DEF IInv, Types
  <2>2. CASE UNCHANGED <<log, recorded, job>>
    BY <2>2, <1>6 DEF IInv, Types, Recorded, RowsStay
  <2>3. QED BY <1>1, <2>1, <2>2
<1>8. faults' \in 0..MaxFaults
  BY <1>1, FaultTypes DEF IInv
<1>9. Types'
  BY <1>1, <1>3, <1>7, <1>8 DEF IInv, Types
<1>10. Unrecorded'
  <2> SUFFICES ASSUME NEW q \in Requests, NEW i \in 1..Len(request'[q].left),
                      request'[q].pc = "record" \/ i > 1
               PROVE  log'[request'[q].left[i]] = "none"
    BY DEF Unrecorded
  <2>1. request'[q].left[i] \in Messages /\ request'[q].left[i] # m
    BY <1>3 DEF Ahead
  <2>2. QED BY <1>3, <1>7, <2>1
<1>11. \A c \in Callers : JobOK(c)'
  <2>1. \A c \in Callers : job'[c] = job[c] => JobOK(c)'
    BY <1>4, <1>7, JobKept
  <2>2. job'[r].sets = <<>> /\ job'[r].msg = m => JobOK(r)'
    BY <1>3 DEF JobOK
  <2>3. QED BY <1>7, <2>1, <2>2
<1>12. \A n \in Messages : LogOK(n)'
  <2>1. \A n \in Messages : log'[n] = log[n] /\ (Recorded(n)' <=> Recorded(n)) => LogOK(n)'
    BY <1>4, LogKept
  <2>2. log'[m] = "failed" /\ Recorded(m)' => LogOK(m)'
    BY <1>5 DEF LogOK
  <2>3. QED BY <1>7, <2>1, <2>2
<1>13. QED BY <1>3, <1>4, <1>9, <1>10, <1>11, <1>12 DEF IInv

LEMMA LookUpFailsStep ==
  ASSUME IInv, NEW r \in Requests, LookUpFails(r)
  PROVE  IInv'
<1>0. PICK m : m = Head(request[r].left)
  OBVIOUS
<1>1. /\ request[r].pc = "record" /\ request[r].left # <<>> /\ Fault
      /\ request' = [request EXCEPT ![r].left = <<>>]
      /\ UNCHANGED <<log, recorded, queue, sending, job, reported, pushed, told, lost, untold, crashes>>
  BY DEF LookUpFails, history
<1>2. PICK new \in RequestStates :
        request' = [request EXCEPT ![r] = new] /\ new.left = <<>> /\ new.pc = "record"
  <2> DEFINE new == [request[r] EXCEPT !.left = <<>>]
  <2>1. request' = [request EXCEPT ![r] = new]
    BY <1>1 DEF IInv, Types
  <2>2. new \in RequestStates /\ new.pc = "record" /\ new.left = <<>>
    BY <1>1, EmptySeq DEF IInv, Types, RequestStates
  <2>3. QED BY <2>1, <2>2
<1>3. /\ request' \in [Requests -> RequestStates]
      /\ \A q \in Requests : request'[q].pc = "push" => request'[q].left # <<>>
      /\ Apart' /\ \A n \in Messages : Ahead(n)' => Ahead(n)
      /\ \A q \in Requests : \A i \in 1..Len(request'[q].left) :
           request'[q].pc = "record" \/ i > 1 => log[request'[q].left[i]] = "none"
  BY <1>0, <1>1, <1>2, RequestDrops
<1>4. /\ QueueApart' /\ WorkersApart' /\ Forward
      /\ \A n \in Messages : OnePlace(n)'
  BY <1>1, <1>3, PlacesKept
<1>5. faults' \in 0..MaxFaults
  BY <1>1, FaultTypes DEF IInv
<1>6. Types'
  BY <1>1, <1>3, <1>5 DEF IInv, Types
<1>7. Unrecorded'
  BY <1>1, <1>3 DEF Unrecorded
<1>8. \A c \in Callers : JobOK(c)'
  BY <1>1, <1>4, JobKept DEF RowsStay
<1>9. \A n \in Messages : LogOK(n)'
  BY <1>1, <1>4, LogKept DEF Recorded
<1>10. QED BY <1>3, <1>4, <1>6, <1>7, <1>8, <1>9 DEF IInv

LEMMA PushMessageStep ==
  ASSUME IInv, NEW r \in Requests, PushMessage(r)
  PROVE  IInv'
<1>0. PICK m : m = Head(request[r].left)
  OBVIOUS
<1>1. /\ request[r].pc = "push" /\ Len(queue) < QueueCap /\ queue' = Append(queue, m)
      /\ request' = [request EXCEPT ![r] = [pc |-> "record", left |-> Tail(@.left)]]
      /\ UNCHANGED <<log, recorded, sending, job, reported, pushed, told, lost, untold, faults, crashes>>
  BY <1>0 DEF PushMessage, history
<1>2. request[r].left # <<>> /\ request[r].left \in Seq(Messages)
  BY <1>1 DEF IInv, Types, RequestStates
<1>3. PICK new \in RequestStates :
        request' = [request EXCEPT ![r] = new] /\ new.left = Tail(request[r].left) /\ new.pc = "record"
  <2> DEFINE new == [pc |-> "record", left |-> Tail(request[r].left)]
  <2>1. request' = [request EXCEPT ![r] = new]
    BY <1>1 DEF IInv, Types
  <2>2. new \in RequestStates /\ new.pc = "record" /\ new.left = Tail(request[r].left)
    BY <1>2, HeadTailProperties DEF RequestStates
  <2>3. QED BY <2>1, <2>2
<1>4. /\ request' \in [Requests -> RequestStates]
      /\ \A q \in Requests : request'[q].pc = "push" => request'[q].left # <<>>
      /\ Apart' /\ \A n \in Messages : Ahead(n)' => Ahead(n)
      /\ m \in Messages /\ Ahead(m) /\ ~Ahead(m)'
      /\ \A q \in Requests : \A i \in 1..Len(request'[q].left) :
           request'[q].pc = "record" \/ i > 1 => log[request'[q].left[i]] = "none"
  BY <1>0, <1>2, <1>3, RequestDrops
<1>5. /\ queue' \in Seq(Messages) /\ Len(queue') = Len(queue) + 1 /\ Len(queue) \in Nat
      /\ \A i \in 1..Len(queue) : queue'[i] = queue[i]
      /\ queue'[Len(queue) + 1] = m
  BY <1>1, <1>4, AppendProperties, LenProperties DEF IInv, Types
<1>6. /\ \A n \in Messages : Waits(n)' <=> Waits(n) \/ n = m
      /\ \A n \in Messages : OnItsWay(n)' <=> OnItsWay(n)
  BY <1>1, <1>5 DEF Waits, OnItsWay
<1>7. OnePlace(m) /\ ~Waits(m) /\ ~OnItsWay(m) /\ m \notin pushed
  BY <1>4 DEF IInv, OnePlace, InFlight
<1>8. Forward
  BY <1>1, <1>4, <1>6 DEF Forward, InFlight
<1>9. \A n \in Messages : OnePlace(n)'
  BY <1>1, <1>4, <1>6, <1>7 DEF IInv, OnePlace, InFlight
<1>10. QueueApart'
  <2> SUFFICES ASSUME NEW i \in 1..Len(queue'), NEW k \in 1..Len(queue'), queue'[i] = queue'[k]
               PROVE  i = k
    BY DEF QueueApart
  <2>1. \A j \in 1..Len(queue) : queue[j] # m
    BY <1>7 DEF Waits
  <2>2. QED BY <1>5, <2>1 DEF IInv, QueueApart
<1>11. WorkersApart' /\ Unrecorded'
  BY <1>1, <1>4 DEF IInv, WorkersApart, Unrecorded
<1>12. Types'
  BY TxLogAssumption, <1>1, <1>4, <1>5 DEF IInv, Types
<1>13. \A c \in Callers : JobOK(c)'
  BY <1>1, <1>8, JobKept DEF RowsStay
<1>14. \A n \in Messages : LogOK(n)'
  BY <1>1, <1>8, LogKept DEF Recorded
<1>15. QED BY <1>4, <1>9, <1>10, <1>11, <1>12, <1>13, <1>14 DEF IInv

(* RecordTxSendResult, by whoever gave the message up or had it taken.     *)
LEMMA SendResultIsTrue ==
  ASSUME IInv, NEW m \in Messages, NEW taken \in BOOLEAN,
         taken => m \in pushed', ~taken => m \notin pushed' /\ ~InFlight(m)',
         log' = log, NEW c \in Callers, job' = [job EXCEPT ![c] = SendResult(m, taken)]
  PROVE  job' \in [Callers -> JobStates] /\ JobOK(c)' /\ \A d \in Callers \ {c} : job'[d] = job[d]
<1> DEFINE j == SendResult(m, taken)
<1>1. CASE log[m] = "none"
  <2>1. j = Nothing
    BY <1>1 DEF SendResult
  <2>2. job' \in [Callers -> JobStates] /\ job'[c] = Nothing /\ \A d \in Callers \ {c} : job'[d] = job[d]
    BY <2>1, Nobody DEF IInv, Types
  <2>3. JobOK(c)'
    BY <2>2, NothingIsTrue
  <2>4. QED BY <2>2, <2>3
<1>2. CASE log[m] # "none"
  <2>1. PICK sets \in JobSets : sets = IF ~taken THEN <<"failed">>
                                 ELSE IF m \in Email THEN <<"sent", "delivered">> ELSE <<"sent">>
    BY DEF JobSets
  <2>2. j = [msg |-> m, sets |-> sets, tell |-> "none"]
    BY <1>2, <2>1 DEF SendResult
  <2>3. j \in JobStates /\ j.msg = m /\ j.sets = sets /\ j.tell = "none"
    BY <2>2 DEF JobStates
  <2>4. job' \in [Callers -> JobStates] /\ job'[c] = j /\ \A d \in Callers \ {c} : job'[d] = job[d]
    BY <2>3 DEF IInv, Types
  <2>5. job'[c].msg = m /\ job'[c].sets = sets /\ job'[c].tell = "none"
    BY <2>3, <2>4
  <2>6. CASE ~taken
    <3>1. sets = <<"failed">>
      BY <2>1, <2>6
    <3>2. QED BY <1>2, <2>4, <2>5, <2>6, <3>1 DEF JobOK
  <2>7. CASE taken /\ m \in Email
    <3>1. sets = <<"sent", "delivered">>
      BY <2>1, <2>7
    <3>2. sets # <<>> /\ sets # <<"failed">> /\ sets # <<"bounced">>
      BY <3>1, SetsDiffer
    <3>3. QED BY <1>2, <2>4, <2>5, <2>7, <3>2, Zenon DEF JobOK
  <2>8. CASE taken /\ m \notin Email
    <3>1. sets = <<"sent">>
      BY <2>1, <2>8
    <3>2. /\ sets # <<>> /\ sets # <<"failed">> /\ sets # <<"bounced">>
          /\ sets \notin {<<"delivered">>, <<"sent", "delivered">>}
      BY <3>1, SetsDiffer
    <3>3. QED BY <1>2, <2>4, <2>5, <2>8, <3>2, Zenon DEF JobOK
  <2>9. QED BY <2>6, <2>7, <2>8
<1>3. QED BY <1>1, <1>2

LEMMA PushTimesOutStep ==
  ASSUME IInv, NEW r \in Requests, PushTimesOut(r)
  PROVE  IInv'
<1>0. PICK m : m = Head(request[r].left)
  OBVIOUS
<1>1. /\ request[r].pc = "push"
      /\ job' = [job EXCEPT ![r] = SendResult(m, FALSE)]
      /\ request' = [request EXCEPT ![r] = [pc |-> "record", left |-> <<>>]]
      /\ UNCHANGED <<log, recorded, queue, sending, reported, pushed, told, lost, untold, faults, crashes>>
  BY <1>0 DEF PushTimesOut, history
<1>2. request[r].left # <<>>
  BY <1>1 DEF IInv, Types
<1>3. PICK new \in RequestStates :
        request' = [request EXCEPT ![r] = new] /\ new.left = <<>> /\ new.pc = "record"
  <2>1. [pc |-> "record", left |-> <<>>] \in RequestStates
    BY EmptySeq DEF RequestStates
  <2>2. QED BY <1>1, <2>1
<1>4. /\ request' \in [Requests -> RequestStates]
      /\ \A q \in Requests : request'[q].pc = "push" => request'[q].left # <<>>
      /\ Apart' /\ \A n \in Messages : Ahead(n)' => Ahead(n)
      /\ m \in Messages /\ Ahead(m) /\ ~Ahead(m)'
      /\ \A q \in Requests : \A i \in 1..Len(request'[q].left) :
           request'[q].pc = "record" \/ i > 1 => log[request'[q].left[i]] = "none"
  BY <1>0, <1>2, <1>3, RequestDrops
<1>5. /\ QueueApart' /\ WorkersApart' /\ Forward
      /\ \A n \in Messages : OnePlace(n)'
  BY <1>1, <1>4, PlacesKept
<1>6. m \notin pushed' /\ ~InFlight(m)'
  <2>1. ~Waits(m) /\ ~OnItsWay(m) /\ m \notin pushed
    BY <1>4 DEF IInv, OnePlace, InFlight
  <2>2. ~Waits(m)' /\ ~OnItsWay(m)'
    BY <1>1, <2>1 DEF Waits, OnItsWay
  <2>3. QED BY <1>1, <1>4, <2>1, <2>2 DEF InFlight
<1>7. r \in Callers
  BY DEF Callers
<1>8. job' \in [Callers -> JobStates] /\ JobOK(r)' /\ \A d \in Callers \ {r} : job'[d] = job[d]
  BY <1>1, <1>4, <1>6, <1>7, SendResultIsTrue
<1>9. Types'
  BY <1>1, <1>4, <1>8 DEF IInv, Types
<1>10. Unrecorded'
  BY <1>1, <1>4 DEF Unrecorded
<1>11. \A c \in Callers : JobOK(c)'
  BY <1>1, <1>5, <1>8, JobKept DEF RowsStay
<1>12. \A n \in Messages : LogOK(n)'
  BY <1>1, <1>5, LogKept DEF Recorded
<1>13. QED BY <1>4, <1>5, <1>9, <1>10, <1>11, <1>12 DEF IInv

-----------------------------------------------------------------------------
(* The workers.                                                            *)

LEMMA TakeStep ==
  ASSUME IInv, NEW w \in Workers, Take(w)
  PROVE  IInv'
<1>0. PICK m : m = Head(queue)
  OBVIOUS
<1>1. /\ sending[w] = NoMessage /\ queue # <<>>
      /\ sending' = [sending EXCEPT ![w] = m] /\ queue' = Tail(queue)
      /\ UNCHANGED <<log, recorded, request, job, reported, pushed, told, lost, untold, faults, crashes>>
  BY <1>0 DEF Take, history
<1>2. queue \in Seq(Messages) /\ Len(queue) \in Nat \ {0}
  BY <1>1, EmptySeq, LenProperties DEF IInv, Types
<1>3. /\ queue' \in Seq(Messages) /\ Len(queue') = Len(queue) - 1
      /\ \A i \in 1..Len(queue') : queue'[i] = queue[i + 1]
      /\ m \in Messages /\ m = queue[1]
  BY <1>0, <1>1, <1>2, HeadTailProperties
<1>4. /\ sending' \in [Workers -> Messages \cup {NoMessage}] /\ sending'[w] = m
      /\ \A v \in Workers \ {w} : sending'[v] = sending[v]
  BY <1>1, <1>3 DEF IInv, Types
<1>5. /\ \A n \in Messages : Waits(n)' => Waits(n) /\ n # m
      /\ Waits(m)
  <2>1. \A i \in 1..Len(queue') : i + 1 \in 1..Len(queue) /\ i + 1 # 1 /\ 1 \in 1..Len(queue)
    BY <1>2, <1>3
  <2>2. \A i \in 1..Len(queue') : queue[i + 1] # queue[1]
    BY <2>1 DEF IInv, QueueApart
  <2>3. Waits(m)
    BY <1>2, <1>3 DEF Waits
  <2>4. QED BY <1>3, <2>1, <2>2, <2>3 DEF Waits
<1>6. \A n \in Messages : (OnItsWay(n)' => OnItsWay(n) \/ n = m) /\ (Ahead(n)' <=> Ahead(n))
  BY <1>1, <1>4 DEF OnItsWay, Ahead
<1>7. ~Ahead(m) /\ ~OnItsWay(m) /\ m \notin pushed
  BY <1>3, <1>5 DEF IInv, OnePlace, InFlight
<1>8. Forward
  BY <1>1, <1>5, <1>6 DEF Forward, InFlight
<1>9. \A n \in Messages : OnePlace(n)'
  BY <1>1, <1>5, <1>6, <1>7 DEF IInv, OnePlace, InFlight
<1>10. QueueApart'
  <2> SUFFICES ASSUME NEW i \in 1..Len(queue'), NEW k \in 1..Len(queue'), queue'[i] = queue'[k]
               PROVE  i = k
    BY DEF QueueApart
  <2>1. i + 1 \in 1..Len(queue) /\ k + 1 \in 1..Len(queue) /\ queue[i + 1] = queue[k + 1]
    BY <1>2, <1>3
  <2>2. QED BY <2>1 DEF IInv, QueueApart
<1>11. WorkersApart'
  <2>1. \A v \in Workers : sending[v] # m
    BY <1>7 DEF OnItsWay
  <2>2. QED BY <1>4, <2>1 DEF IInv, WorkersApart
<1>12. Types'
  BY TxLogAssumption, <1>1, <1>2, <1>3, <1>4 DEF IInv, Types
<1>13. Apart' /\ Unrecorded'
  BY <1>1 DEF IInv, Apart, Unrecorded
<1>14. \A c \in Callers : JobOK(c)'
  BY <1>1, <1>8, JobKept DEF RowsStay
<1>15. \A n \in Messages : LogOK(n)'
  BY <1>1, <1>8, LogKept DEF Recorded
<1>16. QED BY <1>9, <1>10, <1>11, <1>12, <1>13, <1>14, <1>15 DEF IInv

LEMMA SendStep ==
  ASSUME IInv, NEW w \in Workers, Send(w)
  PROVE  IInv'
<1>0. PICK m : m = sending[w]
  OBVIOUS
<1>1. /\ m # NoMessage /\ sending' = [sending EXCEPT ![w] = NoMessage]
      /\ \/ /\ pushed' = pushed \cup {m} /\ job' = [job EXCEPT ![w] = SendResult(m, TRUE)]
            /\ UNCHANGED faults
         \/ Fault /\ job' = [job EXCEPT ![w] = SendResult(m, FALSE)] /\ UNCHANGED pushed
      /\ UNCHANGED <<log, recorded, queue, request, reported, told, lost, untold, crashes>>
  BY <1>0 DEF Send, history
<1>2. m \in Messages /\ OnItsWay(m)
  BY <1>0, <1>1 DEF IInv, Types, OnItsWay
<1>3. /\ sending' \in [Workers -> Messages \cup {NoMessage}] /\ sending'[w] = NoMessage
      /\ \A v \in Workers \ {w} : sending'[v] = sending[v]
  BY <1>1 DEF IInv, Types
<1>4. \A n \in Messages : (OnItsWay(n)' => OnItsWay(n)) /\ (Ahead(n)' <=> Ahead(n)) /\ (Waits(n)' <=> Waits(n))
  BY TxLogAssumption, <1>1, <1>3 DEF OnItsWay, Ahead, Waits
<1>5. ~InFlight(m)' /\ m \notin pushed
  <2>1. ~Ahead(m) /\ ~Waits(m) /\ m \notin pushed
    BY <1>2 DEF IInv, OnePlace, InFlight
  <2>2. ~OnItsWay(m)'
    BY <1>0, <1>1, <1>3 DEF OnItsWay, IInv, WorkersApart
  <2>3. QED BY <1>2, <1>4, <2>1, <2>2 DEF InFlight
<1>6. pushed' \subseteq pushed \cup {m} /\ pushed \subseteq pushed'
  BY <1>1
<1>7. Forward
  BY <1>2, <1>4, <1>6 DEF Forward, InFlight
<1>8. \A n \in Messages : OnePlace(n)'
  BY <1>4, <1>5, <1>6 DEF IInv, OnePlace, InFlight
<1>9. WorkersApart'
  BY <1>3 DEF IInv, WorkersApart
<1>10. w \in Callers
  BY DEF Callers
<1>11. job' \in [Callers -> JobStates] /\ JobOK(w)' /\ \A d \in Callers \ {w} : job'[d] = job[d]
  <2>1. CASE pushed' = pushed \cup {m} /\ job' = [job EXCEPT ![w] = SendResult(m, TRUE)]
    BY <1>1, <1>2, <1>10, <2>1, SendResultIsTrue
  <2>2. CASE job' = [job EXCEPT ![w] = SendResult(m, FALSE)] /\ UNCHANGED pushed
    BY <1>1, <1>2, <1>5, <1>10, <2>2, SendResultIsTrue
  <2>3. QED BY <1>1, <2>1, <2>2
<1>12. faults' \in 0..MaxFaults
  BY <1>1, FaultTypes DEF IInv
<1>13. Types'
  BY <1>1, <1>2, <1>3, <1>6, <1>11, <1>12 DEF IInv, Types
<1>14. Apart' /\ QueueApart' /\ Unrecorded'
  BY <1>1 DEF IInv, Apart, QueueApart, Unrecorded
<1>15. \A c \in Callers : JobOK(c)'
  BY <1>1, <1>7, <1>11, JobKept DEF RowsStay
<1>16. \A n \in Messages : LogOK(n)'
  BY <1>1, <1>7, LogKept DEF Recorded
<1>17. QED BY <1>8, <1>9, <1>13, <1>14, <1>15, <1>16 DEF IInv

-----------------------------------------------------------------------------
(* The records of what was found out.                                      *)

LEMMA SamePlaces ==
  ASSUME IInv, UNCHANGED <<queue, request, sending, pushed>>
  PROVE  /\ Forward /\ Apart' /\ QueueApart' /\ WorkersApart'
         /\ \A m \in Messages : OnePlace(m)'
<1>1. \A m \in Messages : (Ahead(m)' <=> Ahead(m)) /\ (Waits(m)' <=> Waits(m)) /\ (OnItsWay(m)' <=> OnItsWay(m))
  BY DEF Ahead, Waits, OnItsWay
<1>2. Forward
  BY <1>1 DEF Forward, InFlight
<1>3. \A m \in Messages : OnePlace(m)'
  BY <1>1 DEF IInv, OnePlace, InFlight
<1>4. QED BY <1>2, <1>3 DEF IInv, Apart, QueueApart, WorkersApart

LEMMA MarkTxBouncedStep ==
  ASSUME IInv, NEW b \in Bounces, MarkTxBounced(b)
  PROVE  IInv'
<1>1. /\ reported' = reported \cup {b}
      /\ UNCHANGED <<log, recorded, queue, request, sending, pushed, told, lost, untold, faults, crashes>>
  BY DEF MarkTxBounced, history
<1>2. b \in Callers
  BY DEF Callers
<1>3. /\ Forward /\ Apart' /\ QueueApart' /\ WorkersApart'
      /\ \A n \in Messages : OnePlace(n)'
  BY <1>1, SamePlaces
<1>4. /\ job' \in [Callers -> JobStates]
      /\ \A c \in Callers \ {b} : job'[c] = job[c]
      /\ job'[b] = job[b] \/ JobOK(b)'
  <2>1. \/ \E i \in DOMAIN recorded :
             job' = [job EXCEPT ![b] = [msg |-> recorded[i], sets |-> <<"bounced">>, tell |-> "none"]]
        \/ UNCHANGED job
    BY DEF MarkTxBounced
  <2>2. CASE UNCHANGED job
    BY <2>2 DEF IInv, Types
  <2>3. ASSUME NEW i \in DOMAIN recorded,
               job' = [job EXCEPT ![b] = [msg |-> recorded[i], sets |-> <<"bounced">>, tell |-> "none"]]
        PROVE  /\ job' \in [Callers -> JobStates]
               /\ \A c \in Callers \ {b} : job'[c] = job[c]
               /\ JobOK(b)'
    <3>1. recorded \in Seq(Messages) /\ i \in 1..Len(recorded)
      BY LenProperties DEF IInv, Types
    <3>2. PICK n \in Messages : n = recorded[i]
      BY <3>1, ElementOfSeq
    <3>3. Recorded(n) /\ log[n] # "none"
      BY <3>1, <3>2 DEF Recorded, IInv, LogOK
    <3>4. PICK j \in JobStates : j = [msg |-> n, sets |-> <<"bounced">>, tell |-> "none"]
      BY DEF JobStates, JobSets
    <3>5. /\ job' \in [Callers -> JobStates] /\ job'[b] = j
          /\ \A c \in Callers \ {b} : job'[c] = job[c]
      BY <1>2, <2>3, <3>2, <3>4 DEF IInv, Types
    <3>6. job'[b].msg = n /\ job'[b].sets = <<"bounced">> /\ job'[b].tell = "none"
      BY <3>4, <3>5
    <3>7. <<"bounced">> # <<"failed">>  /\ <<"bounced">> \notin {<<"sent">>, <<"delivered">>, <<"sent", "delivered">>}
      BY SetsDiffer
    <3>8. JobOK(b)'
      BY <1>1, <3>3, <3>6, <3>7, Zenon DEF JobOK
    <3>9. QED BY <3>5, <3>8
  <2>4. QED BY <2>1, <2>2, <2>3
<1>5. Types'
  BY <1>1, <1>4 DEF IInv, Types
<1>6. Unrecorded'
  BY <1>1 DEF IInv, Unrecorded
<1>7. \A c \in Callers : JobOK(c)'
  <2>1. \A c \in Callers : job'[c] = job[c] => JobOK(c)'
    BY <1>1, <1>3, JobKept DEF RowsStay
  <2>2. QED BY <1>4, <2>1
<1>8. \A n \in Messages : LogOK(n)'
  BY <1>1, <1>3, LogKept DEF Recorded
<1>9. QED BY <1>3, <1>5, <1>6, <1>7, <1>8 DEF IInv

(* The statuses of a job, one by one.                                      *)
LEMMA OneByOne ==
  ASSUME NEW sets \in JobSets, sets # <<>>
  PROVE  /\ Head(sets) \in Told /\ Tail(sets) \in {<<>>, <<"delivered">>}
         /\ Head(sets) = "sent" => sets \in {<<"sent">>, <<"sent", "delivered">>}
         /\ Head(sets) = "delivered" => sets = <<"delivered">>
         /\ Head(sets) = "failed" => sets = <<"failed">>
         /\ Head(sets) = "bounced" => sets = <<"bounced">>
         /\ Tail(sets) = <<"delivered">> => sets = <<"sent", "delivered">>
<1> DEFINE one(x) == Head(<<x>>) = x /\ Tail(<<x>>) = <<>>
<1>1. one("failed") /\ one("bounced") /\ one("sent") /\ one("delivered")
  OBVIOUS
<1>2. Head(<<"sent", "delivered">>) = "sent" /\ Tail(<<"sent", "delivered">>) = <<"delivered">>
  OBVIOUS
<1>3. <<>> # <<"delivered">>
  BY SetsDiffer
<1>4. CASE sets = <<"sent", "delivered">>
  BY <1>2, <1>4 DEF Told
<1>5. CASE sets = <<"sent">>
  BY <1>1, <1>3, <1>5 DEF Told
<1>6. CASE sets = <<"delivered">>
  BY <1>1, <1>3, <1>6 DEF Told
<1>7. CASE sets = <<"failed">>
  BY <1>1, <1>3, <1>7 DEF Told
<1>8. CASE sets = <<"bounced">>
  BY <1>1, <1>3, <1>8 DEF Told
<1>9. QED BY <1>4, <1>5, <1>6, <1>7, <1>8 DEF JobSets

LEMMA DoneStep ==
  ASSUME IInv, NEW c \in Callers, job[c].sets # <<>>, NEW tell \in Told \cup {"none"}, Done(c, tell)
  PROVE  /\ job' \in [Callers -> JobStates]
         /\ \A d \in Callers \ {c} : job'[d] = job[d]
         /\ job'[c].sets = Tail(job[c].sets) /\ job'[c].tell = tell
         /\ job'[c].sets # <<>> \/ job'[c].tell # "none" => job'[c].msg = job[c].msg
<1>0. PICK left : left = Tail(job[c].sets)
  OBVIOUS
<1>1. job[c] \in JobStates /\ left \in JobSets
  <2>1. job[c] \in JobStates /\ job[c].sets \in JobSets
    BY DEF IInv, Types, JobStates
  <2>2. left \in {<<>>, <<"delivered">>}
    BY <1>0, <2>1, OneByOne
  <2>3. QED BY <2>1, <2>2 DEF JobSets
<1>2. PICK j \in JobStates : j = [job[c] EXCEPT !.sets = left, !.tell = tell]
  BY <1>1 DEF JobStates
<1>3. j.sets = left /\ j.tell = tell /\ j.msg = job[c].msg
  BY <1>1, <1>2 DEF JobStates
<1>4. job' = [job EXCEPT ![c] = IF left = <<>> /\ tell = "none" THEN Nothing ELSE j]
  BY <1>0, <1>2 DEF Done, IInv, Types
<1>5. CASE left = <<>> /\ tell = "none"
  <2>1. job' = [job EXCEPT ![c] = Nothing]
    BY <1>4, <1>5
  <2>2. /\ job' \in [Callers -> JobStates] /\ job'[c] = Nothing
        /\ \A d \in Callers \ {c} : job'[d] = job[d]
    BY <2>1, Nobody DEF IInv, Types
  <2>3. QED BY <1>0, <1>5, <2>2, Nobody
<1>6. CASE ~(left = <<>> /\ tell = "none")
  <2>1. job' = [job EXCEPT ![c] = j]
    BY <1>4, <1>6
  <2>2. /\ job' \in [Callers -> JobStates] /\ job'[c] = j
        /\ \A d \in Callers \ {c} : job'[d] = job[d]
    BY <2>1 DEF IInv, Types
  <2>3. QED BY <1>0, <1>3, <2>2
<1>7. QED BY <1>5, <1>6

LEMMA SetTxMessageStatusStep ==
  ASSUME IInv, NEW c \in Callers, SetTxMessageStatus(c)
  PROVE  IInv'
<1>0. PICK m, s, sets : m = job[c].msg /\ s = Head(job[c].sets) /\ sets = job[c].sets
  OBVIOUS
<1>1. /\ sets # <<>>
      /\ \/ Stays(m, s) /\ UNCHANGED <<log, faults, lost>> /\ Done(c, "none")
         \/ ~Stays(m, s) /\ log' = [log EXCEPT ![m] = s] /\ Done(c, s) /\ UNCHANGED <<faults, lost>>
         \/ Fault /\ Done(c, "none") /\ lost' = lost \cup {m} /\ UNCHANGED log
      /\ UNCHANGED <<recorded, queue, request, sending, reported, pushed, told, untold, crashes>>
  BY <1>0 DEF SetTxMessageStatus
<1>2. sets \in JobSets /\ JobOK(c)
  BY <1>0 DEF IInv, Types, JobStates
<1>3. /\ s \in Told /\ Tail(sets) \in {<<>>, <<"delivered">>}
      /\ s = "sent" => sets \in {<<"sent">>, <<"sent", "delivered">>}
      /\ s = "delivered" => sets = <<"delivered">>
      /\ s = "failed" => sets = <<"failed">>
      /\ s = "bounced" => sets = <<"bounced">>
      /\ Tail(sets) = <<"delivered">> => sets = <<"sent", "delivered">>
  BY <1>0, <1>1, <1>2, OneByOne
<1>4. m \in Messages /\ log[m] # "none"
  BY <1>0, <1>1, <1>2 DEF JobOK
<1>5. /\ Forward /\ Apart' /\ QueueApart' /\ WorkersApart'
      /\ \A n \in Messages : OnePlace(n)'
  BY <1>1, SamePlaces
<1>6. PICK tell \in Told \cup {"none"} : Done(c, tell)
  BY <1>1, <1>3
<1>7. /\ job' \in [Callers -> JobStates]
      /\ \A d \in Callers \ {c} : job'[d] = job[d]
      /\ job'[c].sets = Tail(sets) /\ job'[c].tell = tell
      /\ job'[c].sets # <<>> \/ job'[c].tell # "none" => job'[c].msg = m
  BY <1>0, <1>1, <1>6, DoneStep
<1>8. /\ log' \in [Messages -> Statuses]
      /\ \A n \in Messages \ {m} : log'[n] = log[n]
      /\ log'[m] = s \/ log'[m] = log[m]
      /\ RowsStay
  <2>1. s \in Statuses /\ s # "none"
    BY <1>3 DEF Statuses, Told
  <2>2. log \in [Messages -> Statuses]
    BY DEF IInv, Types
  <2>3. CASE log' = [log EXCEPT ![m] = s]
    BY <1>4, <2>1, <2>2, <2>3 DEF RowsStay
  <2>4. CASE UNCHANGED log
    BY <2>2, <2>4 DEF RowsStay
  <2>5. QED BY <1>1, <2>3, <2>4
<1>9. faults' \in 0..MaxFaults /\ lost' \subseteq Messages
  <2>1. UNCHANGED faults \/ Fault
    BY <1>1
  <2>2. faults' \in 0..MaxFaults
    BY <2>1, FaultTypes DEF IInv
  <2>3. QED BY <1>1, <1>4, <2>2 DEF IInv, Types
<1>10. Types'
  BY <1>1, <1>7, <1>8, <1>9 DEF IInv, Types
<1>11. Unrecorded'
  <2> SUFFICES ASSUME NEW q \in Requests, NEW i \in 1..Len(request[q].left),
                      request[q].pc = "record" \/ i > 1
               PROVE  log'[request[q].left[i]] = "none"
    BY <1>1 DEF Unrecorded
  <2>1. request[q].left[i] \in Messages
    BY ElementOfSeq DEF IInv, Types, RequestStates
  <2>2. log[request[q].left[i]] = "none"
    BY DEF IInv, Unrecorded
  <2>3. QED BY <1>4, <1>8, <2>1, <2>2
<1>12. JobOK(c)'
  <2>1. m \in Messages /\ log'[m] # "none"
    BY <1>4, <1>8 DEF RowsStay
  <2>2. Tail(sets) = <<"delivered">> => m \in pushed' /\ m \in Email
    BY <1>0, <1>1, <1>2, <1>3 DEF JobOK
  <2>3. <<"delivered">> # <<"failed">> /\ <<"delivered">> # <<"bounced">>
    BY SetsDiffer
  <2>4. CASE Tail(sets) = <<>>
    <3>1. job'[c].sets = <<>>
      BY <1>7, <2>4
    <3>2. <<>> \notin {<<"sent">>, <<"delivered">>, <<"sent", "delivered">>, <<"failed">>, <<"bounced">>}
      BY SetsDiffer
    <3>3. QED BY <1>7, <2>1, <3>1, <3>2, Zenon DEF JobOK
  <2>5. CASE Tail(sets) = <<"delivered">>
    <3>1. job'[c].sets = <<"delivered">>
      BY <1>7, <2>5
    <3>2. <<"delivered">> # <<>>
      BY SetsDiffer
    <3>3. job'[c].msg = m
      BY <1>7, <3>1, <3>2
    <3>4. QED BY <2>1, <2>2, <2>3, <2>5, <3>1, <3>3, Zenon DEF JobOK
  <2>6. QED BY <1>3, <2>4, <2>5
<1>13. \A d \in Callers : JobOK(d)'
  <2>1. \A d \in Callers : job'[d] = job[d] => JobOK(d)'
    BY <1>5, <1>8, JobKept
  <2>2. QED BY <1>7, <1>12, <2>1
<1>14. \A n \in Messages : Recorded(n)' <=> Recorded(n)
  BY <1>1 DEF Recorded
<1>15. \A n \in Messages : LogOK(n)'
  <2>1. \A n \in Messages : log'[n] = log[n] => LogOK(n)'
    BY <1>5, <1>14, LogKept
  <2>2. ASSUME log'[m] = s PROVE LogOK(m)'
    <3>1. Recorded(m)' /\ log'[m] # "none"
      BY <1>3, <1>4, <1>14, <2>2 DEF IInv, LogOK, Told
    <3>2. s \in {"sent", "delivered"} => m \in pushed'
      BY <1>0, <1>1, <1>2, <1>3 DEF JobOK
    <3>3. s = "delivered" => m \in Email
      BY <1>0, <1>2, <1>3 DEF JobOK
    <3>4. s = "failed" => m \notin pushed' /\ ~InFlight(m)'
      BY <1>0, <1>1, <1>2, <1>3, <1>4, <1>5 DEF JobOK, Forward
    <3>5. QED BY <2>2, <3>1, <3>2, <3>3, <3>4 DEF LogOK
  <2>3. QED BY <1>8, <2>1, <2>2
<1>16. QED BY <1>5, <1>10, <1>11, <1>13, <1>15 DEF IInv

LEMMA EnqueueTxWebhookStep ==
  ASSUME IInv, NEW c \in Callers, EnqueueTxWebhook(c)
  PROVE  IInv'
<1>0. PICK m : m = job[c].msg
  OBVIOUS
<1>1. /\ job[c].tell # "none"
      /\ \/ told' = [told EXCEPT ![m][job[c].tell] = @ + 1] /\ UNCHANGED <<untold, faults>>
         \/ Fault /\ untold' = untold \cup {m} /\ UNCHANGED told
      /\ job' = [job EXCEPT ![c] = IF job[c].sets = <<>> THEN Nothing ELSE [job[c] EXCEPT !.tell = "none"]]
      /\ UNCHANGED <<log, recorded, queue, request, sending, reported, pushed, lost, crashes>>
  BY <1>0 DEF EnqueueTxWebhook, IInv, Types
<1>2. job[c] \in JobStates /\ JobOK(c)
  BY DEF IInv, Types
<1>3. m \in Messages /\ job[c].tell \in Told
  BY <1>0, <1>1, <1>2 DEF JobOK, JobStates
<1>4. /\ Forward /\ Apart' /\ QueueApart' /\ WorkersApart'
      /\ \A n \in Messages : OnePlace(n)'
  BY <1>1, SamePlaces
<1>5. told' \in [Messages -> [Told -> Nat]] /\ untold' \subseteq Messages
  <2>1. PICK s \in Told : s = job[c].tell
    BY <1>3
  <2>2. told \in [Messages -> [Told -> Nat]] /\ untold \subseteq Messages
    BY DEF IInv, Types
  <2>3. CASE told' = [told EXCEPT ![m][s] = @ + 1] /\ UNCHANGED untold
    BY <1>3, <2>2, <2>3, CountUp
  <2>4. CASE UNCHANGED told /\ untold' = untold \cup {m}
    BY <1>3, <2>2, <2>4
  <2>5. QED BY <1>1, <2>1, <2>3, <2>4
<1>6. UNCHANGED faults \/ Fault
  BY <1>1
<1>7. faults' \in 0..MaxFaults
  BY <1>6, FaultTypes DEF IInv
<1>8. PICK j \in JobStates : j = IF job[c].sets = <<>> THEN Nothing ELSE [job[c] EXCEPT !.tell = "none"]
  BY <1>2, Nobody DEF JobStates
<1>9. j.sets = job[c].sets /\ j.tell = "none" /\ (j.sets # <<>> => j.msg = m)
  BY <1>0, <1>2, <1>8, Nobody DEF JobStates
<1>10. /\ job' \in [Callers -> JobStates] /\ job'[c] = j
       /\ \A d \in Callers \ {c} : job'[d] = job[d]
  BY <1>1, <1>8 DEF IInv, Types
<1>11. Types'
  BY <1>1, <1>5, <1>7, <1>10 DEF IInv, Types
<1>12. Unrecorded'
  BY <1>1 DEF IInv, Unrecorded
<1>13. JobOK(c)'
  <2>1. CASE job[c].sets = <<>>
    <3>1. job'[c].sets = <<>> /\ job'[c].tell = "none"
      BY <1>9, <1>10, <2>1
    <3>2. <<>> \notin {<<"sent">>, <<"delivered">>, <<"sent", "delivered">>, <<"failed">>, <<"bounced">>}
      BY SetsDiffer
    <3>3. QED BY <3>1, <3>2, Zenon DEF JobOK
  <2>2. CASE job[c].sets # <<>>
    <3>1. job'[c].sets = job[c].sets /\ job'[c].tell = "none" /\ job'[c].msg = job[c].msg
      BY <1>0, <1>9, <1>10, <2>2
    <3>2. m \notin pushed /\ ~InFlight(m) => m \notin pushed' /\ ~InFlight(m)'
      BY <1>3, <1>4 DEF Forward
    <3>3. QED BY <1>0, <1>1, <1>2, <3>1, <3>2 DEF JobOK
  <2>3. QED BY <2>1, <2>2
<1>14. \A d \in Callers : JobOK(d)'
  <2>1. \A d \in Callers : job'[d] = job[d] => JobOK(d)'
    BY <1>1, <1>4, JobKept DEF RowsStay
  <2>2. QED BY <1>10, <1>13, <2>1
<1>15. \A n \in Messages : LogOK(n)'
  BY <1>1, <1>4, LogKept DEF Recorded
<1>16. QED BY <1>4, <1>11, <1>12, <1>14, <1>15 DEF IInv

LEMMA CrashStep ==
  ASSUME IInv, Crash
  PROVE  IInv'
<1>1. /\ crashes < MaxCrashes /\ crashes' = crashes + 1
      /\ queue' = <<>> /\ sending' = [w \in Workers |-> NoMessage]
      /\ request' = [r \in Requests |-> [pc |-> "record", left |-> <<>>]]
      /\ job' = [c \in Callers |-> Nothing]
      /\ lost' = lost \cup (Unfinished \ {NoMessage})
      /\ untold' = untold \cup {job[c].msg : c \in {d \in Callers : job[d].tell # "none"}}
      /\ UNCHANGED <<log, recorded, reported, pushed, told, faults>>
  BY DEF Crash
<1>2. Unfinished \subseteq Messages \cup {NoMessage}
  <2>1. ToSet(queue) \subseteq Messages
    <3>1. queue \in Seq(Messages)
      BY DEF IInv, Types
    <3>2. \A i \in DOMAIN queue : queue[i] \in Messages
      BY <3>1
    <3>3. QED BY <3>2 DEF ToSet
  <2>2. \A w \in Workers : sending[w] \in Messages \cup {NoMessage}
    BY DEF IInv, Types
  <2>3. \A r \in Requests : request[r].pc = "push" => Head(request[r].left) \in Messages
    BY HeadTailProperties DEF IInv, Types, RequestStates
  <2>4. \A c \in Callers : job[c].msg \in Messages \cup {NoMessage}
    BY DEF IInv, Types, JobStates
  <2>5. QED BY <2>1, <2>2, <2>3, <2>4 DEF Unfinished
<1>3. \A c \in Callers : job[c].tell # "none" => job[c].msg \in Messages
  BY DEF IInv, JobOK
<1>4. lost' \subseteq Messages /\ untold' \subseteq Messages
  BY <1>1, <1>2, <1>3 DEF IInv, Types
<1>5. /\ [pc |-> "record", left |-> <<>>] \in RequestStates
      /\ queue' \in Seq(Messages) /\ Len(queue') = 0
  BY <1>1, EmptySeq DEF RequestStates
<1>6. \A r \in Requests : request'[r].pc = "record" /\ request'[r].left = <<>> /\ Len(request'[r].left) = 0
  BY <1>1, EmptySeq
<1>7. crashes' \in 0..MaxCrashes
  BY <1>1, TxLogAssumption DEF IInv, Types
<1>8. Types'
  <2>1. /\ request' \in [Requests -> RequestStates] /\ sending' \in [Workers -> Messages \cup {NoMessage}]
        /\ job' \in [Callers -> JobStates] /\ Len(queue') <= QueueCap
    BY <1>1, <1>5, Nobody, TxLogAssumption
  <2>2. QED BY <1>1, <1>4, <1>5, <1>6, <1>7, <2>1 DEF IInv, Types
<1>9. \A m \in Messages : ~Ahead(m)' /\ ~Waits(m)' /\ ~OnItsWay(m)'
  BY <1>1, <1>5, <1>6, TxLogAssumption DEF Ahead, Waits, OnItsWay
<1>10. Forward /\ \A m \in Messages : OnePlace(m)'
  BY <1>1, <1>9 DEF Forward, InFlight, OnePlace
<1>11. Apart' /\ QueueApart' /\ WorkersApart' /\ Unrecorded'
  BY <1>1, <1>5, <1>6 DEF Apart, QueueApart, WorkersApart, Unrecorded
<1>12. \A c \in Callers : JobOK(c)'
  BY <1>1, NothingIsTrue
<1>13. \A n \in Messages : LogOK(n)'
  BY <1>1, <1>10, LogKept DEF Recorded
<1>14. QED BY <1>8, <1>10, <1>11, <1>12, <1>13 DEF IInv

-----------------------------------------------------------------------------
(* The specification.                                                      *)

LEMMA InitHolds ==
  ASSUME Init
  PROVE  IInv
<1>1. \A r \in Requests : MessagesOf[r] \in Seq(Messages)
  BY TxLogAssumption
<1>2. Types
  <2>1. [m \in Messages |-> "none"] \in [Messages -> Statuses]
    BY DEF Statuses
  <2>2. /\ <<>> \in Seq(Messages) /\ <<>> \in Seq(Told) /\ Len(<<>>) = 0
    BY EmptySeq
  <2>3. \A r \in Requests : [pc |-> "record", left |-> MessagesOf[r]] \in RequestStates
    BY <1>1 DEF RequestStates
  <2>4. request \in [Requests -> RequestStates] /\ \A r \in Requests : request[r].pc = "record"
    BY <2>3 DEF Init
  <2>5. job \in [Callers -> JobStates]
    BY Nobody DEF Init
  <2>6. QED BY <2>1, <2>2, <2>4, <2>5, TxLogAssumption DEF Init, Types
<1>3. \A r \in Requests : request[r].left = MessagesOf[r] /\ request[r].pc = "record"
  BY DEF Init
<1>4. Apart
  <2> SUFFICES ASSUME NEW r \in Requests, NEW q \in Requests,
                      NEW i \in 1..Len(request[r].left), NEW k \in 1..Len(request[q].left),
                      request[r].left[i] = request[q].left[k]
               PROVE  r = q /\ i = k
    BY DEF Apart
  <2>1. i \in DOMAIN MessagesOf[r] /\ k \in DOMAIN MessagesOf[q]
    BY <1>1, <1>3, LenProperties
  <2>2. QED BY <1>3, <2>1, TxLogAssumption
<1>5. QueueApart /\ WorkersApart /\ (\A m \in Messages : ~Waits(m) /\ ~OnItsWay(m) /\ ~Recorded(m))
  <2>1. Len(queue) = 0 /\ Len(recorded) = 0
    BY EmptySeq DEF Init
  <2>2. \A w \in Workers : sending[w] = NoMessage
    BY DEF Init
  <2>3. QED BY <2>1, <2>2, TxLogAssumption DEF QueueApart, WorkersApart, Waits, OnItsWay, Recorded
<1>6. Unrecorded
  <2> SUFFICES ASSUME NEW r \in Requests, NEW i \in 1..Len(request[r].left)
               PROVE  log[request[r].left[i]] = "none"
    BY DEF Unrecorded
  <2>1. request[r].left[i] \in Messages
    BY <1>1, <1>3, ElementOfSeq
  <2>2. QED BY <2>1 DEF Init
<1>7. \A m \in Messages : OnePlace(m) /\ LogOK(m)
  BY <1>5 DEF Init, OnePlace, LogOK
<1>8. \A c \in Callers : JobOK(c)
  <2>1. <<>> \notin {<<"sent">>, <<"delivered">>, <<"sent", "delivered">>, <<"failed">>, <<"bounced">>}
    BY SetsDiffer
  <2>2. \A c \in Callers : job[c].sets = <<>> /\ job[c].tell = "none"
    BY Nobody DEF Init
  <2>3. QED BY <2>1, <2>2, Zenon DEF JobOK
<1>9. QED BY <1>2, <1>4, <1>5, <1>6, <1>7, <1>8 DEF IInv

LEMMA NextKeeps ==
  ASSUME IInv, Next
  PROVE  IInv'
<1>1. ASSUME NEW r \in Requests, SendTx(r) PROVE IInv'
  BY <1>1, RecordReadyStep, RecordUnsendableStep, LookUpFailsStep, PushMessageStep, PushTimesOutStep DEF SendTx
<1>2. ASSUME NEW w \in Workers, Worker(w) PROVE IInv'
  BY <1>2, TakeStep, SendStep DEF Worker
<1>3. ASSUME NEW b \in Bounces, MarkTxBounced(b) PROVE IInv'
  BY <1>3, MarkTxBouncedStep
<1>4. ASSUME NEW c \in Callers, Record(c) PROVE IInv'
  BY <1>4, SetTxMessageStatusStep, EnqueueTxWebhookStep DEF Record
<1>5. QED BY <1>1, <1>2, <1>3, <1>4, CrashStep DEF Next

LEMMA StutterKeeps ==
  ASSUME IInv, UNCHANGED vars
  PROVE  IInv'
<1>1. /\ Forward /\ Apart' /\ QueueApart' /\ WorkersApart'
      /\ \A n \in Messages : OnePlace(n)'
  BY SamePlaces DEF vars
<1>2. Types' /\ Unrecorded'
  BY DEF vars, IInv, Types, Unrecorded
<1>3. \A c \in Callers : JobOK(c)'
  BY <1>1, JobKept DEF vars, RowsStay
<1>4. \A n \in Messages : LogOK(n)'
  BY <1>1, LogKept DEF vars, Recorded
<1>5. QED BY <1>1, <1>2, <1>3, <1>4 DEF IInv

(* The invariant holds in every state of the specification.                *)
THEOREM Invariance == Spec => []IInv
<1>1. Init => IInv
  BY InitHolds
<1>2. IInv /\ [Next]_vars => IInv'
  BY NextKeeps, StutterKeeps
<1>3. QED BY <1>1, <1>2, PTL DEF Spec

(* TypeOK: what the log, the queue and the jobs hold, a row for each       *)
(* message with a status and no other, the queue within its capacity.      *)
THEOREM TypeCorrect == Spec => []TypeOK
<1>1. ASSUME IInv PROVE TypeOK
  <2>1. Types
    BY <1>1 DEF IInv
  <2>2. \A m \in Messages : log[m] # "none" <=> m \in ToSet(recorded)
    <3>1. DOMAIN recorded = 1..Len(recorded)
      BY <2>1, LenProperties DEF Types
    <3>2. \A m \in Messages : m \in ToSet(recorded) <=> Recorded(m)
      BY <3>1 DEF ToSet, Recorded
    <3>3. QED BY <1>1, <3>2 DEF IInv, LogOK
  <2>3. ToSet(queue) \subseteq Messages
    <3>1. \A i \in DOMAIN queue : queue[i] \in Messages
      BY <2>1 DEF Types
    <3>2. QED BY <3>1 DEF ToSet
  <2>4. \A c \in Callers : /\ job[c].msg \in Messages \cup {NoMessage}
                           /\ job[c].tell \in Told \cup {"none"} /\ job[c].sets \in JobSets
    BY <2>1 DEF Types, JobStates
  <2>5. QED BY <2>1, <2>2, <2>3, <2>4 DEF Types, TypeOK, RequestStates, JobSets
<1>2. QED BY <1>1, Invariance, PTL

(* StatusIsTrue: whatever is lost, retried or reported late, the log shows *)
(* as sent only what a messenger took and as failed only what none did.    *)
THEOREM StatusTrue == Spec => []StatusIsTrue
<1>1. ASSUME IInv PROVE StatusIsTrue
  BY <1>1 DEF IInv, LogOK, StatusIsTrue
<1>2. QED BY <1>1, Invariance, PTL

Settled(m) == log[m] \in {"bounced", "failed"}

(* A message that is ahead has no row yet, so it is recorded only once.    *)
LEMMA RecordedOnce ==
  ASSUME IInv, NEW r \in Requests, request[r].pc = "record", request[r].left # <<>>,
         NEW status \in {"queued", "failed"},
         CreateTxMessage(Head(request[r].left), status) \/ UNCHANGED log,
         NEW m \in Messages, Settled(m)
  PROVE  Settled(m)'
<1>1. request[r].left \in Seq(Messages) /\ 1 \in 1..Len(request[r].left)
  BY EmptySeq, LenProperties DEF IInv, Types, RequestStates
<1>2. Head(request[r].left) = request[r].left[1]
  BY <1>1, HeadTailProperties
<1>3. log[Head(request[r].left)] = "none"
  BY <1>1, <1>2 DEF IInv, Unrecorded
<1>4. m # Head(request[r].left)
  BY <1>3 DEF Settled
<1>5. log \in [Messages -> Statuses]
  BY DEF IInv, Types
<1>6. QED BY <1>4, <1>5 DEF CreateTxMessage, Settled

(* NotMovedBack: a result recorded late leaves a bounce or a failure.      *)
THEOREM BounceIsFinal == Spec => NotMovedBack
<1>1. ASSUME IInv, Next, NEW m \in Messages, Settled(m)
      PROVE  Settled(m)'
  <2>1. ASSUME NEW r \in Requests, SendTx(r) PROVE Settled(m)'
    <3>1. CASE RecordReady(r)
      BY <1>1, <3>1, RecordedOnce DEF RecordReady
    <3>2. CASE RecordUnsendable(r)
      BY <1>1, <3>2, RecordedOnce DEF RecordUnsendable
    <3>3. CASE LookUpFails(r) \/ PushMessage(r) \/ PushTimesOut(r)
      BY <1>1, <3>3 DEF LookUpFails, PushMessage, PushTimesOut, Settled
    <3>4. QED BY <2>1, <3>1, <3>2, <3>3 DEF SendTx
  <2>2. ASSUME NEW w \in Workers, Worker(w) PROVE Settled(m)'
    BY <1>1, <2>2 DEF Worker, Take, Send, Settled
  <2>3. ASSUME NEW b \in Bounces, MarkTxBounced(b) PROVE Settled(m)'
    BY <1>1, <2>3 DEF MarkTxBounced, Settled
  <2>4. ASSUME NEW c \in Callers, Record(c) PROVE Settled(m)'
    <3>1. CASE SetTxMessageStatus(c)
      <4>1. PICK n, s : n = job[c].msg /\ s = Head(job[c].sets)
        OBVIOUS
      <4>2. job[c].sets \in JobSets /\ job[c].sets # <<>>
        BY <1>1, <3>1 DEF SetTxMessageStatus, IInv, Types, JobStates
      <4>3. s \in Told
        BY <4>1, <4>2, OneByOne
      <4>4. UNCHANGED log \/ (~Stays(n, s) /\ log' = [log EXCEPT ![n] = s])
        BY <3>1, <4>1 DEF SetTxMessageStatus
      <4>5. log \in [Messages -> Statuses]
        BY <1>1 DEF IInv, Types
      <4>6. CASE UNCHANGED log
        BY <1>1, <4>6 DEF Settled
      <4>7. CASE ~Stays(n, s) /\ log' = [log EXCEPT ![n] = s]
        BY <1>1, <4>3, <4>5, <4>7 DEF Settled, Stays, Told
      <4>8. QED BY <4>4, <4>6, <4>7
    <3>2. CASE EnqueueTxWebhook(c)
      BY <1>1, <3>2 DEF EnqueueTxWebhook, Settled
    <3>3. QED BY <2>4, <3>1, <3>2 DEF Record
  <2>5. CASE Crash
    BY <1>1, <2>5 DEF Crash, Settled
  <2>6. QED BY <1>1, <2>1, <2>2, <2>3, <2>4, <2>5 DEF Next
<1>2. IInv /\ [Next]_vars =>
        [\A m \in Messages : log[m] \in {"bounced", "failed"} => log'[m] \in {"bounced", "failed"}]_vars
  BY <1>1 DEF Settled
<1>3. QED BY <1>2, Invariance, PTL DEF Spec, NotMovedBack

-----------------------------------------------------------------------------
(* What endpoints are told.  A caller that has a webhook to queue is one   *)
(* of finitely many, whatever the number of requests; and a caller that is *)
(* about to be given a job has none.                                       *)

About(m, s) == {c \in Callers : job[c].msg = m /\ job[c].tell = s}
Telling == {c \in Callers : job[c].tell # "none"}

Idle ==
  /\ \A r \in Requests : request[r].pc = "push" => Free(r)
  /\ \A w \in Workers : sending[w] # NoMessage => Free(w)
  /\ \A b \in Bounces \ reported : Free(b)

Tally(m, s) ==
  /\ told[m][s] + Cardinality(About(m, s)) <= moved[m][s]
  /\ m \notin untold => told[m][s] + Cardinality(About(m, s)) = moved[m][s]

TellInv ==
  /\ Idle
  /\ moved \in [Messages -> [Told -> Nat]]
  /\ IsFiniteSet(Telling)
  /\ \A m \in Messages, s \in Told : Tally(m, s)

LEMMA NoneIsNotTold == "none" \notin Told
BY DEF Told

LEMMA AboutFinite ==
  ASSUME IsFiniteSet(Telling), NEW m, NEW s \in Told
  PROVE  IsFiniteSet(About(m, s)) /\ Cardinality(About(m, s)) \in Nat
<1>1. About(m, s) \subseteq Telling
  BY NoneIsNotTold DEF About, Telling
<1>2. QED BY <1>1, FS_Subset, FS_CardinalityType

(* No one starts or ends telling, and the counts are left.                 *)
SameTelling ==
  /\ \A c \in Callers : job'[c].tell = job[c].tell /\ (job[c].tell # "none" => job'[c].msg = job[c].msg)
  /\ UNCHANGED <<told, moved, untold>>

LEMMA TalliesKept ==
  ASSUME TellInv, SameTelling
  PROVE  /\ moved' \in [Messages -> [Told -> Nat]] /\ IsFiniteSet(Telling')
         /\ \A m \in Messages, s \in Told : Tally(m, s)'
<1>1. Telling' = Telling
  BY DEF SameTelling, Telling
<1>2. ASSUME NEW m \in Messages, NEW s \in Told PROVE About(m, s)' = About(m, s)
  BY NoneIsNotTold DEF SameTelling, About
<1>3. QED BY <1>1, <1>2 DEF TellInv, Tally, SameTelling

(* The arithmetic of a count, a sum and one more.                          *)
LEMMA OneMoreOf ==
  ASSUME NEW t \in Nat, NEW a \in Nat, NEW v \in Nat
  PROVE  /\ t + a <= v => t + (a + 1) <= v + 1
         /\ t + a = v => t + (a + 1) = v + 1
         /\ t + (a + 1) <= v => (t + 1) + a <= v /\ t + a <= v
         /\ t + (a + 1) = v => (t + 1) + a = v
OBVIOUS

(* A caller has set a status, and has it to tell.                          *)
LEMMA StartsToTell ==
  ASSUME TellInv, told \in [Messages -> [Told -> Nat]],
         NEW c \in Callers, job[c].tell = "none",
         \A d \in Callers \ {c} : job'[d] = job[d],
         NEW m \in Messages, NEW s \in Told, job'[c].msg = m, job'[c].tell = s,
         moved' = [moved EXCEPT ![m][s] = @ + 1], UNCHANGED <<told, untold>>
  PROVE  /\ moved' \in [Messages -> [Told -> Nat]] /\ IsFiniteSet(Telling')
         /\ \A n \in Messages, t \in Told : Tally(n, t)'
<1>1. /\ moved' \in [Messages -> [Told -> Nat]] /\ moved'[m][s] = moved[m][s] + 1
      /\ \A n \in Messages, t \in Told : n # m \/ t # s => moved'[n][t] = moved[n][t]
  BY CountUp DEF TellInv
<1>2. s # "none"
  BY NoneIsNotTold
<1>3. IsFiniteSet(Telling')
  <2>1. Telling' = Telling \cup {c}
    BY <1>2 DEF Telling
  <2>2. QED BY <2>1, FS_AddElement DEF TellInv
<1>4. ASSUME NEW n \in Messages, NEW t \in Told PROVE Tally(n, t)'
  <2>1. t # "none" /\ c \notin About(n, t)
    BY NoneIsNotTold DEF About
  <2>2. IsFiniteSet(About(n, t)) /\ Cardinality(About(n, t)) \in Nat
    BY AboutFinite DEF TellInv
  <2>3. Tally(n, t)
    BY DEF TellInv
  <2>4. CASE n = m /\ t = s
    <3>1. About(n, t)' = About(n, t) \cup {c}
      BY <2>4 DEF About
    <3>2. Cardinality(About(n, t)') = Cardinality(About(n, t)) + 1
      BY <2>1, <2>2, <3>1, FS_AddElement
    <3>3. told[n][t] \in Nat /\ moved[n][t] \in Nat /\ moved'[n][t] = moved[n][t] + 1
      BY <1>1, <2>4 DEF TellInv
    <3>4. QED BY <2>2, <2>3, <3>2, <3>3, OneMoreOf DEF Tally
  <2>5. CASE n # m \/ t # s
    <3>1. About(n, t)' = About(n, t)
      BY <2>1, <2>5 DEF About
    <3>2. QED BY <1>1, <2>3, <2>5, <3>1 DEF Tally
  <2>6. QED BY <2>4, <2>5
<1>5. QED BY <1>1, <1>3, <1>4

TellsOrLoses(m, s) ==
  \/ told' = [told EXCEPT ![m][s] = @ + 1] /\ UNCHANGED untold
  \/ untold' = untold \cup {m} /\ UNCHANGED told

(* The webhook of a caller is queued, or lost.                             *)
LEMMA StopsTelling ==
  ASSUME TellInv, told \in [Messages -> [Told -> Nat]],
         NEW c \in Callers, NEW m \in Messages, NEW s \in Told, job[c].msg = m, job[c].tell = s,
         \A d \in Callers \ {c} : job'[d] = job[d], job'[c].tell = "none",
         TellsOrLoses(m, s), UNCHANGED moved
  PROVE  /\ moved' \in [Messages -> [Told -> Nat]] /\ IsFiniteSet(Telling')
         /\ \A n \in Messages, t \in Told : Tally(n, t)'
<1>1. IsFiniteSet(Telling')
  <2>1. Telling' \subseteq Telling
    BY DEF Telling
  <2>2. QED BY <2>1, FS_Subset DEF TellInv
<1>2. s # "none"
  BY NoneIsNotTold
<1>3. \/ /\ told' \in [Messages -> [Told -> Nat]] /\ told'[m][s] = told[m][s] + 1
         /\ \A n \in Messages, t \in Told : n # m \/ t # s => told'[n][t] = told[n][t]
         /\ UNCHANGED untold
      \/ untold' = untold \cup {m} /\ UNCHANGED told
  BY CountUp DEF TellsOrLoses
<1>4. ASSUME NEW n \in Messages, NEW t \in Told PROVE Tally(n, t)'
  <2>1. t # "none" /\ c \notin About(n, t)'
    BY NoneIsNotTold DEF About
  <2>2. /\ IsFiniteSet(About(n, t)) /\ Cardinality(About(n, t)) \in Nat
        /\ IsFiniteSet(About(n, t)') /\ Cardinality(About(n, t)') \in Nat
    <3>1. IsFiniteSet(About(n, t)) /\ Cardinality(About(n, t)) \in Nat
      BY AboutFinite DEF TellInv
    <3>2. About(n, t)' \subseteq Telling'
      BY <2>1 DEF About, Telling
    <3>3. QED BY <1>1, <3>1, <3>2, FS_Subset, FS_CardinalityType
  <2>3. Tally(n, t)
    BY DEF TellInv
  <2>4. CASE n = m /\ t = s
    <3>1. About(n, t) = About(n, t)' \cup {c}
      BY <1>2, <2>4 DEF About
    <3>2. Cardinality(About(n, t)) = Cardinality(About(n, t)') + 1
      BY <2>1, <2>2, <3>1, FS_AddElement
    <3>3. told[n][t] \in Nat /\ moved[n][t] \in Nat
      BY DEF TellInv
    <3>4. CASE told'[m][s] = told[m][s] + 1 /\ UNCHANGED untold
      <4>1. PICK k \in Nat, a \in Nat, v \in Nat :
              /\ k = told[n][t] /\ a = Cardinality(About(n, t)') /\ v = moved[n][t]
              /\ k + (a + 1) <= v /\ (n \notin untold => k + (a + 1) = v)
        BY <2>2, <2>3, <3>2, <3>3 DEF Tally
      <4>2. (k + 1) + a <= v /\ (k + (a + 1) = v => (k + 1) + a = v)
        BY <4>1, OneMoreOf
      <4>3. told'[n][t] = k + 1 /\ moved'[n][t] = v /\ untold' = untold
        BY <2>4, <3>4, <4>1
      <4>4. QED BY <4>1, <4>2, <4>3 DEF Tally
    <3>5. CASE untold' = untold \cup {m} /\ UNCHANGED told
      BY <2>2, <2>3, <2>4, <3>2, <3>3, <3>5, OneMoreOf DEF Tally
    <3>6. QED BY <1>3, <3>4, <3>5
  <2>5. CASE n # m \/ t # s
    <3>1. About(n, t)' = About(n, t)
      BY <1>2, <2>1, <2>5 DEF About
    <3>2. QED BY <1>3, <2>3, <2>5, <3>1 DEF Tally
  <2>6. QED BY <2>4, <2>5
<1>5. QED BY <1>1, <1>4 DEF TellInv

(* Who is idle stays so, where neither the jobs nor the places of the      *)
(* messages change but at one caller.                                      *)
LEMMA TellNext ==
  ASSUME IInv, TellInv, Next
  PROVE  TellInv'
<1> USE DEF Free
<1>0. /\ Requests \cap Workers = {} /\ Bounces \cap (Requests \cup Workers) = {}
      /\ Callers = Requests \cup Workers \cup Bounces
  BY TxLogAssumption DEF Callers
<1>1. /\ told \in [Messages -> [Told -> Nat]] /\ job \in [Callers -> JobStates]
      /\ request \in [Requests -> RequestStates]
      /\ sending \in [Workers -> Messages \cup {NoMessage}]
      /\ Idle /\ moved \in [Messages -> [Told -> Nat]]
  BY DEF IInv, Types, TellInv
<1>2. ASSUME SameTelling, Idle' PROVE TellInv'
  BY <1>2, TalliesKept DEF TellInv
<1>3. ASSUME NEW r \in Requests, RecordReady(r) PROVE TellInv'
  <2>1. SameTelling
    BY <1>3 DEF RecordReady, SameTelling, history
  <2>2. Idle'
    BY <1>1, <1>3 DEF RecordReady, Idle, history, RequestStates
  <2>3. QED BY <1>2, <2>1, <2>2
<1>4. ASSUME NEW r \in Requests, RecordUnsendable(r) PROVE TellInv'
  <2>1. /\ Free(r) /\ request[r].pc = "record" /\ request[r].left # <<>>
        /\ \E left \in {Tail(request[r].left), <<>>} : request' = [request EXCEPT ![r].left = left]
        /\ \/ /\ job' = [job EXCEPT ![r] = [msg |-> Head(request[r].left), sets |-> <<>>, tell |-> "failed"]]
              /\ moved' = [moved EXCEPT ![Head(request[r].left)]["failed"] = @ + 1]
           \/ UNCHANGED <<job, moved>>
        /\ UNCHANGED <<sending, reported, told, untold>>
    BY <1>4 DEF RecordUnsendable
  <2>2. r \in Callers /\ job[r].tell = "none"
    BY <1>0, <2>1, Nobody
  <2>3. \A q \in Requests : request'[q].pc = request[q].pc
    BY <1>1, <2>1 DEF RequestStates
  <2>4. \A d \in Callers \ {r} : job'[d] = job[d]
    BY <1>1, <2>1, <2>2
  <2>5. Idle'
    BY <1>0, <1>1, <2>1, <2>3, <2>4 DEF Idle
  <2>6. CASE UNCHANGED <<job, moved>>
    BY <1>2, <2>1, <2>5, <2>6 DEF SameTelling
  <2>7. CASE /\ job' = [job EXCEPT ![r] = [msg |-> Head(request[r].left), sets |-> <<>>, tell |-> "failed"]]
             /\ moved' = [moved EXCEPT ![Head(request[r].left)]["failed"] = @ + 1]
    <3>1. Head(request[r].left) \in Messages
      BY <1>1, <2>1, HeadTailProperties DEF RequestStates
    <3>2. job'[r].msg = Head(request[r].left) /\ job'[r].tell = "failed" /\ "failed" \in Told
      BY <1>1, <2>2, <2>7 DEF Told
    <3>3. QED BY <1>1, <2>1, <2>2, <2>4, <2>5, <2>7, <3>1, <3>2, StartsToTell DEF TellInv
  <2>8. QED BY <2>1, <2>6, <2>7
<1>5. ASSUME NEW r \in Requests, LookUpFails(r) PROVE TellInv'
  <2>1. SameTelling /\ Idle'
    BY <1>1, <1>5 DEF LookUpFails, SameTelling, Idle, history, RequestStates
  <2>2. QED BY <1>2, <2>1
<1>6. ASSUME NEW r \in Requests, PushMessage(r) PROVE TellInv'
  <2>1. SameTelling /\ Idle'
    BY <1>1, <1>6 DEF PushMessage, SameTelling, Idle, history, RequestStates
  <2>2. QED BY <1>2, <2>1
<1>7. \A m, taken : SendResult(m, taken).tell = "none"
  BY Nobody DEF SendResult
<1>8. ASSUME NEW r \in Requests, PushTimesOut(r) PROVE TellInv'
  <2>1. PICK j : j.tell = "none" /\ job' = [job EXCEPT ![r] = j]
    BY <1>7, <1>8 DEF PushTimesOut
  <2>2. /\ r \in Callers /\ job[r].tell = "none" /\ request[r].pc = "push"
        /\ request' = [request EXCEPT ![r] = [pc |-> "record", left |-> <<>>]]
        /\ UNCHANGED <<sending, reported, told, moved, untold>>
    BY <1>0, <1>1, <1>8, Nobody DEF PushTimesOut, history, Idle
  <2>3. /\ job'[r].tell = "none" /\ \A d \in Callers \ {r} : job'[d] = job[d]
        /\ request'[r].pc = "record" /\ \A q \in Requests \ {r} : request'[q] = request[q]
    BY <1>1, <2>1, <2>2
  <2>4. SameTelling
    BY <2>2, <2>3 DEF SameTelling
  <2>5. Idle'
    BY <1>0, <1>1, <2>2, <2>3 DEF Idle
  <2>6. QED BY <1>2, <2>4, <2>5
<1>9. ASSUME NEW w \in Workers, Take(w) PROVE TellInv'
  <2>1. SameTelling /\ Idle'
    BY <1>1, <1>9 DEF Take, SameTelling, Idle, history
  <2>2. QED BY <1>2, <2>1
<1>10. ASSUME NEW w \in Workers, Send(w) PROVE TellInv'
  <2>1. PICK j : j.tell = "none" /\ job' = [job EXCEPT ![w] = j]
    BY <1>7, <1>10 DEF Send
  <2>2. /\ w \in Callers /\ job[w].tell = "none"
        /\ sending' = [sending EXCEPT ![w] = NoMessage]
        /\ UNCHANGED <<request, reported, told, moved, untold>>
    BY <1>0, <1>1, <1>10, Nobody DEF Send, history, Idle
  <2>3. /\ job'[w].tell = "none" /\ \A d \in Callers \ {w} : job'[d] = job[d]
        /\ sending'[w] = NoMessage /\ \A v \in Workers \ {w} : sending'[v] = sending[v]
    BY <1>1, <2>1, <2>2
  <2>4. SameTelling
    BY <2>2, <2>3 DEF SameTelling
  <2>5. Idle'
    BY <1>0, <1>1, <2>2, <2>3 DEF Idle
  <2>6. QED BY <1>2, <2>4, <2>5
<1>11. ASSUME NEW b \in Bounces, MarkTxBounced(b) PROVE TellInv'
  <2>1. /\ b \in Callers /\ job[b].tell = "none" /\ reported' = reported \cup {b}
        /\ UNCHANGED <<request, sending, told, moved, untold>>
    BY <1>0, <1>1, <1>11, Nobody DEF MarkTxBounced, history, Idle
  <2>2. job'[b].tell = "none" /\ \A d \in Callers \ {b} : job'[d] = job[d]
    BY <1>1, <1>11, <2>1 DEF MarkTxBounced
  <2>3. SameTelling
    BY <2>1, <2>2 DEF SameTelling
  <2>4. Idle'
    BY <1>0, <1>1, <2>1, <2>2 DEF Idle
  <2>5. QED BY <1>2, <2>3, <2>4
<1>12. ASSUME NEW c \in Callers, Record(c) PROVE job[c] # Nothing
  BY <1>12, Nobody DEF Record, SetTxMessageStatus, EnqueueTxWebhook
<1>13. ASSUME NEW c \in Callers, Record(c), \A d \in Callers \ {c} : job'[d] = job[d] PROVE Idle'
  <2>1. UNCHANGED <<request, sending, reported>>
    BY <1>13 DEF Record, SetTxMessageStatus, EnqueueTxWebhook
  <2>2. job[c] # Nothing
    BY <1>12, <1>13
  <2>3. QED BY <1>0, <1>1, <1>13, <2>1, <2>2 DEF Idle
<1>14. ASSUME NEW c \in Callers, SetTxMessageStatus(c) PROVE TellInv'
  <2>0. PICK m, s : m = job[c].msg /\ s = Head(job[c].sets)
    OBVIOUS
  <2>1. /\ job[c].sets # <<>> /\ job[c].tell = "none"
        /\ \/ UNCHANGED moved /\ Done(c, "none")
           \/ moved' = [moved EXCEPT ![m][s] = @ + 1] /\ Done(c, s)
        /\ UNCHANGED <<told, untold>>
    BY <1>14, <2>0 DEF SetTxMessageStatus
  <2>2. m \in Messages /\ s \in Told
    <3>1. job[c].sets \in JobSets /\ JobOK(c)
      BY <1>1 DEF IInv, JobStates
    <3>2. QED BY <2>0, <2>1, <3>1, OneByOne DEF JobOK
  <2>3. ASSUME NEW tell \in Told \cup {"none"}, Done(c, tell)
        PROVE  /\ \A d \in Callers \ {c} : job'[d] = job[d]
               /\ job'[c].tell = tell /\ (tell # "none" => job'[c].msg = m) /\ Idle'
    <3>1. /\ \A d \in Callers \ {c} : job'[d] = job[d]
          /\ job'[c].tell = tell /\ (tell # "none" => job'[c].msg = m)
      BY <2>0, <2>1, <2>3, DoneStep
    <3>2. Idle'
      BY <1>13, <1>14, <3>1 DEF Record
    <3>3. QED BY <3>1, <3>2
  <2>4. CASE UNCHANGED moved /\ Done(c, "none")
    <3>1. SameTelling
      BY <2>1, <2>3, <2>4 DEF SameTelling
    <3>2. QED BY <1>2, <2>3, <2>4, <3>1
  <2>5. CASE moved' = [moved EXCEPT ![m][s] = @ + 1] /\ Done(c, s)
    <3>1. /\ \A d \in Callers \ {c} : job'[d] = job[d]
          /\ job'[c].tell = s /\ job'[c].msg = m /\ Idle'
      BY <2>2, <2>3, <2>5, NoneIsNotTold
    <3>2. QED BY <1>1, <2>1, <2>2, <2>5, <3>1, StartsToTell DEF TellInv
  <2>6. QED BY <2>1, <2>4, <2>5
<1>15. ASSUME NEW c \in Callers, EnqueueTxWebhook(c) PROVE TellInv'
  <2>0. PICK m, s : m = job[c].msg /\ s = job[c].tell
    OBVIOUS
  <2>1. /\ s # "none"
        /\ TellsOrLoses(m, s)
        /\ job' = [job EXCEPT ![c] = IF job[c].sets = <<>> THEN Nothing ELSE [job[c] EXCEPT !.tell = "none"]]
        /\ UNCHANGED moved
    BY <1>1, <1>15, <2>0 DEF EnqueueTxWebhook, TellsOrLoses
  <2>2. m \in Messages /\ s \in Told
    BY <1>1, <2>0, <2>1 DEF IInv, JobOK, JobStates
  <2>3. job'[c].tell = "none" /\ \A d \in Callers \ {c} : job'[d] = job[d]
    <3>1. [job[c] EXCEPT !.tell = "none"].tell = "none"
      BY <1>1 DEF JobStates
    <3>2. QED BY <1>1, <2>1, <3>1, Nobody
  <2>4. Idle'
    BY <1>13, <1>15, <2>3 DEF Record
  <2>5. job[c].msg = m /\ job[c].tell = s /\ told \in [Messages -> [Told -> Nat]]
    BY <1>1, <2>0
  <2>6. /\ moved' \in [Messages -> [Told -> Nat]] /\ IsFiniteSet(Telling')
        /\ \A n \in Messages, t \in Told : Tally(n, t)'
    BY <2>1, <2>2, <2>3, <2>5, StopsTelling
  <2>7. QED BY <2>4, <2>6 DEF TellInv
<1>16. CASE Crash
  <2>1. /\ \A w \in Workers : sending'[w] = NoMessage
        /\ \A r \in Requests : request'[r].pc = "record"
        /\ \A c \in Callers : job'[c] = Nothing
        /\ untold' = untold \cup {job[c].msg : c \in Telling}
        /\ UNCHANGED <<told, moved>>
    BY <1>16 DEF Crash, Telling
  <2>2. Idle'
    BY <1>0, <2>1 DEF Idle
  <2>3. Telling' = {}
    BY <2>1, Nobody DEF Telling
  <2>4. ASSUME NEW m \in Messages, NEW s \in Told PROVE Tally(m, s)'
    <3>1. About(m, s)' = {} /\ Cardinality({}) = 0
      BY <2>1, Nobody, NoneIsNotTold, FS_EmptySet DEF About
    <3>2. m \notin untold' => m \notin untold /\ About(m, s) = {}
      BY <2>1, NoneIsNotTold DEF About, Telling
    <3>3. Cardinality(About(m, s)) \in Nat
      BY AboutFinite DEF TellInv
    <3>4. PICK k \in Nat, a \in Nat, v \in Nat :
            /\ k = told[m][s] /\ a = Cardinality(About(m, s)) /\ v = moved[m][s]
            /\ k + a <= v /\ (m \notin untold => k + a = v)
      BY <1>1, <3>3 DEF TellInv, Tally
    <3>5. k + 0 <= v /\ (m \notin untold' => k + 0 = v)
      BY <3>1, <3>2, <3>4
    <3>6. QED BY <2>1, <3>1, <3>4, <3>5 DEF Tally
  <2>5. QED BY <1>1, <2>1, <2>2, <2>3, <2>4, FS_EmptySet DEF TellInv
<1>17. QED BY <1>3, <1>4, <1>5, <1>6, <1>8, <1>9, <1>10, <1>11, <1>14, <1>15, <1>16
       DEF Next, SendTx, Worker, Record

LEMMA TellInit ==
  ASSUME Init
  PROVE  TellInv
<1>1. \A c \in Callers : job[c] = Nothing
  BY DEF Init
<1>2. Idle
  BY <1>1, TxLogAssumption DEF Init, Idle, Free, Callers
<1>3. Telling = {} /\ IsFiniteSet({}) /\ Cardinality({}) = 0
  BY <1>1, Nobody, FS_EmptySet DEF Telling
<1>4. /\ moved \in [Messages -> [Told -> Nat]]
      /\ \A m \in Messages, s \in Told : told[m][s] = 0 /\ moved[m][s] = 0
  BY DEF Init
<1>5. \A m \in Messages, s \in Told : About(m, s) = {}
  BY <1>1, Nobody, NoneIsNotTold DEF About
<1>6. ASSUME NEW m \in Messages, NEW s \in Told PROVE Tally(m, s)
  <2>1. told[m][s] = 0 /\ moved[m][s] = 0 /\ Cardinality(About(m, s)) = 0
    BY <1>3, <1>4, <1>5
  <2>2. QED BY <2>1 DEF Tally
<1>7. QED BY <1>2, <1>3, <1>4, <1>6 DEF TellInv

(* ToldOncePerChange: whoever sets a status, and whatever is lost, there   *)
(* is a webhook or a caller about to queue it for each change, and no      *)
(* other.                                                                  *)
THEOREM ToldOnce == Spec => []ToldOncePerChange
<1>1. Init => TellInv
  BY TellInit
<1>2. IInv /\ TellInv /\ [Next]_vars => TellInv'
  <2>1. ASSUME TellInv, UNCHANGED vars PROVE TellInv'
    <3>1. SameTelling /\ Idle'
      BY <2>1 DEF vars, SameTelling, Idle, Free, TellInv
    <3>2. QED BY <2>1, <3>1, TalliesKept DEF TellInv
  <2>2. QED BY <2>1, TellNext
<1>3. TellInv => ToldOncePerChange
  BY DEF TellInv, Tally, About, ToldOncePerChange
<1>4. QED BY <1>1, <1>2, <1>3, Invariance, PTL DEF Spec
=============================================================================
