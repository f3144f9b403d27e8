---------------------------------- MODULE TxLog ----------------------------------
(* The transactional message log: requests record their messages and queue *)
(* them for the manager's workers, workers record what the messenger said, *)
(* bounces are attributed to the latest message to their address.  A       *)
(* status and the webhook that tells of it are two transactions            *)
(* (SetTxMessageStatus, enqueueTxWebhook), made by whoever has the result. *)
EXTENDS Naturals, Sequences, FiniteSets, SequencesExt

CONSTANTS
  Messages,
  NoMessage,
  Requests, MessagesOf,  \* the messages of a request, in order
  Recipient,
  Email,                 \* the messages whose messenger is "email"
  Workers,
  Bounces,               \* bound: reports of a bounce
  QueueCap,              \* cap(m.msgQ)
  MaxFaults, MaxCrashes  \* bounds

ASSUME TxLogAssumption ==
  /\ NoMessage \notin Messages
  /\ MessagesOf \in [Requests -> Seq(Messages)]
  /\ \A r, q \in Requests : \A i \in DOMAIN MessagesOf[r], k \in DOMAIN MessagesOf[q] :
       MessagesOf[r][i] = MessagesOf[q][k] => r = q /\ i = k
  /\ DOMAIN Recipient = Messages
  /\ Email \subseteq Messages
  /\ Requests \cap Workers = {} /\ Bounces \cap (Requests \cup Workers) = {}
  /\ QueueCap \in Nat \ {0} /\ MaxFaults \in Nat /\ MaxCrashes \in Nat

Callers == Requests \cup Workers \cup Bounces
Told == {"sent", "delivered", "bounced", "failed"}   \* txEventByStatus
Statuses == {"none", "queued"} \cup Told

VARIABLES
  log,       \* tx_messages.status, "none" without a row
  recorded,  \* the messages with a row, by created_at
  queue,     \* m.msgQ
  request,   \* sendTx: what it does next, and the messages it has not queued
  sending,   \* the message a worker gives to the messenger
  job,       \* what a caller has to record: statuses to set, then a webhook to queue
  reported,  \* bounces
  pushed,    \* messages that a messenger took
  told,      \* webhook deliveries queued for a message, by the status they tell of
  moved,     \* history: how often each status was set for it
  lost,      \* history: messages with a result that nobody recorded
  untold,    \* history: messages with a webhook that was not queued
  faults, crashes

vars == <<log, recorded, queue, request, sending, job, reported, pushed, told,
          moved, lost, untold, faults, crashes>>

Nothing == [msg |-> NoMessage, sets |-> <<>>, tell |-> "none"]

Init ==
  /\ log = [m \in Messages |-> "none"]
  /\ recorded = <<>>
  /\ queue = <<>>
  /\ request = [r \in Requests |-> [pc |-> "record", left |-> MessagesOf[r]]]
  /\ sending = [w \in Workers |-> NoMessage]
  /\ job = [c \in Callers |-> Nothing]
  /\ reported = {}
  /\ pushed = {}
  /\ told = [m \in Messages |-> [s \in Told |-> 0]]
  /\ moved = [m \in Messages |-> [s \in Told |-> 0]]
  /\ lost = {} /\ untold = {}
  /\ faults = 0 /\ crashes = 0

Fault == faults < MaxFaults /\ faults' = faults + 1
Free(c) == job[c] = Nothing
history == <<moved, lost, untold>>

-----------------------------------------------------------------------------
(* sendTx.  A message that can't be recorded is sent all the same.         *)

CreateTxMessage(m, status) ==
  /\ log' = [log EXCEPT ![m] = status]
  /\ recorded' = Append(recorded, m)

RecordReady(r) ==
  LET m == Head(request[r].left) IN
  /\ request[r].pc = "record" /\ request[r].left # <<>> /\ Free(r)
  /\ request' = [request EXCEPT ![r].pc = "push"]
  /\ \/ CreateTxMessage(m, "queued") /\ UNCHANGED faults
     \/ Fault /\ UNCHANGED <<log, recorded>>
  /\ UNCHANGED <<queue, sending, job, reported, pushed, told, history, crashes>>

(* No such subscriber: the request goes on with the next recipient.  No    *)
(* such template for this one or an error in rendering: it ends.           *)
RecordUnsendable(r) ==
  LET m == Head(request[r].left) IN
  /\ request[r].pc = "record" /\ request[r].left # <<>> /\ Free(r)
  /\ \E left \in {Tail(request[r].left), <<>>} : request' = [request EXCEPT ![r].left = left]
  /\ \/ /\ CreateTxMessage(m, "failed")
        /\ job' = [job EXCEPT ![r] = [msg |-> m, sets |-> <<>>, tell |-> "failed"]]
        /\ moved' = [moved EXCEPT ![m]["failed"] = @ + 1]
        /\ UNCHANGED faults
     \/ Fault /\ UNCHANGED <<log, recorded, job, moved>>
  /\ UNCHANGED <<queue, sending, reported, pushed, told, lost, untold, crashes>>

(* GetSubscriber failed: nothing is recorded of this one and of the rest.  *)
LookUpFails(r) ==
  /\ request[r].pc = "record" /\ request[r].left # <<>> /\ Free(r) /\ Fault
  /\ request' = [request EXCEPT ![r].left = <<>>]
  /\ UNCHANGED <<log, recorded, queue, sending, job, reported, pushed, told, history, crashes>>

SendResultBlind(m, taken) ==  \* mutant: does not look at the error
  [msg |-> m, sets |-> IF log[m] = "none" THEN <<>>
                       ELSE IF m \in Email THEN <<"sent", "delivered">> ELSE <<"sent">>,
   tell |-> "none"]

(* RecordTxSendResult: a message without a row has ID 0.                   *)
SendResult(m, taken) ==
  IF log[m] = "none" THEN Nothing
  ELSE [msg |-> m,
        sets |-> IF ~taken THEN <<"failed">>
                 ELSE IF m \in Email THEN <<"sent", "delivered">> ELSE <<"sent">>,
        tell |-> "none"]

PushMessageOver(r) ==  \* mutant: one more than the queue holds
  /\ request[r].pc = "push" /\ Len(queue) <= QueueCap
  /\ queue' = Append(queue, Head(request[r].left))
  /\ request' = [request EXCEPT ![r] = [pc |-> "record", left |-> Tail(@.left)]]
  /\ UNCHANGED <<log, recorded, sending, job, reported, pushed, told, history, faults, crashes>>

PushMessage(r) ==
  LET m == Head(request[r].left) IN
  /\ request[r].pc = "push" /\ Len(queue) < QueueCap
  /\ queue' = Append(queue, m)
  /\ request' = [request EXCEPT ![r] = [pc |-> "record", left |-> Tail(@.left)]]
  /\ UNCHANGED <<log, recorded, sending, job, reported, pushed, told, history, faults, crashes>>

PushTimesOutQuietly(r) ==  \* mutant: the log is not told
  /\ request[r].pc = "push" /\ Len(queue) = QueueCap
  /\ request' = [request EXCEPT ![r] = [pc |-> "record", left |-> <<>>]]
  /\ UNCHANGED <<log, recorded, queue, sending, job, reported, pushed, told, history, faults, crashes>>

(* The queue stayed full for pushTimeout: the rest is not sent.            *)
PushTimesOut(r) ==
  /\ request[r].pc = "push" /\ Len(queue) = QueueCap
  /\ job' = [job EXCEPT ![r] = SendResult(Head(request[r].left), FALSE)]
  /\ request' = [request EXCEPT ![r] = [pc |-> "record", left |-> <<>>]]
  /\ UNCHANGED <<log, recorded, queue, sending, reported, pushed, told, history, faults, crashes>>

-----------------------------------------------------------------------------
(* The manager's workers.                                                  *)

Take(w) ==
  /\ sending[w] = NoMessage /\ Free(w) /\ queue # <<>>
  /\ queue' = Tail(queue)
  /\ sending' = [sending EXCEPT ![w] = Head(queue)]
  /\ UNCHANGED <<log, recorded, request, job, reported, pushed, told, history, faults, crashes>>

(* No messenger of that name, or one that returns an error: not taken.     *)
Send(w) ==
  /\ sending[w] # NoMessage
  /\ \/ /\ pushed' = pushed \cup {sending[w]}
        /\ job' = [job EXCEPT ![w] = SendResult(sending[w], TRUE)]
        /\ UNCHANGED faults
     \/ Fault /\ job' = [job EXCEPT ![w] = SendResult(sending[w], FALSE)] /\ UNCHANGED pushed
  /\ sending' = [sending EXCEPT ![w] = NoMessage]
  /\ UNCHANGED <<log, recorded, queue, request, reported, told, history, crashes>>

-----------------------------------------------------------------------------
(* markTxBounced: the latest row to the address, read in a transaction of  *)
(* its own.  The report may be of any mail to the address, whatever the    *)
(* log has recorded for it by then; without a row, or with an error in     *)
(* looking for it, nothing is done.                                        *)

IsLatest(i) ==
  \A k \in DOMAIN recorded : k > i => Recipient[recorded[k]] # Recipient[recorded[i]]

MarkTxBounced(b) ==
  /\ b \notin reported
  /\ reported' = reported \cup {b}
  /\ \/ \E i \in DOMAIN recorded :
          /\ IsLatest(i)
          /\ job' = [job EXCEPT ![b] = [msg |-> recorded[i], sets |-> <<"bounced">>, tell |-> "none"]]
     \/ UNCHANGED job
  /\ UNCHANGED <<log, recorded, queue, request, sending, pushed, told, history, faults, crashes>>

-----------------------------------------------------------------------------
(* SetTxMessageStatus and enqueueTxWebhook.                                *)

StaysAlways(m, s) == FALSE  \* mutant: no guard in the statement

Stays(m, s) == s \in {"sent", "delivered"} /\ log[m] \in {"bounced", "failed"}

Done(c, tell) ==
  LET left == Tail(job[c].sets) IN
  job' = [job EXCEPT ![c] = IF left = <<>> /\ tell = "none" THEN Nothing
                            ELSE [@ EXCEPT !.sets = left, !.tell = tell]]

SetAndTell(c) ==  \* mutant: tells of a status that was not set
  LET m == job[c].msg
      s == Head(job[c].sets) IN
  /\ job[c].sets # <<>> /\ job[c].tell = "none"
  /\ IF Stays(m, s) THEN UNCHANGED <<log, moved>>
     ELSE log' = [log EXCEPT ![m] = s] /\ moved' = [moved EXCEPT ![m][s] = @ + 1]
  /\ Done(c, s)
  /\ UNCHANGED <<recorded, queue, request, sending, reported, pushed, told, lost, untold, faults, crashes>>

SetTxMessageStatus(c) ==
  LET m == job[c].msg
      s == Head(job[c].sets) IN
  /\ job[c].sets # <<>> /\ job[c].tell = "none"
  /\ \/ /\ IF Stays(m, s) THEN UNCHANGED <<log, moved>> /\ Done(c, "none")
           ELSE /\ log' = [log EXCEPT ![m] = s]
                /\ moved' = [moved EXCEPT ![m][s] = @ + 1]
                /\ Done(c, s)
        /\ UNCHANGED <<lost, faults>>
     \/ Fault /\ Done(c, "none") /\ lost' = lost \cup {m} /\ UNCHANGED <<log, moved>>
  /\ UNCHANGED <<recorded, queue, request, sending, reported, pushed, told, untold, crashes>>

EnqueueTxWebhook(c) ==
  LET m == job[c].msg IN
  /\ job[c].tell # "none"
  /\ \/ told' = [told EXCEPT ![m][job[c].tell] = @ + 1] /\ UNCHANGED <<untold, faults>>
     \/ Fault /\ untold' = untold \cup {m} /\ UNCHANGED told
  /\ job' = [job EXCEPT ![c] = IF @.sets = <<>> THEN Nothing ELSE [@ EXCEPT !.tell = "none"]]
  /\ UNCHANGED <<log, recorded, queue, request, sending, reported, pushed, moved, lost, crashes>>

-----------------------------------------------------------------------------
(* The queue, and what its callers hold, is in memory.                     *)

Unfinished ==
  ToSet(queue) \cup {sending[w] : w \in Workers} \cup {Head(request[r].left) : r \in {q \in Requests : request[q].pc = "push"}}
    \cup {job[c].msg : c \in {d \in Callers : job[d].sets # <<>>}}

Crash ==
  /\ crashes < MaxCrashes
  /\ crashes' = crashes + 1
  /\ queue' = <<>>
  /\ sending' = [w \in Workers |-> NoMessage]
  /\ request' = [r \in Requests |-> [pc |-> "record", left |-> <<>>]]
  /\ job' = [c \in Callers |-> Nothing]
  /\ lost' = lost \cup (Unfinished \ {NoMessage})
  /\ untold' = untold \cup {job[c].msg : c \in {d \in Callers : job[d].tell # "none"}}
  /\ UNCHANGED <<log, recorded, reported, pushed, told, moved, faults>>

SendTx(r) ==
  \/ RecordReady(r) \/ RecordUnsendable(r) \/ LookUpFails(r)
  \/ PushMessage(r) \/ PushTimesOut(r)
Worker(w) == Take(w) \/ Send(w)
Record(c) == SetTxMessageStatus(c) \/ EnqueueTxWebhook(c)

Next ==
  \/ \E r \in Requests : SendTx(r)
  \/ \E w \in Workers : Worker(w)
  \/ \E b \in Bounces : MarkTxBounced(b)
  \/ \E c \in Callers : Record(c)
  \/ Crash

Spec == Init /\ [][Next]_vars

FairSpec ==
  /\ Spec
  /\ \A r \in Requests : WF_vars(SendTx(r))
  /\ \A w \in Workers : WF_vars(Worker(w))
  /\ \A c \in Callers : WF_vars(Record(c))

-----------------------------------------------------------------------------
(* Properties.                                                             *)

(* The type invariant.                                                     *)
TypeOK ==
  /\ log \in [Messages -> Statuses]
  /\ \A m \in Messages : log[m] # "none" <=> m \in ToSet(recorded)
  /\ ToSet(queue) \subseteq Messages /\ Len(queue) <= QueueCap
  /\ request \in [Requests -> [pc : {"record", "push"}, left : Seq(Messages)]]
  /\ \A r \in Requests : request[r].pc = "push" => request[r].left # <<>>
  /\ sending \in [Workers -> Messages \cup {NoMessage}]
  /\ \A c \in Callers :
       /\ job[c].msg \in Messages \cup {NoMessage}
       /\ job[c].tell \in Told \cup {"none"}
       /\ job[c].sets \in {<<>>, <<"failed">>, <<"bounced">>, <<"sent">>, <<"delivered">>, <<"sent", "delivered">>}
  /\ reported \subseteq Bounces /\ pushed \subseteq Messages
  /\ lost \subseteq Messages /\ untold \subseteq Messages
  /\ told \in [Messages -> [Told -> Nat]]
  /\ faults \in 0..MaxFaults /\ crashes \in 0..MaxCrashes

(* The log tells the truth whatever is lost: a message shown as sent or    *)
(* delivered was taken by its messenger, and one shown as failed was not.  *)
StatusIsTrue ==
  \A m \in Messages :
    /\ log[m] \in {"sent", "delivered"} => m \in pushed
    /\ log[m] = "delivered" => m \in Email
    /\ log[m] = "failed" => m \notin pushed

(* A bounced or failed message isn't moved back to sent or delivered       *)
(* (internal/core/txlog.go:85), whoever records a result late.             *)
NotMovedBack ==
  [][\A m \in Messages : log[m] \in {"bounced", "failed"} => log'[m] \in {"bounced", "failed"}]_vars

(* Endpoints are told of what happened, once per change: the webhooks      *)
(* queued for a message and those about to be are the statuses it was set  *)
(* to (a message whose webhook was lost is told of less).                  *)
ToldOncePerChange ==
  \A m \in Messages, s \in Told :
    LET about == Cardinality({c \in Callers : job[c].msg = m /\ job[c].tell = s}) IN
    /\ told[m][s] + about <= moved[m][s]
    /\ m \notin untold => told[m][s] + about = moved[m][s]

(* A message that was recorded as queued gets a result, unless the result  *)
(* could not be recorded or the process died with it.                      *)
QueuedSettles ==
  \A m \in Messages : log[m] = "queued" ~> (log[m] # "queued" \/ m \in lost)
=============================================================================
