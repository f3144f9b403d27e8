--------------------------- MODULE CampaignSessions ---------------------------
(***************************************************************************)
(* What the campaign manager promises of its sending sessions, without     *)
(* queues, workers, wait groups or the scanner.  A campaign has at most    *)
(* one session; a session takes in batches of subscribers it has not had   *)
(* before, serves each one once, drops subscribers only after a stop, and  *)
(* settles only when it has nobody left.  A crash ends every session.      *)
(***************************************************************************)
CONSTANTS Campaigns, Subs

VARIABLES
  session,  \* is the campaign being processed
  stop,     \* was its session told to stop
  pending,  \* subscribers taken in and not decided
  served,   \* subscribers pushed, refused by the messenger, or not renderable
  dropped   \* subscribers ignored after a stop

vars == <<session, stop, pending, served, dropped>>

TypeOK ==
  /\ session \in [Campaigns -> {"closed", "open", "settling"}]
  /\ stop \in [Campaigns -> BOOLEAN]
  /\ pending \in [Campaigns -> SUBSET Subs]
  /\ served \in [Campaigns -> SUBSET Subs]
  /\ dropped \in [Campaigns -> SUBSET Subs]

Closed ==
  /\ session = [c \in Campaigns |-> "closed"]
  /\ stop = [c \in Campaigns |-> FALSE]
  /\ pending = [c \in Campaigns |-> {}]
  /\ served = [c \in Campaigns |-> {}]
  /\ dropped = [c \in Campaigns |-> {}]

Init == Closed

(* A session may start stopped, when there is no room to process it.       *)
Open(c) ==
  /\ session[c] = "closed"
  /\ session' = [session EXCEPT ![c] = "open"]
  /\ \E b \in BOOLEAN : stop' = [stop EXCEPT ![c] = b]
  /\ UNCHANGED <<pending, served, dropped>>

Fetch(c, batch) ==
  /\ session[c] = "open"
  /\ batch \cap (pending[c] \cup served[c] \cup dropped[c]) = {}
  /\ pending' = [pending EXCEPT ![c] = @ \cup batch]
  /\ UNCHANGED <<session, stop, served, dropped>>

Serve(c, s) ==
  /\ s \in pending[c]
  /\ pending' = [pending EXCEPT ![c] = @ \ {s}]
  /\ served' = [served EXCEPT ![c] = @ \cup {s}]
  /\ UNCHANGED <<session, stop, dropped>>

Drop(c, s) ==
  /\ stop[c]
  /\ s \in pending[c]
  /\ pending' = [pending EXCEPT ![c] = @ \ {s}]
  /\ dropped' = [dropped EXCEPT ![c] = @ \cup {s}]
  /\ UNCHANGED <<session, stop, served>>

Stop(c) ==
  /\ session[c] # "closed"
  /\ stop' = [stop EXCEPT ![c] = TRUE]
  /\ UNCHANGED <<session, pending, served, dropped>>

Settle(c) ==
  /\ session[c] = "open"
  /\ pending[c] = {}
  /\ session' = [session EXCEPT ![c] = "settling"]
  /\ UNCHANGED <<stop, pending, served, dropped>>

Close(c) ==
  /\ session[c] = "settling"
  /\ session' = [session EXCEPT ![c] = "closed"]
  /\ stop' = [stop EXCEPT ![c] = FALSE]
  /\ served' = [served EXCEPT ![c] = {}]
  /\ dropped' = [dropped EXCEPT ![c] = {}]
  /\ UNCHANGED pending

Crash == Closed'

Next ==
  \/ \E c \in Campaigns :
       \/ Open(c) \/ Stop(c) \/ Settle(c) \/ Close(c)
       \/ \E batch \in SUBSET Subs : Fetch(c, batch)
       \/ \E s \in Subs : Serve(c, s) \/ Drop(c, s)
  \/ Crash

Spec == Init /\ [][Next]_vars

(* What follows for a reader of the abstraction: a session that settles    *)
(* without having been told to stop has served everyone it took in.        *)
NobodyLost ==
  \A c \in Campaigns :
    session[c] = "settling" /\ ~stop[c] => pending[c] = {} /\ dropped[c] = {}
=============================================================================
