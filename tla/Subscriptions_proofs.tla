------------------------- MODULE Subscriptions_proofs -------------------------
(* Consent and the blocklist, for any number of subscribers, lists, bounce *)
(* types and requests: the properties of Subscriptions are proved from an  *)
(* inductive invariant in seven parts.  Two lemmas say what a write of the  *)
(* status and a write of the subscriptions have to respect; the step of    *)
(* each action checks just that.                                           *)
EXTENDS Subscriptions, TLAPS

Pairs == Subs \X Lists
Standings == {"free", "barred", "readmitted", "overtaken"}
RequestPCs == {"idle", "form", "optin", "confirm", "prefs", "leaving", "leave", "patch"}

(* Who is blocklisted, and why: of a subscriber who is blocklisted it was  *)
(* decided once, and one who stands as barred has not got out of it.       *)
StatusInv ==
  /\ status \in [Subs -> Statuses \cup {"none", "deleted"}]
  /\ standing \in [Subs -> Standings]
  /\ \A s, t \in Subs : Present(s) /\ Present(t) /\ s # t => EmailOf[s] # EmailOf[t]
  /\ \A s \in Subs : status[s] = "blocklisted" => standing[s] # "free"
  /\ BarredStaysOut

(* Every confirmed subscription has its proof.                             *)
LinksInv ==
  /\ link \in [Pairs -> Links \cup {"none"}]
  /\ proven \subseteq Pairs /\ left \subseteq Pairs
  /\ LeftStaysLeft
  /\ \A p \in Pairs : link[p] = "confirmed" => p \in proven

BouncesInv ==
  /\ bounces \in [Subs \X Types -> Nat]
  /\ \A b \in Subs \X Types : bounces[b] <= Count[b[2]] /\ (bounces[b] > 0 => Present(b[1]))

AttachedInv == \A p \in Pairs : link[p] # "none" => Present(p[1])

(* A request that is under way has its subscriber.                         *)
RequestRecord ==
  [pc : RequestPCs, sub : Subs \cup {NoSub}, read : Statuses \cup {"none"}, lists : SUBSET Lists]
RequestInv ==
  /\ request \in [Requests -> RequestRecord]
  /\ \A r \in Requests :
       /\ request[r].pc # "idle" \/ request[r].read # "none" => request[r].sub \in Subs
       /\ request[r].pc \in {"form", "prefs", "patch"} => request[r].read \in Statuses

(* A request that has read the row of a barred subscriber has read that he *)
(* is, or is known to be early.  Who was blocklisted once is free no more. *)
ReadInv ==
  /\ early \subseteq Requests
  /\ \A r \in Requests :
       /\ request[r].read = "blocklisted" => standing[request[r].sub] # "free"
       /\ request[r].read \in {"enabled", "disabled"} /\ standing[request[r].sub] = "barred"
            => r \in early

IInv == StatusInv /\ LinksInv /\ BouncesInv /\ AttachedInv /\ RequestInv /\ ReadInv
        /\ BouncedAreOut

-----------------------------------------------------------------------------
(* What the writes preserve.                                               *)

(* Nobody loses a row, and nobody is freed from a standing.                *)
Grows ==
  \A t \in Subs : /\ Present(t) => Present(t)'
                  /\ standing[t] # "free" => standing'[t] # "free"

(* The requests that go on, all but E, are early if their subscriber was   *)
(* barred over what they have read.                                        *)
Told(E) ==
  /\ early' \subseteq Requests
  /\ \A r \in Requests \ E :
       request[r].read \in {"enabled", "disabled"} /\ standing'[request[r].sub] = "barred"
         => r \in early'

(* The requests of E are over, or forget what they have read.              *)
Goes(E) ==
  /\ RequestInv'
  /\ \A r \in Requests :
       \/ request'[r].read = "none"
       \/ r \notin E /\ request'[r].read = request[r].read /\ request'[r].sub = request[r].sub

LEMMA ReadStep ==
  ASSUME IInv, NEW E, \A t \in Subs : standing[t] # "free" => standing'[t] # "free",
         Told(E), Goes(E)
  PROVE  ReadInv'
<1> SUFFICES ASSUME NEW r \in Requests
             PROVE  /\ request'[r].read = "blocklisted" => standing'[request'[r].sub] # "free"
                    /\ request'[r].read \in {"enabled", "disabled"}
                         /\ standing'[request'[r].sub] = "barred" => r \in early'
  BY DEF ReadInv, Told
<1>1. request[r].read # "none" => request[r].sub \in Subs
  BY DEF IInv, RequestInv
<1>2. CASE request'[r].read = "none"
  BY <1>2
<1>3. CASE r \notin E /\ request'[r].read = request[r].read /\ request'[r].sub = request[r].sub
  BY <1>1, <1>3 DEF IInv, ReadInv, Told
<1>4. QED BY <1>2, <1>3 DEF Goes

(* A write of a status preserves the invariant when it is of a row that    *)
(* exists or may be inserted, and the standing is that of the status.      *)
LEMMA SetStatusStep ==
  ASSUME StatusInv, NEW s \in Subs, NEW st \in Statuses, Present(s) \/ Fresh(s),
         SetStatus(s, st), standing' \in [Subs -> Standings],
         \A t \in Subs \ {s} : standing'[t] = standing[t],
         standing[s] # "free" \/ st = "blocklisted" => standing'[s] # "free",
         standing'[s] = "barred" => st = "blocklisted"
  PROVE  StatusInv' /\ Grows /\ Present(s)'
<1>1. /\ status'[s] = st /\ \A t \in Subs \ {s} : status'[t] = status[t]
      /\ status' \in [Subs -> Statuses \cup {"none", "deleted"}]
  BY DEF SetStatus, StatusInv
<1>2. Present(s)'
  BY <1>1 DEF Present
<1>3. \A t, u \in Subs : Present(t)' /\ Present(u)' /\ t # u => EmailOf[t] # EmailOf[u]
  <2>1. \A t \in Subs \ {s} : Present(t)' <=> Present(t)
    BY <1>1 DEF Present
  <2>2. \A t \in Subs \ {s} : Present(t) => EmailOf[t] # EmailOf[s]
    BY DEF StatusInv, Fresh
  <2>3. QED BY <2>1, <2>2 DEF StatusInv
<1>4. \A t \in Subs : status'[t] = "blocklisted" => standing'[t] # "free"
  BY <1>1 DEF StatusInv
<1>5. BarredStaysOut'
  BY <1>1 DEF StatusInv, BarredStaysOut
<1>6. Grows
  BY <1>1, <1>2 DEF Grows, Present
<1>7. QED BY <1>1, <1>2, <1>3, <1>4, <1>5, <1>6 DEF StatusInv

(* Who is barred is so, and the requests that have read another status of  *)
(* his are known.                                                          *)
LEMMA BarStep ==
  ASSUME IInv, NEW s \in Subs, NEW E \in SUBSET Requests, Present(s) \/ Fresh(s), Bar(s, E)
  PROVE  StatusInv' /\ Grows /\ Present(s)' /\ Told(E) /\ standing'[s] = "barred"
<1>1. /\ SetStatus(s, "blocklisted") /\ standing' = [standing EXCEPT ![s] = "barred"]
      /\ early' = (early \cup {r \in Requests : request[r].sub = s
                                 /\ request[r].read \in {"enabled", "disabled"}}) \ E
  BY DEF Bar
<1>2. /\ standing'[s] = "barred" /\ \A t \in Subs \ {s} : standing'[t] = standing[t]
      /\ standing' \in [Subs -> Standings]
  BY <1>1 DEF IInv, StatusInv, Standings
<1>3. Told(E)
  <2>1. \A r \in Requests : request[r].read \in {"enabled", "disabled"} => request[r].sub \in Subs
    BY DEF IInv, RequestInv
  <2>2. QED BY <1>1, <1>2, <2>1 DEF Told, IInv, ReadInv
<1>4. "blocklisted" \in Statuses
  BY DEF Statuses
<1>5. QED BY <1>1, <1>2, <1>3, <1>4, SetStatusStep DEF IInv

(* A status an admin asks for readmits who was barred.                     *)
LEMMA DecideStep ==
  ASSUME IInv, NEW s \in Subs, NEW st \in Statuses, NEW E \in SUBSET Requests, Present(s),
         Decide(s, st, E)
  PROVE  StatusInv' /\ Grows /\ Present(s)' /\ Told(E)
<1>1. CASE st = "blocklisted"
  <2>1. Bar(s, E)
    BY <1>1 DEF Decide
  <2>2. QED BY <2>1, BarStep
<1>2. CASE st # "blocklisted"
  <2>1. /\ SetStatus(s, st) /\ early' = early \ E
        /\ standing' = [standing EXCEPT ![s] = IF @ = "barred" THEN "readmitted" ELSE @]
    BY <1>2 DEF Decide
  <2>2. /\ standing'[s] = IF standing[s] = "barred" THEN "readmitted" ELSE standing[s]
        /\ \A t \in Subs \ {s} : standing'[t] = standing[t]
        /\ standing' \in [Subs -> Standings]
    BY <2>1 DEF IInv, StatusInv, Standings
  <2>3. Told(E)
    <3>1. \A r \in Requests : request[r].read \in {"enabled", "disabled"} => request[r].sub \in Subs
      BY DEF IInv, RequestInv
    <3>2. QED BY <2>1, <2>2, <3>1 DEF Told, IInv, ReadInv
  <2>4. QED BY <1>2, <2>1, <2>2, <2>3, SetStatusStep DEF IInv
<1>3. QED BY <1>1, <1>2

(* A request writes back what it has read: the blocklist, or another       *)
(* status, over the blocklist when it is early.                            *)
LEMMA WriteBackStep ==
  ASSUME IInv, NEW r \in Requests, NEW s \in Subs, NEW st \in Statuses,
         s = request[r].sub, st = request[r].read, WriteBack(r), Present(s)
  PROVE  StatusInv' /\ Grows /\ Present(s)' /\ Told({r})
<1>1. /\ SetStatus(s, st) /\ early' = early \ {r}
      /\ standing' = [standing EXCEPT ![s] =
                        IF @ = "barred" /\ r \in early THEN "overtaken" ELSE @]
  BY DEF WriteBack
<1>2. /\ standing'[s] = IF standing[s] = "barred" /\ r \in early THEN "overtaken" ELSE standing[s]
      /\ \A t \in Subs \ {s} : standing'[t] = standing[t]
      /\ standing' \in [Subs -> Standings]
  BY <1>1 DEF IInv, StatusInv, Standings
<1>3. Told({r})
  <2>1. \A q \in Requests : request[q].read \in {"enabled", "disabled"} => request[q].sub \in Subs
    BY DEF IInv, RequestInv
  <2>2. QED BY <1>1, <1>2, <2>1 DEF Told, IInv, ReadInv
<1>4. /\ st = "blocklisted" => standing[s] # "free"
      /\ standing[s] = "barred" /\ r \notin early => st = "blocklisted"
  BY DEF IInv, ReadInv, Statuses
<1>5. /\ standing[s] # "free" \/ st = "blocklisted" => standing'[s] # "free"
      /\ standing'[s] = "barred" => st = "blocklisted"
  BY <1>2, <1>4
<1>6. QED BY <1>1, <1>2, <1>3, <1>5, SetStatusStep DEF IInv

(* A row that is inserted has not been blocklisted before.                 *)
LEMMA RowStep ==
  ASSUME IInv, NEW s \in Subs, NEW st \in Statuses, Fresh(s), Insert(s, st)
  PROVE  StatusInv' /\ Grows /\ Present(s)' /\ Told({})
<1>1. CASE st = "blocklisted"
  <2>1. Bar(s, {})
    BY <1>1 DEF Insert
  <2>2. QED BY <2>1, BarStep
<1>2. CASE st # "blocklisted"
  <2>1. SetStatus(s, st) /\ UNCHANGED <<standing, early>>
    BY <1>2 DEF Insert
  <2>2. standing[s] # "barred"
    BY DEF Fresh, IInv, StatusInv, BarredStaysOut
  <2>3. Told({})
    BY <2>1 DEF Told, IInv, ReadInv
  <2>4. standing' \in [Subs -> Standings] /\ \A t \in Subs : standing'[t] = standing[t]
    BY <2>1 DEF IInv, StatusInv
  <2>5. QED BY <1>2, <2>1, <2>2, <2>3, <2>4, SetStatusStep DEF IInv
<1>3. QED BY <1>1, <1>2

LEMMA StatusStaysStep ==
  ASSUME StatusInv, UNCHANGED <<status, standing>>
  PROVE  StatusInv' /\ Grows /\ \A t \in Subs : Present(t)' <=> Present(t)
BY DEF StatusInv, Grows, Present, BarredStaysOut

LEMMA KeepStatusStep ==
  ASSUME IInv, KeepStatus, NEW E
  PROVE  StatusInv' /\ Grows /\ Told(E) /\ \A t \in Subs : Present(t)' <=> Present(t)
<1>1. Told(E)
  BY DEF KeepStatus, Told, IInv, ReadInv
<1>2. QED BY <1>1, StatusStaysStep DEF KeepStatus, IInv

(* A write of the subscriptions preserves the invariant when it confirms   *)
(* only with proof, and renews one that was left only for who asks for it. *)
LEMMA SetLinksStep ==
  ASSUME LinksInv, NEW new \in [Pairs -> Links \cup {"none"}],
         NEW proof \in SUBSET Pairs, NEW back \in SUBSET Pairs, NEW quit \in SUBSET Pairs,
         \A p \in Pairs : new[p] = "confirmed" => link[p] = "confirmed" \/ p \in proof,
         \A p \in left : new[p] \in Active => p \in back,
         \A p \in quit : new[p] \notin Active,
         SetLinks(new, proof, back, quit)
  PROVE  LinksInv'
<1>1. link' = new /\ proven' = {p \in proven \cup proof : new[p] = "confirmed"}
  BY DEF SetLinks
<1>2. left' = {p \in (left \ {q \in back : new[q] \in Active}) \cup quit : new[p] # "none"}
  BY DEF SetLinks
<1>3. proven' \subseteq Pairs /\ left' \subseteq Pairs
  BY <1>1, <1>2 DEF LinksInv
<1>4. \A p \in Pairs : new[p] = "confirmed" => p \in proven'
  BY <1>1 DEF LinksInv
<1>5. \A p \in left' : new[p] = "unsubscribed"
  <2>1. \A p \in Pairs : new[p] \in Active \/ new[p] = "unsubscribed" \/ new[p] = "none"
    BY DEF Links
  <2>2. SUFFICES ASSUME NEW p \in left', new[p] \in Active PROVE FALSE
    BY <2>1, <1>2, <1>3
  <2>3. p \in left \/ p \in quit
    BY <1>2
  <2>4. p \notin quit
    BY <2>2
  <2>5. p \in back
    BY <2>2, <2>3, <2>4
  <2>6. QED BY <1>2, <2>2, <2>4, <2>5
<1>6. QED BY <1>1, <1>3, <1>4, <1>5 DEF LinksInv, LeftStaysLeft

LEMMA KeepLinksStep ==
  ASSUME LinksInv, KeepLinks
  PROVE  LinksInv'
BY DEF LinksInv, KeepLinks, LeftStaysLeft

(* The parts together: a step that writes for one subscriber.              *)
LEMMA WriteStep ==
  ASSUME IInv, NEW s \in Subs, NEW E, StatusInv', Grows, Told(E), LinksInv', Goes(E),
         \A p \in Pairs : link'[p] # "none" => link[p] # "none" \/ (p[1] = s /\ Present(s)'),
         UNCHANGED bounces
  PROVE  IInv'
<1>1. AttachedInv'
  <2>1. \A p \in Pairs : p[1] \in Subs
    BY DEF Pairs
  <2>2. QED BY <2>1 DEF IInv, AttachedInv, Grows
<1>2. BouncesInv'
  <2>1. \A b \in Subs \X Types : b[1] \in Subs
    OBVIOUS
  <2>2. QED BY <2>1 DEF IInv, BouncesInv, Grows
<1>3. BouncedAreOut'
  BY DEF IInv, BouncedAreOut, Grows
<1>4. ReadInv'
  BY ReadStep DEF Grows
<1>5. QED BY <1>1, <1>2, <1>3, <1>4 DEF IInv, Goes

LEMMA KeepRestStep ==
  ASSUME RequestInv, UNCHANGED request
  PROVE  Goes({})
BY DEF RequestInv, Goes

(* A request goes on: its record is one the invariant allows.              *)
LEMMA RequestStep ==
  ASSUME RequestInv, NEW r \in Requests, NEW q \in RequestRecord,
         q.sub \in Subs \/ q = Idle,
         q.pc \in {"form", "prefs", "patch"} => q.read \in Statuses,
         request' = [request EXCEPT ![r] = q]
  PROVE  RequestInv' /\ (q.read = "none" => Goes({r}))
<1>1. request' \in [Requests -> RequestRecord]
  BY DEF RequestInv
<1>2. request'[r] = q /\ \A x \in Requests \ {r} : request'[x] = request[x]
  BY DEF RequestInv
<1>3. RequestInv'
  BY <1>1, <1>2 DEF RequestInv, Idle
<1>4. QED BY <1>2, <1>3 DEF Goes

LEMMA EndStep ==
  ASSUME RequestInv, NEW r \in Requests, End(r)
  PROVE  Goes({r})
<1> DEFINE q == Idle
<1>1. q \in RequestRecord /\ q.pc = "idle" /\ q.read = "none"
  BY DEF Idle, RequestPCs, RequestRecord
<1>2. QED BY <1>1, RequestStep DEF End

-----------------------------------------------------------------------------
(* What the writes of the subscriptions are.                               *)

LEMMA OfPairs ==
  ASSUME NEW s \in Subs, NEW L \in SUBSET Lists
  PROVE  /\ Of(s, L) \subseteq Pairs /\ AllOf(s) \subseteq Pairs
         /\ \A p \in Of(s, L) \cup AllOf(s) : p[1] = s
BY DEF Of, AllOf, Pairs

LEMMA UnsubscribedWrite ==
  ASSUME LinksInv, NEW P
  PROVE  /\ Unsubscribed(P) \in [Pairs -> Links \cup {"none"}]
         /\ \A p \in Pairs : /\ Unsubscribed(P)[p] = "none" <=> link[p] = "none"
                             /\ Unsubscribed(P)[p] = "confirmed" => link[p] = "confirmed"
                             /\ Unsubscribed(P)[p] \in Active => link[p] \in Active /\ p \notin P
BY DEF LinksInv, Unsubscribed, Links, Active

(* A write for one subscriber: each subscription stays, ends, waits for    *)
(* confirmation or is confirmed with proof; one that was left is renewed   *)
(* only for who asks for it.                                               *)
Allowed(s, new, proof, back) ==
  \A p \in Pairs :
    \/ new[p] = link[p]
    \/ p[1] = s /\ new[p] \in {"none", "unsubscribed"}
    \/ p[1] = s /\ new[p] = "unconfirmed" /\ (p \in left => p \in back)
    \/ p[1] = s /\ new[p] = "confirmed" /\ p \in proof /\ (p \in left => p \in back)

LEMMA LinkStep ==
  ASSUME IInv, NEW s \in Subs, NEW new \in [Pairs -> Links \cup {"none"}],
         NEW proof \in SUBSET Pairs, NEW back \in SUBSET Pairs, NEW quit \in SUBSET Pairs,
         Allowed(s, new, proof, back),
         \A p \in quit : new[p] \notin Active,
         SetLinks(new, proof, back, quit)
  PROVE  /\ LinksInv'
         /\ \A p \in Pairs : link'[p] # "none" => link[p] # "none" \/ p[1] = s
<1>1. LinksInv
  BY DEF IInv
<1>2. \A p \in left : p \in Pairs /\ link[p] = "unsubscribed"
  BY <1>1 DEF LinksInv, LeftStaysLeft
<1>3. \A p \in Pairs : new[p] = "confirmed" => link[p] = "confirmed" \/ p \in proof
  BY DEF Allowed
<1>4. \A p \in left : new[p] \in Active => p \in back
  BY <1>2 DEF Active, Allowed
<1>5. LinksInv'
  BY <1>1, <1>3, <1>4, SetLinksStep
<1>6. link' = new
  BY DEF SetLinks
<1>7. \A p \in Pairs : new[p] # "none" => link[p] # "none" \/ p[1] = s
  BY DEF Allowed
<1>8. QED BY <1>5, <1>6, <1>7

LEMMA UnsubscribeStep ==
  ASSUME IInv, NEW P, NEW quit \in SUBSET Pairs, quit \subseteq P,
         SetLinks(Unsubscribed(P), {}, {}, quit)
  PROVE  /\ LinksInv'
         /\ \A p \in Pairs : link'[p] # "none" => link[p] # "none"
<1> DEFINE new == Unsubscribed(P)
<1>1. LinksInv
  BY DEF IInv
<1>2. new \in [Pairs -> Links \cup {"none"}]
  BY <1>1, UnsubscribedWrite
<1>3. \A p \in Pairs : (new[p] = "none" <=> link[p] = "none") /\ (new[p] = "confirmed" => link[p] = "confirmed")
  BY <1>1, UnsubscribedWrite
<1>4. \A p \in Pairs : new[p] \in Active => link[p] \in Active /\ p \notin P
  BY <1>1, UnsubscribedWrite
<1>5. SetLinks(new, {}, {}, quit)
  OBVIOUS
<1> HIDE DEF new
<1>6. \A p \in left : p \in Pairs /\ link[p] \notin Active
  BY <1>1 DEF LinksInv, LeftStaysLeft, Active
<1>7. LinksInv'
  <2>1. \A p \in left : new[p] \notin Active
    BY <1>4, <1>6
  <2>2. \A p \in quit : new[p] \notin Active
    BY <1>4
  <2> DEFINE no == {}
  <2>3. no \in SUBSET Pairs /\ SetLinks(new, no, no, quit)
    BY <1>5
  <2>4. \A p \in Pairs : new[p] = "confirmed" => link[p] = "confirmed" \/ p \in no
    BY <1>3
  <2>5. \A p \in left : new[p] \in Active => p \in no
    BY <2>1
  <2> HIDE DEF no
  <2>6. QED BY <1>1, <1>2, <2>2, <2>3, <2>4, <2>5, SetLinksStep
<1>8. link' = new
  BY <1>5 DEF SetLinks
<1>9. QED BY <1>3, <1>7, <1>8

LEMMA WithListsStep ==
  ASSUME IInv, NEW s \in Subs, NEW st \in Statuses \cup {""}, NEW L \in SUBSET Lists,
         NEW sub \in {"confirmed", "unconfirmed"}, NEW gone, NEW back \in SUBSET Pairs,
         NEW proof \in SUBSET Pairs, sub = "confirmed" => proof = Of(s, L),
         SetLinks(WithLists(s, st, L, sub, gone, back), proof, back, {})
  PROVE  /\ LinksInv'
         /\ \A p \in Pairs : link'[p] # "none" => link[p] # "none" \/ p[1] = s
<1> DEFINE new == WithLists(s, st, L, sub, gone, back)
           quit == {}
<1>1. LinksInv /\ new = WithLists(s, st, L, sub, gone, back) /\ SetLinks(new, proof, back, quit)
  BY DEF IInv
<1> HIDE DEF new
<1>2. /\ new \in [Pairs -> Links \cup {"none"}]
      /\ \A p \in Pairs :
           /\ new[p] = "confirmed" => link[p] = "confirmed" \/ (p \in Of(s, L) /\ sub = "confirmed")
           /\ new[p] # "none" => link[p] # "none" \/ p \in Of(s, L)
           /\ new[p] \in Active => link[p] # "unsubscribed" \/ p \in back
  <2>1. DOMAIN link = Pairs
    BY <1>1 DEF LinksInv
  <2>2. \A p \in Pairs :
          new[p] = IF p \in Of(s, L) THEN
                     IF st = "blocklisted" THEN "unsubscribed"
                     ELSE IF link[p] = "confirmed" THEN "confirmed"
                     ELSE IF link[p] = "unsubscribed" /\ p \notin back THEN "unsubscribed" ELSE sub
                   ELSE IF p \in gone THEN "none" ELSE link[p]
    BY <1>1, <2>1 DEF WithLists
  <2>3. \A p \in Pairs : link[p] \in Links \cup {"none"}
    BY <1>1 DEF LinksInv
  <2>4. \A p \in Pairs : new[p] \in Links \cup {"none"}
    BY <2>2, <2>3 DEF Links, Active
  <2>5. new = [p \in Pairs |-> new[p]]
    BY <1>1, <2>1 DEF WithLists
  <2>6. new \in [Pairs -> Links \cup {"none"}]
    BY <2>4, <2>5
  <2>7. ASSUME NEW p \in Pairs
        PROVE  /\ new[p] = "confirmed" => link[p] = "confirmed" \/ (p \in Of(s, L) /\ sub = "confirmed")
               /\ new[p] # "none" => link[p] # "none" \/ p \in Of(s, L)
               /\ new[p] \in Active => link[p] # "unsubscribed" \/ p \in back
    <3>1. CASE p \in Of(s, L)
      BY <2>2, <3>1 DEF Active
    <3>2. CASE p \notin Of(s, L)
      BY <2>2, <3>2 DEF Active
    <3>3. QED BY <3>1, <3>2
  <2>8. QED BY <2>6, <2>7
<1>3. \A p \in Of(s, L) : p[1] = s
  BY OfPairs
<1>4. \A p \in Pairs : new[p] = "confirmed" => link[p] = "confirmed" \/ p \in proof
  BY <1>2
<1>5. \A p \in left : new[p] \in Active => p \in back
  BY <1>1, <1>2 DEF LinksInv, LeftStaysLeft
<1>6. quit \in SUBSET Pairs /\ \A p \in quit : new[p] \notin Active
  OBVIOUS
<1> HIDE DEF quit
<1>7. LinksInv'
  BY <1>1, <1>2, <1>4, <1>5, <1>6, SetLinksStep
<1>8. link' = new
  BY <1>1 DEF SetLinks
<1>9. QED BY <1>2, <1>3, <1>7, <1>8

(* A step that leaves the statuses, or the subscriptions, as they are.     *)
LEMMA LinkOnlyStep ==
  ASSUME IInv, NEW s \in Subs, Present(s), KeepStatus, LinksInv', Goes({}),
         \A p \in Pairs : link'[p] # "none" => link[p] # "none" \/ p[1] = s,
         UNCHANGED bounces
  PROVE  IInv'
<1>1. StatusInv' /\ Grows /\ Told({}) /\ Present(s)'
  BY KeepStatusStep
<1>2. QED BY <1>1, WriteStep

LEMMA RequestOnlyStep ==
  ASSUME IInv, UNCHANGED <<status, standing>>, KeepLinks, UNCHANGED bounces, RequestInv', ReadInv'
  PROVE  IInv'
<1>1. StatusInv' /\ Grows /\ \A t \in Subs : Present(t)' <=> Present(t)
  BY StatusStaysStep DEF IInv
<1>2. LinksInv'
  BY KeepLinksStep DEF IInv
<1>3. AttachedInv'
  BY <1>1 DEF IInv, AttachedInv, KeepLinks, Pairs
<1>4. BouncesInv'
  <2>1. \A b \in Subs \X Types : b[1] \in Subs
    OBVIOUS
  <2>2. QED BY <1>1, <2>1 DEF IInv, BouncesInv
<1>5. BouncedAreOut'
  BY <1>1 DEF IInv, BouncedAreOut, Grows
<1>6. QED BY <1>1, <1>2, <1>3, <1>4, <1>5 DEF IInv

(* A request forgets what it has read, or keeps it.                        *)
LEMMA ForgetStep ==
  ASSUME IInv, KeepStatus, KeepLinks, UNCHANGED bounces, NEW E, Goes(E)
  PROVE  IInv'
<1>1. Told(E) /\ \A t \in Subs : standing[t] # "free" => standing'[t] # "free"
  BY KeepStatusStep DEF Grows
<1>2. ReadInv'
  BY <1>1, ReadStep
<1>3. QED BY <1>2, RequestOnlyStep DEF KeepStatus, Goes

-----------------------------------------------------------------------------
(* The steps.  First those of a subscriber's pages.                        *)

LEMMA InsertStep ==
  ASSUME IInv, NEW s \in Subs, NEW st \in Statuses, NEW L \in SUBSET Lists,
         NEW sub \in {"confirmed", "unconfirmed"}, InsertSubscriber(s, st, L, sub), KeepRest
  PROVE  IInv'
<1> DEFINE new == [p \in DOMAIN link |-> IF p \in Of(s, L) THEN Unless(st, sub) ELSE link[p]]
           proof == IF sub = "confirmed" THEN Of(s, L) ELSE {}
           quit == {}
<1>1. Of(s, L) \subseteq Pairs /\ \A p \in Of(s, L) : p[1] = s
  BY OfPairs
<1>2. StatusInv' /\ Grows /\ Told({}) /\ Present(s)'
  BY RowStep DEF InsertSubscriber
<1>3. SetLinks(new, proof, Of(s, L), quit)
  BY DEF InsertSubscriber
<1>4. DOMAIN link = Pairs
  BY DEF IInv, LinksInv
<1>5. \A p \in Pairs : new[p] = IF p \in Of(s, L) THEN Unless(st, sub) ELSE link[p]
  BY <1>4
<1>6. new \in [Pairs -> Links \cup {"none"}]
  BY <1>4 DEF IInv, LinksInv, Unless, Links, Active
<1>7. proof \in SUBSET Pairs /\ quit \in SUBSET Pairs /\ \A p \in quit : new[p] \notin Active
  BY <1>1
<1> HIDE DEF new
<1>8. Allowed(s, new, proof, Of(s, L))
  BY <1>1, <1>5 DEF Unless, Allowed
<1> HIDE DEF proof, quit
<1>9. LinksInv' /\ \A p \in Pairs : link'[p] # "none" => link[p] # "none" \/ p[1] = s
  BY <1>1, <1>3, <1>6, <1>7, <1>8, LinkStep
<1>10. UNCHANGED bounces /\ Goes({})
  BY KeepRestStep DEF IInv, KeepRest
<1>11. QED BY <1>2, <1>9, <1>10, WriteStep

LEMMA SubscribeNewStep ==
  ASSUME IInv, NEW s \in Subs, NEW L \in SUBSET Lists, SubscribeNew(s, L)
  PROVE  IInv'
BY InsertStep DEF SubscribeNew, Statuses

LEMMA CreateSubscriberStep ==
  ASSUME IInv, NEW s \in Subs, NEW st \in Statuses, NEW L \in SUBSET Lists, NEW preconfirm \in BOOLEAN,
         CreateSubscriber(s, st, L, preconfirm)
  PROVE  IInv'
<1>1. Given(preconfirm) \in {"confirmed", "unconfirmed"}
  BY DEF Given
<1>2. QED BY <1>1, InsertStep DEF CreateSubscriber

LEMMA OpenStep ==
  ASSUME IInv, NEW r \in Requests, NEW s \in Subs, Present(s),
         NEW q \in RequestRecord, q.sub = s,
         q.pc \in {"form", "prefs", "patch"} => q.read = status[s],
         q.read \in {status[s], "none"},
         request' = [request EXCEPT ![r] = q],
         KeepStatus, KeepLinks, UNCHANGED bounces
  PROVE  IInv'
<1>1. q.pc \in {"form", "prefs", "patch"} => q.read \in Statuses
  BY DEF Present
<1>2. RequestInv'
  BY <1>1, RequestStep DEF IInv
<1>3. request'[r] = q /\ \A x \in Requests \ {r} : request'[x] = request[x]
  BY DEF IInv, RequestInv
<1>4. /\ status[s] = "blocklisted" => standing[s] # "free"
      /\ standing[s] = "barred" => status[s] = "blocklisted"
  BY DEF IInv, StatusInv, BarredStaysOut, Present, Statuses
<1>5. ReadInv'
  BY <1>3, <1>4 DEF IInv, ReadInv, KeepStatus
<1>6. QED BY <1>2, <1>5, RequestOnlyStep DEF KeepStatus

LEMMA SubscribeExistingStep ==
  ASSUME IInv, NEW r \in Requests, NEW s \in Subs, SubscribeExisting(r, s)
  PROVE  IInv'
<1> DEFINE q == [Idle EXCEPT !.pc = "form", !.sub = s, !.read = status[s]]
<1>1. /\ q \in RequestRecord /\ q.sub = s
      /\ q.read = status[s]
  BY DEF Idle, RequestPCs, RequestRecord, SubscribeExisting, Present
<1>2. Present(s) /\ request' = [request EXCEPT ![r] = q] /\ KeepStatus /\ KeepLinks /\ UNCHANGED bounces
  BY DEF SubscribeExisting
<1> HIDE DEF q
<1>3. QED BY <1>1, <1>2, OpenStep

LEMMA OpenPrefsStep ==
  ASSUME IInv, NEW r \in Requests, NEW s \in Subs, OpenPrefs(r, s)
  PROVE  IInv'
<1> DEFINE q == [Idle EXCEPT !.pc = "prefs", !.sub = s, !.read = status[s]]
<1>1. /\ q \in RequestRecord /\ q.sub = s
      /\ q.read = status[s]
  BY DEF Idle, RequestPCs, RequestRecord, OpenPrefs, Present
<1>2. Present(s) /\ request' = [request EXCEPT ![r] = q] /\ KeepStatus /\ KeepLinks /\ UNCHANGED bounces
  BY DEF OpenPrefs
<1> HIDE DEF q
<1>3. QED BY <1>1, <1>2, OpenStep

LEMMA OpenPatchStep ==
  ASSUME IInv, NEW r \in Requests, NEW s \in Subs, OpenPatch(r, s)
  PROVE  IInv'
<1> DEFINE q == [Idle EXCEPT !.pc = "patch", !.sub = s, !.read = status[s]]
<1>1. /\ q \in RequestRecord /\ q.sub = s
      /\ q.read = status[s]
  BY DEF Idle, RequestPCs, RequestRecord, OpenPatch, Present
<1>2. Present(s) /\ request' = [request EXCEPT ![r] = q] /\ KeepStatus /\ KeepLinks /\ UNCHANGED bounces
  BY DEF OpenPatch
<1> HIDE DEF q
<1>3. QED BY <1>1, <1>2, OpenStep

LEMMA OpenOptinStep ==
  ASSUME IInv, NEW r \in Requests, NEW s \in Subs, NEW L \in SUBSET Lists, OpenOptin(r, s, L)
  PROVE  IInv'
<1> DEFINE waiting == {l \in IF L = {} THEN Lists ELSE L : link[<<s, l>>] = "unconfirmed"}
           q == [Idle EXCEPT !.pc = "optin", !.sub = s, !.lists = IF L = {} THEN waiting ELSE L]
<1>1. waiting \subseteq Lists
  OBVIOUS
<1>2. Present(s) /\ request' = [request EXCEPT ![r] = q] /\ KeepStatus /\ KeepLinks /\ UNCHANGED bounces
  BY DEF OpenOptin
<1> HIDE DEF waiting
<1>3. q \in RequestRecord /\ q.sub = s /\ q.pc = "optin" /\ q.read = "none"
  BY <1>1 DEF Idle, RequestPCs, RequestRecord
<1> HIDE DEF q
<1>4. QED BY <1>2, <1>3, OpenStep

(* A request that is under way: its subscriber, and what it read.          *)
LEMMA Underway ==
  ASSUME IInv, NEW r \in Requests, request[r].pc # "idle"
  PROVE  /\ request[r].sub \in Subs /\ request[r].lists \in SUBSET Lists
         /\ request[r].pc \in {"form", "prefs", "patch"} => request[r].read \in Statuses
BY DEF IInv, RequestInv, RequestRecord

LEMMA ResubmitStep ==
  ASSUME IInv, NEW r \in Requests, NEW L \in SUBSET Lists, Resubmit(r, L)
  PROVE  IInv'
<1> DEFINE proof == {}
<1>1. PICK s \in Subs, st \in Statuses : s = request[r].sub /\ st = request[r].read
  BY Underway DEF Resubmit
<1>2. /\ Present(s) /\ WriteBack(r) /\ End(r) /\ UNCHANGED bounces
      /\ SetLinks(WithLists(s, st, L, "unconfirmed", {}, Of(s, L)), proof, Of(s, L), {})
  BY <1>1 DEF Resubmit
<1>3. StatusInv' /\ Grows /\ Told({r}) /\ Present(s)'
  BY <1>1, <1>2, WriteBackStep
<1>4. Of(s, L) \in SUBSET Pairs /\ proof \in SUBSET Pairs
  BY <1>1, OfPairs
<1> HIDE DEF proof
<1>5. LinksInv' /\ \A p \in Pairs : link'[p] # "none" => link[p] # "none" \/ p[1] = s
  BY <1>1, <1>2, <1>4, WithListsStep
<1>6. Goes({r})
  BY <1>2, EndStep DEF IInv
<1>7. QED BY <1>1, <1>2, <1>3, <1>5, <1>6, WriteStep

LEMMA GoneStep ==
  ASSUME IInv, NEW r \in Requests, Gone(r)
  PROVE  IInv'
<1>1. /\ End(r) /\ early' = early \ {r} /\ KeepLinks /\ UNCHANGED <<status, standing>>
      /\ UNCHANGED bounces
  BY DEF Gone
<1>2. Goes({r})
  BY <1>1, EndStep DEF IInv
<1>3. Told({r})
  BY <1>1 DEF Told, IInv, ReadInv
<1>4. ReadInv'
  BY <1>1, <1>2, <1>3, ReadStep
<1>5. QED BY <1>1, <1>2, <1>4, RequestOnlyStep DEF Goes

LEMMA CheckOptinStep ==
  ASSUME IInv, NEW r \in Requests, CheckOptin(r)
  PROVE  IInv'
<1>1. CASE status[request[r].sub] = "blocklisted"
  <2>1. Goes({r})
    BY <1>1, EndStep DEF IInv, CheckOptin
  <2>2. QED BY <2>1, ForgetStep DEF CheckOptin
<1>2. CASE status[request[r].sub] # "blocklisted"
  <2>1. KeepStatus /\ KeepLinks /\ UNCHANGED bounces
    BY DEF CheckOptin
  <2>2. Goes({})
    <3> DEFINE q == [request[r] EXCEPT !.pc = "confirm"]
    <3>1. request' = [request EXCEPT ![r] = q]
      BY <1>2 DEF CheckOptin, IInv, RequestInv
    <3>2. /\ q \in RequestRecord /\ q.sub \in Subs /\ q.pc = "confirm"
          /\ q.sub = request[r].sub /\ q.read = request[r].read
      BY Underway DEF CheckOptin, IInv, RequestInv, RequestPCs, RequestRecord
    <3> HIDE DEF q
    <3>3. RequestInv'
      BY <3>1, <3>2, RequestStep DEF IInv
    <3>4. QED BY <3>1, <3>2, <3>3 DEF Goes, IInv, RequestInv
  <2>3. QED BY <2>1, <2>2, ForgetStep
<1>3. QED BY <1>1, <1>2

(* The statement confirms subscriptions of a subscriber who exists, and    *)
(* none when the blocklist has come first.                                 *)
LEMMA ConfirmOptinStep ==
  ASSUME IInv, NEW r \in Requests, ConfirmOptin(r)
  PROVE  IInv'
<1> DEFINE s == request[r].sub
           P == IF Present(s) /\ status[s] # "blocklisted"
                THEN {p \in Of(s, request[r].lists) : link[p] # "none"} ELSE {}
           new == [p \in DOMAIN link |-> IF p \in P THEN "confirmed" ELSE link[p]]
           quit == {}
<1>1. s \in Subs /\ request[r].lists \in SUBSET Lists
  BY Underway DEF ConfirmOptin
<1>2. SetLinks(new, P, P, quit) /\ End(r) /\ KeepStatus /\ UNCHANGED bounces
  BY DEF ConfirmOptin
<1>3. P \in SUBSET Pairs /\ \A p \in P : p[1] = s /\ link[p] # "none"
  BY <1>1, OfPairs
<1>4. DOMAIN link = Pairs
  BY DEF IInv, LinksInv
<1> HIDE DEF P, s
<1>5. \A p \in Pairs : new[p] = IF p \in P THEN "confirmed" ELSE link[p]
  BY <1>4
<1>6. new \in [Pairs -> Links \cup {"none"}]
  BY <1>4 DEF IInv, LinksInv, Links, Active
<1> HIDE DEF new
<1>7. Allowed(s, new, P, P)
  BY <1>3, <1>5 DEF Allowed
<1>8. quit \in SUBSET Pairs /\ \A p \in quit : new[p] \notin Active
  OBVIOUS
<1> HIDE DEF quit
<1>9. LinksInv'
  BY <1>1, <1>2, <1>3, <1>6, <1>7, <1>8, LinkStep
<1>10. \A p \in Pairs : link'[p] # "none" => link[p] # "none"
  BY <1>2, <1>3, <1>5 DEF SetLinks
<1>11. Goes({r})
  BY <1>2, EndStep DEF IInv
<1>12. StatusInv' /\ Grows /\ Told({r})
  BY <1>2, KeepStatusStep DEF IInv
<1>13. QED BY <1>1, <1>2, <1>9, <1>10, <1>11, <1>12, WriteStep

LEMMA UnsubscribeByCampaignStep ==
  ASSUME IInv, NEW s \in Subs, NEW C \in SUBSET Lists, NEW blocklist \in BOOLEAN,
         UnsubscribeByCampaign(s, C, blocklist)
  PROVE  IInv'
<1> DEFINE P == IF blocklist THEN AllOf(s) ELSE Of(s, C)
<1>1. Present(s) /\ SetLinks(Unsubscribed(P), {}, {}, P) /\ KeepRest
  BY DEF UnsubscribeByCampaign
<1>2. P \in SUBSET Pairs
  BY OfPairs
<1> HIDE DEF P
<1>3. LinksInv' /\ \A p \in Pairs : link'[p] # "none" => link[p] # "none"
  BY <1>1, <1>2, UnsubscribeStep
<1>4. StatusInv' /\ Grows /\ Told({}) /\ Present(s)'
  <2>1. CASE blocklist
    <3>1. Bar(s, {})
      BY <2>1 DEF UnsubscribeByCampaign
    <3>2. QED BY <1>1, <3>1, BarStep
  <2>2. CASE ~blocklist
    <3>1. KeepStatus
      BY <2>2 DEF UnsubscribeByCampaign
    <3>2. QED BY <1>1, <3>1, KeepStatusStep DEF IInv
  <2>3. QED BY <2>1, <2>2
<1>5. UNCHANGED bounces /\ Goes({})
  BY <1>1, KeepRestStep DEF IInv, KeepRest
<1>6. QED BY <1>3, <1>4, <1>5, WriteStep

LEMMA ResubscribeByCampaignStep ==
  ASSUME IInv, NEW s \in Subs, NEW C \in SUBSET Lists, ResubscribeByCampaign(s, C)
  PROVE  IInv'
<1> DEFINE P == {p \in Of(s, C) : link[p] = "unsubscribed"}
           new == [p \in DOMAIN link |->
                     IF p \in P THEN IF p[2] \in Double THEN "confirmed" ELSE "unconfirmed" ELSE link[p]]
           quit == {}
<1>1. Present(s) /\ SetLinks(new, P, P, quit) /\ KeepStatus /\ KeepRest
  BY DEF ResubscribeByCampaign
<1>2. P \in SUBSET Pairs /\ \A p \in P : p[1] = s
  BY OfPairs
<1>3. DOMAIN link = Pairs
  BY DEF IInv, LinksInv
<1> HIDE DEF P
<1>4. \A p \in Pairs : new[p] = IF p \in P THEN IF p[2] \in Double THEN "confirmed" ELSE "unconfirmed" ELSE link[p]
  BY <1>3
<1>5. new \in [Pairs -> Links \cup {"none"}]
  BY <1>3 DEF IInv, LinksInv, Links, Active
<1> HIDE DEF new
<1>6. Allowed(s, new, P, P)
  BY <1>2, <1>4 DEF Allowed
<1>7. quit \in SUBSET Pairs /\ \A p \in quit : new[p] \notin Active
  OBVIOUS
<1> HIDE DEF quit
<1>8. LinksInv' /\ \A p \in Pairs : link'[p] # "none" => link[p] # "none" \/ p[1] = s
  BY <1>1, <1>2, <1>5, <1>6, <1>7, LinkStep
<1>9. UNCHANGED bounces /\ Goes({})
  BY <1>1, KeepRestStep DEF IInv, KeepRest
<1>10. QED BY <1>1, <1>8, <1>9, LinkOnlyStep

LEMMA SavePrefsStep ==
  ASSUME IInv, NEW r \in Requests, SavePrefs(r)
  PROVE  IInv'
<1>1. PICK s \in Subs, st \in Statuses : s = request[r].sub /\ st = request[r].read
  BY Underway DEF SavePrefs
<1> DEFINE q == [Idle EXCEPT !.pc = "leaving", !.sub = s]
<1>2. /\ Present(s) /\ WriteBack(r) /\ KeepLinks /\ UNCHANGED bounces
      /\ request' = [request EXCEPT ![r] = q]
  BY <1>1 DEF SavePrefs
<1>3. /\ q \in RequestRecord
      /\ q.sub \in Subs /\ q.pc = "leaving" /\ q.read = "none"
  BY <1>1 DEF Idle, RequestPCs, RequestRecord
<1> HIDE DEF q
<1>4. Goes({r})
  BY <1>2, <1>3, RequestStep DEF IInv
<1>5. StatusInv' /\ Grows /\ Told({r}) /\ Present(s)'
  BY <1>1, <1>2, WriteBackStep
<1>6. LinksInv'
  BY <1>2, KeepLinksStep DEF IInv
<1>7. \A p \in Pairs : link'[p] # "none" => link[p] # "none"
  BY <1>2 DEF KeepLinks
<1>8. QED BY <1>1, <1>2, <1>4, <1>5, <1>6, <1>7, WriteStep

LEMMA ReadPrefsStep ==
  ASSUME IInv, NEW r \in Requests, NEW kept, ReadPrefs(r, kept)
  PROVE  IInv'
<1> DEFINE rows == {l \in Public \ kept : link[<<request[r].sub, l>>] # "none"}
           q == [request[r] EXCEPT !.pc = "leave", !.lists = rows]
<1>1. request' = [request EXCEPT ![r] = q] /\ KeepStatus /\ KeepLinks /\ UNCHANGED bounces
  BY DEF ReadPrefs, IInv, RequestInv
<1>2. rows \in SUBSET Lists
  BY SubscriptionAssumption
<1> HIDE DEF rows
<1>3. /\ q \in RequestRecord /\ q.sub \in Subs /\ q.pc = "leave"
      /\ q.sub = request[r].sub /\ q.read = request[r].read
  BY <1>2, Underway DEF ReadPrefs, IInv, RequestInv, RequestPCs, RequestRecord
<1> HIDE DEF q
<1>4. RequestInv'
  BY <1>1, <1>3, RequestStep DEF IInv
<1>5. Goes({})
  BY <1>1, <1>3, <1>4 DEF Goes, IInv, RequestInv
<1>6. QED BY <1>1, <1>5, ForgetStep

(* The lists of a request whose subscriber has gone have no rows left.     *)
LEMMA LeaveListsStep ==
  ASSUME IInv, NEW r \in Requests, LeaveLists(r)
  PROVE  IInv'
<1>1. PICK s \in Subs, L \in SUBSET Lists : s = request[r].sub /\ L = request[r].lists
  BY Underway DEF LeaveLists
<1>2. SetLinks(Unsubscribed(Of(s, L)), {}, {}, Of(s, L)) /\ End(r) /\ KeepStatus /\ UNCHANGED bounces
  BY <1>1 DEF LeaveLists
<1>3. Of(s, L) \in SUBSET Pairs
  BY OfPairs
<1>4. LinksInv' /\ \A p \in Pairs : link'[p] # "none" => link[p] # "none"
  BY <1>2, <1>3, UnsubscribeStep
<1>5. StatusInv' /\ Grows /\ Told({r})
  BY <1>2, KeepStatusStep DEF IInv
<1>6. Goes({r})
  BY <1>2, EndStep DEF IInv
<1>7. QED BY <1>2, <1>4, <1>5, <1>6, WriteStep

-----------------------------------------------------------------------------
(* Those of admins.                                                        *)

LEMMA UpdateSubscriberStep ==
  ASSUME IInv, NEW s \in Subs, NEW st \in Statuses \cup {""}, NEW permitted \in Permissions,
         NEW L \in SUBSET permitted, NEW preconfirm \in BOOLEAN,
         UpdateSubscriber(s, st, permitted, L, preconfirm)
  PROVE  IInv'
<1> DEFINE sub == Given(preconfirm)
           proof == IF preconfirm THEN Of(s, L) ELSE {}
           back == {}
<1>1. L \in SUBSET Lists
  BY DEF Permissions
<1>2. /\ Present(s) /\ KeepRest
      /\ SetLinks(WithLists(s, st, L, sub, Of(s, permitted), back), proof, back, {})
  BY DEF UpdateSubscriber
<1>3. sub \in {"confirmed", "unconfirmed"} /\ (sub = "confirmed" => proof = Of(s, L))
  BY DEF Given
<1>4. proof \in SUBSET Pairs /\ back \in SUBSET Pairs
  BY <1>1, OfPairs
<1> HIDE DEF sub, proof, back
<1>5. LinksInv' /\ \A p \in Pairs : link'[p] # "none" => link[p] # "none" \/ p[1] = s
  BY <1>1, <1>2, <1>3, <1>4, WithListsStep
<1>6. StatusInv' /\ Grows /\ Told({}) /\ Present(s)'
  <2>1. CASE st = ""
    <3>1. KeepStatus
      BY <2>1 DEF UpdateSubscriber
    <3>2. QED BY <1>2, <3>1, KeepStatusStep
  <2>2. CASE st # ""
    <3>1. Decide(s, st, {}) /\ st \in Statuses
      BY <2>2 DEF UpdateSubscriber
    <3>2. QED BY <1>2, <3>1, DecideStep
  <2>3. QED BY <2>1, <2>2
<1>7. UNCHANGED bounces /\ Goes({})
  BY <1>2, KeepRestStep DEF IInv, KeepRest
<1>8. QED BY <1>5, <1>6, <1>7, WriteStep

LEMMA PatchSubscriberStep ==
  ASSUME IInv, NEW r \in Requests, NEW sent \in Statuses \cup {""}, NEW permitted \in Permissions,
         NEW lists \in BOOLEAN, NEW L \in SUBSET permitted, NEW preconfirm \in BOOLEAN,
         PatchSubscriber(r, sent, permitted, lists, L, preconfirm)
  PROVE  IInv'
<1>1. PICK s \in Subs, read \in Statuses : s = request[r].sub /\ read = request[r].read
  BY Underway DEF PatchSubscriber
<1> DEFINE st == IF sent = "" THEN read ELSE sent
           sub == Given(preconfirm)
           gone == IF lists THEN Of(s, permitted) ELSE {}
           proof == IF preconfirm THEN Of(s, L) ELSE {}
           back == {}
<1>2. /\ Present(s) /\ End(r) /\ UNCHANGED bounces
      /\ IF sent = "" THEN WriteBack(r) ELSE Decide(s, sent, {r})
      /\ SetLinks(WithLists(s, st, L, sub, gone, back), proof, back, {})
  BY <1>1 DEF PatchSubscriber
<1>3. sub \in {"confirmed", "unconfirmed"} /\ (sub = "confirmed" => proof = Of(s, L))
  BY DEF Given
<1>4. L \in SUBSET Lists
  BY DEF Permissions
<1>5. proof \in SUBSET Pairs /\ back \in SUBSET Pairs /\ st \in Statuses
  BY <1>4, OfPairs
<1> HIDE DEF st, sub, gone, proof, back
<1>6. LinksInv' /\ \A p \in Pairs : link'[p] # "none" => link[p] # "none" \/ p[1] = s
  BY <1>2, <1>3, <1>4, <1>5, WithListsStep
<1>7. StatusInv' /\ Grows /\ Told({r}) /\ Present(s)'
  <2>1. CASE sent = ""
    BY <1>1, <1>2, <2>1, WriteBackStep
  <2>2. CASE sent # ""
    <3>1. Decide(s, sent, {r}) /\ sent \in Statuses /\ {r} \in SUBSET Requests
      BY <1>2, <2>2
    <3>2. QED BY <1>2, <3>1, DecideStep
  <2>3. QED BY <2>1, <2>2
<1>8. Goes({r})
  BY <1>2, EndStep DEF IInv
<1>9. QED BY <1>2, <1>6, <1>7, <1>8, WriteStep

(* Blocklist and UpsertBlocklisted.                                        *)
LEMMA BlocklistedStep ==
  ASSUME IInv, NEW s \in Subs, Present(s) \/ Fresh(s), Bar(s, {}),
         SetLinks(Unsubscribed(AllOf(s)), {}, {}, {}), KeepRest
  PROVE  IInv'
<1> DEFINE quit == {}
<1>1. SetLinks(Unsubscribed(AllOf(s)), {}, {}, quit) /\ quit \in SUBSET Pairs /\ quit \subseteq AllOf(s)
  OBVIOUS
<1> HIDE DEF quit
<1>2. LinksInv' /\ \A p \in Pairs : link'[p] # "none" => link[p] # "none"
  BY <1>1, UnsubscribeStep
<1>3. StatusInv' /\ Grows /\ Told({}) /\ Present(s)'
  BY BarStep
<1>4. UNCHANGED bounces /\ Goes({})
  BY KeepRestStep DEF IInv, KeepRest
<1>5. QED BY <1>2, <1>3, <1>4, WriteStep

LEMMA AddSubscriptionsStep ==
  ASSUME IInv, NEW s \in Subs, NEW L \in SUBSET Lists, NEW sub \in Links \cup {""}, AddSubscriptions(s, L, sub)
  PROVE  IInv'
<1> DEFINE new == [p \in DOMAIN link |->
                     IF p \notin Of(s, L) THEN link[p]
                     ELSE IF sub # "" THEN sub
                     ELSE IF link[p] = "none" THEN "unconfirmed" ELSE link[p]]
           vouched == IF sub = "confirmed" THEN Of(s, L) ELSE {}
           asked == IF sub # "" THEN Of(s, L) ELSE {}
           quit == {}
<1>1. Present(s) /\ SetLinks(new, vouched, asked, quit) /\ KeepStatus /\ KeepRest
  BY DEF AddSubscriptions
<1>2. Of(s, L) \subseteq Pairs /\ \A p \in Of(s, L) : p[1] = s
  BY OfPairs
<1>3. vouched \in SUBSET Pairs /\ asked \in SUBSET Pairs /\ quit \in SUBSET Pairs
  BY <1>2
<1>4. DOMAIN link = Pairs /\ \A p \in left : link[p] = "unsubscribed"
  BY DEF IInv, LinksInv, LeftStaysLeft
<1>5. \A p \in Pairs : new[p] = IF p \notin Of(s, L) THEN link[p]
                                ELSE IF sub # "" THEN sub
                                ELSE IF link[p] = "none" THEN "unconfirmed" ELSE link[p]
  BY <1>4
<1>6. new \in [Pairs -> Links \cup {"none"}]
  BY <1>4 DEF IInv, LinksInv, Links, Active
<1> HIDE DEF new
<1>7. Allowed(s, new, vouched, asked)
  BY <1>2, <1>4, <1>5 DEF Links, Active, Allowed
<1>8. \A p \in quit : new[p] \notin Active
  OBVIOUS
<1> HIDE DEF vouched, asked, quit
<1>9. LinksInv' /\ \A p \in Pairs : link'[p] # "none" => link[p] # "none" \/ p[1] = s
  BY <1>1, <1>3, <1>6, <1>7, <1>8, LinkStep
<1>10. UNCHANGED bounces /\ Goes({})
  BY <1>1, KeepRestStep DEF IInv, KeepRest
<1>11. QED BY <1>1, <1>9, <1>10, LinkOnlyStep

LEMMA AddSubscriptionsByQueryStep ==
  ASSUME IInv, NEW s \in Subs, NEW L \in SUBSET Lists, NEW sub \in Links \cup {""},
         AddSubscriptionsByQuery(s, L, sub)
  PROVE  IInv'
<1> DEFINE P == {p \in Of(s, L) : link[p] = "none"}
           new == [p \in DOMAIN link |-> IF p \in P THEN IF sub # "" THEN sub ELSE "unconfirmed" ELSE link[p]]
           vouched == IF sub = "confirmed" THEN P ELSE {}
           asked == {}
           quit == {}
<1>1. Present(s) /\ SetLinks(new, vouched, asked, quit) /\ KeepStatus /\ KeepRest
  BY DEF AddSubscriptionsByQuery
<1>2. P \subseteq Pairs /\ \A p \in P : p[1] = s
  BY OfPairs
<1>3. vouched \in SUBSET Pairs /\ asked \in SUBSET Pairs /\ quit \in SUBSET Pairs
  BY <1>2
<1>4. DOMAIN link = Pairs /\ \A p \in left : link[p] = "unsubscribed"
  BY DEF IInv, LinksInv, LeftStaysLeft
<1>5. \A p \in Pairs : new[p] = IF p \in P THEN IF sub # "" THEN sub ELSE "unconfirmed" ELSE link[p]
  BY <1>4
<1>6. new \in [Pairs -> Links \cup {"none"}]
  BY <1>4 DEF IInv, LinksInv, Links, Active
<1> HIDE DEF new
<1>7. Allowed(s, new, vouched, asked)
  BY <1>2, <1>4, <1>5 DEF Links, Active, Allowed
<1>8. \A p \in quit : new[p] \notin Active
  OBVIOUS
<1> HIDE DEF vouched, asked, quit
<1>9. LinksInv' /\ \A p \in Pairs : link'[p] # "none" => link[p] # "none" \/ p[1] = s
  BY <1>1, <1>3, <1>6, <1>7, <1>8, LinkStep
<1>10. UNCHANGED bounces /\ Goes({})
  BY <1>1, KeepRestStep DEF IInv, KeepRest
<1>11. QED BY <1>1, <1>9, <1>10, LinkOnlyStep

LEMMA DeleteSubscriptionsStep ==
  ASSUME IInv, NEW s \in Subs, NEW L \in SUBSET Lists,
         DeleteSubscriptions(s, L)
  PROVE  IInv'
<1> DEFINE new == [p \in DOMAIN link |-> IF p \in Of(s, L) THEN "none" ELSE link[p]]
           vouched == {}
           asked == {}
           quit == {}
<1>1. Present(s) /\ SetLinks(new, vouched, asked, quit) /\ KeepStatus /\ KeepRest
  BY DEF DeleteSubscriptions
<1>2. Of(s, L) \subseteq Pairs /\ \A p \in Of(s, L) : p[1] = s
  BY OfPairs
<1>3. vouched \in SUBSET Pairs /\ asked \in SUBSET Pairs /\ quit \in SUBSET Pairs
  BY <1>2
<1>4. DOMAIN link = Pairs /\ \A p \in left : link[p] = "unsubscribed"
  BY DEF IInv, LinksInv, LeftStaysLeft
<1>5. \A p \in Pairs : new[p] = IF p \in Of(s, L) THEN "none" ELSE link[p]
  BY <1>4
<1>6. new \in [Pairs -> Links \cup {"none"}]
  BY <1>4 DEF IInv, LinksInv, Links, Active
<1> HIDE DEF new
<1>7. Allowed(s, new, vouched, asked)
  BY <1>2, <1>4, <1>5 DEF Links, Active, Allowed
<1>8. \A p \in quit : new[p] \notin Active
  OBVIOUS
<1> HIDE DEF vouched, asked, quit
<1>9. LinksInv' /\ \A p \in Pairs : link'[p] # "none" => link[p] # "none" \/ p[1] = s
  BY <1>1, <1>3, <1>6, <1>7, <1>8, LinkStep
<1>10. UNCHANGED bounces /\ Goes({})
  BY <1>1, KeepRestStep DEF IInv, KeepRest
<1>11. QED BY <1>1, <1>9, <1>10, LinkOnlyStep

LEMMA ConfirmSubscriptionsStep ==
  ASSUME IInv, NEW s \in Subs, NEW L \in SUBSET Lists,
         ConfirmSubscriptions(s, L)
  PROVE  IInv'
<1> DEFINE P == {p \in Of(s, L) : link[p] = "unconfirmed"}
           new == [p \in DOMAIN link |-> IF p \in P THEN "confirmed" ELSE link[p]]
           vouched == P
           asked == {}
           quit == {}
<1>1. Present(s) /\ SetLinks(new, vouched, asked, quit) /\ KeepStatus /\ KeepRest
  BY DEF ConfirmSubscriptions
<1>2. P \subseteq Pairs /\ \A p \in P : p[1] = s
  BY OfPairs
<1>3. vouched \in SUBSET Pairs /\ asked \in SUBSET Pairs /\ quit \in SUBSET Pairs
  BY <1>2
<1>4. DOMAIN link = Pairs /\ \A p \in left : link[p] = "unsubscribed"
  BY DEF IInv, LinksInv, LeftStaysLeft
<1>5. \A p \in Pairs : new[p] = IF p \in P THEN "confirmed" ELSE link[p]
  BY <1>4
<1>6. new \in [Pairs -> Links \cup {"none"}]
  BY <1>4 DEF IInv, LinksInv, Links, Active
<1> HIDE DEF new
<1>7. Allowed(s, new, vouched, asked)
  BY <1>2, <1>4, <1>5 DEF Links, Active, Allowed
<1>8. \A p \in quit : new[p] \notin Active
  OBVIOUS
<1> HIDE DEF vouched, asked, quit
<1>9. LinksInv' /\ \A p \in Pairs : link'[p] # "none" => link[p] # "none" \/ p[1] = s
  BY <1>1, <1>3, <1>6, <1>7, <1>8, LinkStep
<1>10. UNCHANGED bounces /\ Goes({})
  BY <1>1, KeepRestStep DEF IInv, KeepRest
<1>11. QED BY <1>1, <1>9, <1>10, LinkOnlyStep

LEMMA UnsubscribeListsStep ==
  ASSUME IInv, NEW s \in Subs, NEW L \in SUBSET Lists, UnsubscribeLists(s, L)
  PROVE  IInv'
<1> DEFINE quit == {}
<1>1. /\ Present(s) /\ KeepStatus /\ KeepRest
      /\ SetLinks(Unsubscribed(Of(s, L)), {}, {}, quit) /\ quit \in SUBSET Pairs /\ quit \subseteq Of(s, L)
  BY DEF UnsubscribeLists
<1> HIDE DEF quit
<1>2. LinksInv' /\ \A p \in Pairs : link'[p] # "none" => link[p] # "none"
  BY <1>1, UnsubscribeStep
<1>3. UNCHANGED bounces /\ Goes({})
  BY <1>1, KeepRestStep DEF IInv, KeepRest
<1>4. QED BY <1>1, <1>2, <1>3, LinkOnlyStep

(* Subscriptions end, of as many subscribers as there are.                 *)
LEMMA LinksEndStep ==
  ASSUME LinksInv, NEW P \in SUBSET Pairs,
         SetLinks([p \in DOMAIN link |-> IF p \in P THEN "none" ELSE link[p]], {}, {}, {})
  PROVE  /\ LinksInv'
         /\ \A p \in Pairs : link'[p] = IF p \in P THEN "none" ELSE link[p]
<1> DEFINE new == [p \in DOMAIN link |-> IF p \in P THEN "none" ELSE link[p]]
           no == {}
<1>1. DOMAIN link = Pairs /\ (\A p \in left : link[p] = "unsubscribed") /\ left \subseteq Pairs
  BY DEF LinksInv, LeftStaysLeft
<1>2. \A p \in Pairs : new[p] = IF p \in P THEN "none" ELSE link[p]
  BY <1>1
<1>3. new \in [Pairs -> Links \cup {"none"}]
  BY <1>1 DEF LinksInv
<1>4. SetLinks(new, no, no, no) /\ no \in SUBSET Pairs
  OBVIOUS
<1> HIDE DEF new
<1>5. \A p \in no : new[p] \notin Active
  OBVIOUS
<1> HIDE DEF no
<1>6. \A p \in Pairs : new[p] = "confirmed" => link[p] = "confirmed" \/ p \in no
  BY <1>2
<1>7. \A p \in left : new[p] \in Active => p \in no
  BY <1>1, <1>2 DEF Active
<1>8. LinksInv'
  BY <1>3, <1>4, <1>5, <1>6, <1>7, SetLinksStep
<1>9. link' = new
  BY <1>4 DEF SetLinks
<1>10. QED BY <1>2, <1>8, <1>9

LEMMA DeleteUnconfirmedStep ==
  ASSUME IInv, NEW P \in SUBSET (Subs \X Double), DeleteUnconfirmedSubscriptions(P)
  PROVE  IInv'
<1>1. P \in SUBSET Pairs
  BY SubscriptionAssumption DEF Pairs
<1>2. /\ SetLinks([p \in DOMAIN link |-> IF p \in P THEN "none" ELSE link[p]], {}, {}, {})
      /\ KeepStatus /\ KeepRest
  BY DEF DeleteUnconfirmedSubscriptions
<1>3. LinksInv' /\ \A p \in Pairs : link'[p] # "none" => link[p] # "none"
  BY <1>1, <1>2, LinksEndStep DEF IInv
<1>4. StatusInv' /\ Grows /\ Told({}) /\ \A t \in Subs : Present(t)' <=> Present(t)
  BY <1>2, KeepStatusStep DEF IInv
<1>5. UNCHANGED bounces /\ Goes({})
  BY <1>2, KeepRestStep DEF IInv, KeepRest
<1>6. AttachedInv'
  BY <1>3, <1>4 DEF IInv, AttachedInv, Pairs
<1>7. BouncesInv'
  <2>1. \A b \in Subs \X Types : b[1] \in Subs
    OBVIOUS
  <2>2. QED BY <1>4, <1>5, <2>1 DEF IInv, BouncesInv
<1>8. BouncedAreOut'
  BY <1>4, <1>5 DEF IInv, BouncedAreOut, Grows
<1>9. ReadInv'
  BY <1>4, <1>5, ReadStep DEF Grows
<1>10. QED BY <1>3, <1>4, <1>5, <1>6, <1>7, <1>8, <1>9 DEF IInv, Goes

(* Everything of a subscriber goes with the row.                           *)
LEMMA DeleteStep ==
  ASSUME IInv, NEW s \in Subs, Present(s), Delete(s), UNCHANGED request
  PROVE  IInv'
<1>1. status'[s] = "deleted" /\ (\A t \in Subs \ {s} : status'[t] = status[t]) /\ UNCHANGED <<standing, early>>
  BY DEF Delete, SetStatus, IInv, StatusInv
<1>2. status' \in [Subs -> Statuses \cup {"none", "deleted"}]
  BY DEF Delete, SetStatus, IInv, StatusInv
<1>3. ~Present(s)' /\ \A t \in Subs \ {s} : Present(t)' <=> Present(t)
  BY <1>1 DEF Present, Statuses
<1>4. StatusInv'
  <2>1. \A t, u \in Subs : Present(t)' /\ Present(u)' /\ t # u => EmailOf[t] # EmailOf[u]
    BY <1>3 DEF IInv, StatusInv
  <2>2. \A t \in Subs : status'[t] = "blocklisted" => standing'[t] # "free"
    BY <1>1 DEF IInv, StatusInv
  <2>3. BarredStaysOut'
    BY <1>1 DEF IInv, StatusInv, BarredStaysOut
  <2>4. QED BY <1>1, <1>2, <2>1, <2>2, <2>3 DEF IInv, StatusInv
<1>5. AllOf(s) \in SUBSET Pairs /\ \A p \in Pairs : p[1] = s => p \in AllOf(s)
  BY DEF AllOf, Pairs
<1>6. LinksInv' /\ \A p \in Pairs : link'[p] = IF p \in AllOf(s) THEN "none" ELSE link[p]
  BY <1>5, LinksEndStep DEF IInv, Delete
<1>7. AttachedInv'
  BY <1>3, <1>5, <1>6 DEF IInv, AttachedInv, Pairs
<1>8. bounces' = [b \in Subs \X Types |-> IF b[1] = s THEN 0 ELSE bounces[b]]
  BY DEF Delete, IInv, BouncesInv
<1>9. BouncesInv'
  <2>1. bounces' \in [Subs \X Types -> Nat]
    BY <1>8 DEF IInv, BouncesInv
  <2>2. \A b \in Subs \X Types : bounces'[b] <= Count[b[2]] /\ (bounces'[b] > 0 => Present(b[1])')
    BY <1>3, <1>8, SubscriptionAssumption DEF IInv, BouncesInv
  <2>3. QED BY <2>1, <2>2 DEF BouncesInv
<1>10. BouncedAreOut'
  <2> SUFFICES ASSUME NEW t \in Subs, NEW k \in Types, Action[k] = "blocklist", bounces'[<<t, k>>] >= Count[k]
               PROVE  standing'[t] # "free"
    BY DEF BouncedAreOut
  <2>1. bounces'[<<t, k>>] = IF t = s THEN 0 ELSE bounces[<<t, k>>]
    BY <1>8
  <2>2. Count[k] \in Nat \ {0}
    BY SubscriptionAssumption
  <2>3. t # s
    BY <2>1, <2>2
  <2>4. QED BY <1>1, <2>1, <2>3 DEF IInv, BouncedAreOut
<1>11. Goes({})
  BY KeepRestStep DEF IInv
<1>12. ReadInv'
  <2>1. Told({})
    BY <1>1 DEF Told, IInv, ReadInv
  <2>2. QED BY <1>1, <1>11, <2>1, ReadStep
<1>13. QED BY <1>4, <1>6, <1>7, <1>9, <1>10, <1>11, <1>12 DEF IInv, Goes

LEMMA DeleteBouncesStep ==
  ASSUME IInv, NEW s \in Subs,
         NEW kept \in [Types -> UNION {0 .. Count[t] : t \in Types}], DeleteBounces(s, kept)
  PROVE  IInv'
<1>1. KeepStatus /\ KeepLinks /\ UNCHANGED request
  BY DEF DeleteBounces
<1>2. /\ bounces' \in [Subs \X Types -> Nat]
      /\ \A b \in Subs \X Types : bounces'[b] <= bounces[b]
  <2>1. \A t \in Types : kept[t] \in Nat /\ kept[t] <= bounces[<<s, t>>]
    BY SubscriptionAssumption DEF DeleteBounces
  <2>2. bounces \in [Subs \X Types -> Nat]
    BY DEF IInv, BouncesInv
  <2>3. bounces' = [b \in Subs \X Types |-> IF b[1] = s THEN kept[b[2]] ELSE bounces[b]]
    BY <2>2 DEF DeleteBounces
  <2>4. ASSUME NEW b \in Subs \X Types
        PROVE  bounces'[b] \in Nat /\ bounces'[b] <= bounces[b]
    <3>1. b = <<b[1], b[2]>> /\ b[2] \in Types /\ bounces[b] \in Nat
      BY <2>2
    <3>2. CASE b[1] = s
      BY <2>1, <2>3, <3>1, <3>2
    <3>3. CASE b[1] # s
      BY <2>3, <3>1, <3>3
    <3>4. QED BY <3>2, <3>3
  <2>5. QED BY <2>3, <2>4
<1>3. StatusInv' /\ Grows /\ Told({}) /\ \A t \in Subs : Present(t)' <=> Present(t)
  BY <1>1, KeepStatusStep DEF IInv
<1>4. LinksInv'
  BY <1>1, KeepLinksStep DEF IInv
<1>5. AttachedInv'
  BY <1>1, <1>3 DEF IInv, AttachedInv, KeepLinks, Pairs
<1>6. BouncesInv'
  <2>1. bounces' \in [Subs \X Types -> Nat] /\ \A b \in Subs \X Types : bounces'[b] <= bounces[b]
    BY <1>2
  <2>2. \A b \in Subs \X Types : b[1] \in Subs /\ b[2] \in Types /\ Count[b[2]] \in Nat
    BY SubscriptionAssumption
  <2>3. \A b \in Subs \X Types : bounces'[b] \in Nat /\ bounces[b] \in Nat
    BY <2>1 DEF IInv, BouncesInv
  <2>4. QED BY <1>3, <2>1, <2>2, <2>3 DEF IInv, BouncesInv
<1>7. BouncedAreOut'
  <2>1. standing' = standing
    BY <1>1 DEF KeepStatus
  <2>2. \A t \in Subs, c \in Types : bounces'[<<t, c>>] \in Nat /\ bounces[<<t, c>>] \in Nat
                                     /\ bounces'[<<t, c>>] <= bounces[<<t, c>>] /\ Count[c] \in Nat
    BY <1>2, SubscriptionAssumption DEF IInv, BouncesInv
  <2>3. QED BY <2>1, <2>2 DEF IInv, BouncedAreOut
<1>8. Goes({})
  BY <1>1, KeepRestStep DEF IInv
<1>9. ReadInv'
  BY <1>3, <1>8, ReadStep DEF Grows
<1>10. QED BY <1>3, <1>4, <1>5, <1>6, <1>7, <1>8, <1>9 DEF IInv, Goes

-----------------------------------------------------------------------------
(* Those of imports and of bounces.                                        *)

LEMMA UpsertSubscriberStep ==
  ASSUME IInv, NEW s \in Subs, NEW L \in SUBSET Lists, NEW sub \in Links, NEW overwrite \in BOOLEAN,
         UpsertSubscriber(s, L, sub, overwrite)
  PROVE  IInv'
<1> DEFINE given == Unless(status[s], sub)
           kept(p) == ~overwrite /\ link[p] # "none"
           new == [p \in DOMAIN link |->
                     IF p \notin Of(s, L) THEN link[p]
                     ELSE IF overwrite \/ link[p] = "none" THEN given ELSE link[p]]
           vouched == IF sub = "confirmed" THEN Of(s, L) ELSE {}
           asked == IF overwrite THEN Of(s, L) ELSE {}
           quit == {}
<1>1. (Present(s) \/ Fresh(s)) /\ SetLinks(new, vouched, asked, quit) /\ KeepRest
  BY DEF UpsertSubscriber
<1>2. Of(s, L) \subseteq Pairs /\ \A p \in Of(s, L) : p[1] = s
  BY OfPairs
<1>3. vouched \in SUBSET Pairs /\ asked \in SUBSET Pairs /\ quit \in SUBSET Pairs
  BY <1>2
<1>4. DOMAIN link = Pairs /\ \A p \in left : link[p] = "unsubscribed"
  BY DEF IInv, LinksInv, LeftStaysLeft
<1>5. \A p \in Pairs : new[p] = IF p \notin Of(s, L) THEN link[p]
                                ELSE IF overwrite \/ link[p] = "none" THEN given ELSE link[p]
  BY <1>4
<1>6. given \in Links /\ (given = "confirmed" => sub = "confirmed")
  BY DEF Unless, Links
<1> HIDE DEF given
<1>7. new \in [Pairs -> Links \cup {"none"}]
  BY <1>4, <1>6 DEF IInv, LinksInv
<1> HIDE DEF new
<1>8. Allowed(s, new, vouched, asked)
  <2> SUFFICES ASSUME NEW p \in Pairs
               PROVE  \/ new[p] = link[p]
                      \/ p[1] = s /\ new[p] \in {"none", "unsubscribed"}
                      \/ p[1] = s /\ new[p] = "unconfirmed" /\ (p \in left => p \in asked)
                      \/ p[1] = s /\ new[p] = "confirmed" /\ p \in vouched /\ (p \in left => p \in asked)
    BY DEF Allowed
  <2>1. CASE p \notin Of(s, L)
    BY <1>5, <2>1
  <2>2. CASE p \in Of(s, L)
    <3>1. new[p] = link[p] \/ (new[p] = given /\ (p \in left => p \in asked))
      BY <1>4, <1>5, <2>2
    <3>2. p[1] = s
      BY <1>2, <2>2
    <3>3. QED BY <1>6, <2>2, <3>1, <3>2 DEF Links, Active
  <2>3. QED BY <2>1, <2>2
<1>9. \A p \in quit : new[p] \notin Active
  OBVIOUS
<1> HIDE DEF vouched, asked, quit
<1>10. LinksInv' /\ \A p \in Pairs : link'[p] # "none" => link[p] # "none" \/ p[1] = s
  BY <1>1, <1>3, <1>7, <1>8, <1>9, LinkStep
<1>11. StatusInv' /\ Grows /\ Told({}) /\ Present(s)'
  <2>1. CASE Present(s)
    <3>1. KeepStatus
      BY <2>1 DEF UpsertSubscriber
    <3>2. QED BY <2>1, <3>1, KeepStatusStep DEF IInv
  <2>2. CASE ~Present(s)
    <3>1. Fresh(s) /\ Insert(s, "enabled") /\ "enabled" \in Statuses
      BY <1>1, <2>2 DEF UpsertSubscriber, Statuses
    <3>2. QED BY <3>1, RowStep
  <2>3. QED BY <2>1, <2>2
<1>12. UNCHANGED bounces /\ Goes({})
  BY <1>1, KeepRestStep DEF IInv, KeepRest
<1>13. QED BY <1>10, <1>11, <1>12, WriteStep

(* The one step that adds a bounce: whoever gets to the threshold is       *)
(* blocklisted in the same statement.                                      *)
LEMMA RecordBounceStep ==
  ASSUME IInv, NEW s \in Subs, NEW k \in Types, RecordBounce(s, k)
  PROVE  IInv'
<1> DEFINE num == bounces[<<s, k>>] + 1
           act == IF num >= Count[k] THEN Action[k] ELSE "none"
           out == status[s] = "blocklisted"
<1>1. Present(s) /\ UNCHANGED request
  BY DEF RecordBounce
<1>2. CASE act = "delete" /\ Delete(s)
  BY <1>1, <1>2, DeleteStep
<1>3. CASE act # "delete" /\ ~(act = "delete" /\ Delete(s))
  <2>1. /\ IF act = "blocklist" /\ ~out THEN Bar(s, {}) ELSE KeepStatus
        /\ IF act = "unsubscribe" /\ ~out THEN SetLinks(Unsubscribed(AllOf(s)), {}, {}, {}) ELSE KeepLinks
        /\ bounces' = [bounces EXCEPT ![<<s, k>>] = IF out \/ num > Count[k] THEN @ ELSE num]
    BY <1>3 DEF RecordBounce
  <2>2. StatusInv' /\ Grows /\ Told({}) /\ Present(s)' /\ (act = "blocklist" => standing'[s] # "free")
    <3>1. CASE act = "blocklist" /\ ~out
      <4>1. Bar(s, {})
        BY <2>1, <3>1
      <4>2. QED BY <1>1, <4>1, BarStep
    <3>2. CASE ~(act = "blocklist" /\ ~out)
      <4>1. KeepStatus
        BY <2>1, <3>2
      <4>2. StatusInv' /\ Grows /\ Told({}) /\ Present(s)'
        BY <1>1, <4>1, KeepStatusStep
      <4>3. out => standing'[s] # "free"
        BY <4>1 DEF KeepStatus, IInv, StatusInv
      <4>4. QED BY <3>2, <4>2, <4>3
    <3>3. QED BY <3>1, <3>2
  <2>3. LinksInv' /\ \A p \in Pairs : link'[p] # "none" => link[p] # "none"
    <3>1. CASE act = "unsubscribe" /\ ~out
      <4> DEFINE quit == {}
      <4>1. SetLinks(Unsubscribed(AllOf(s)), {}, {}, quit) /\ quit \in SUBSET Pairs /\ quit \subseteq AllOf(s)
        BY <2>1, <3>1
      <4> HIDE DEF quit
      <4>2. QED BY <4>1, UnsubscribeStep
    <3>2. CASE ~(act = "unsubscribe" /\ ~out)
      <4>1. KeepLinks
        BY <2>1, <3>2
      <4>2. LinksInv'
        BY <4>1, KeepLinksStep DEF IInv
      <4>3. QED BY <4>1, <4>2 DEF KeepLinks
    <3>3. QED BY <3>1, <3>2
  <2>4. bounces[<<s, k>>] \in Nat /\ Count[k] \in Nat
    BY SubscriptionAssumption DEF IInv, BouncesInv
  <2>5. bounces[<<s, k>>] <= Count[k]
    BY DEF IInv, BouncesInv
  <2>6. /\ bounces'[<<s, k>>] = IF out \/ num > Count[k] THEN bounces[<<s, k>>] ELSE num
        /\ \A b \in Subs \X Types : b # <<s, k>> => bounces'[b] = bounces[b]
        /\ bounces' \in [Subs \X Types -> Nat]
    BY <2>1, <2>4 DEF IInv, BouncesInv
  <2>7. bounces'[<<s, k>>] <= Count[k]
    BY <2>4, <2>5, <2>6
  <2>8. AttachedInv'
    BY <2>2, <2>3 DEF IInv, AttachedInv, Grows, Pairs
  <2>9. BouncesInv'
    <3>1. \A b \in Subs \X Types : b[1] \in Subs /\ (b = <<s, k>> => b[1] = s /\ b[2] = k)
      OBVIOUS
    <3>2. ASSUME NEW b \in Subs \X Types PROVE bounces'[b] <= Count[b[2]] /\ (bounces'[b] > 0 => Present(b[1])')
      <4>1. CASE b = <<s, k>>
        BY <2>2, <2>7, <3>1, <4>1
      <4>2. CASE b # <<s, k>>
        BY <2>2, <2>6, <3>1, <4>2 DEF IInv, BouncesInv, Grows
      <4>3. QED BY <4>1, <4>2
    <3>3. QED BY <2>6, <3>2 DEF BouncesInv
  <2>10. BouncedAreOut'
    <3> SUFFICES ASSUME NEW t \in Subs, NEW c \in Types, Action[c] = "blocklist", bounces'[<<t, c>>] >= Count[c]
                 PROVE  standing'[t] # "free"
      BY DEF BouncedAreOut
    <3>1. CASE <<t, c>> = <<s, k>>
      <4>1. t = s /\ c = k
        BY <3>1
      <4>2. CASE num >= Count[k]
        BY <2>2, <4>1, <4>2
      <4>3. CASE ~(num >= Count[k])
        BY <2>4, <2>6, <4>1, <4>3
      <4>4. QED BY <4>2, <4>3
    <3>2. CASE <<t, c>> # <<s, k>>
      BY <2>2, <2>6, <3>2 DEF IInv, BouncedAreOut, Grows
    <3>3. QED BY <3>1, <3>2
  <2>11. Goes({})
    BY <1>1, KeepRestStep DEF IInv
  <2>12. ReadInv'
    BY <2>2, <2>11, ReadStep DEF Grows
  <2>13. QED BY <2>2, <2>3, <2>8, <2>9, <2>10, <2>11, <2>12 DEF IInv, Goes
<1>4. QED BY <1>2, <1>3 DEF RecordBounce

-----------------------------------------------------------------------------
(* The invariant, and what follows from it.                                *)

LEMMA InitIInv == Init => IInv
<1> SUFFICES ASSUME Init PROVE IInv
  OBVIOUS
<1>1. StatusInv
  BY DEF Init, StatusInv, Standings, Present, Statuses, BarredStaysOut
<1>2. LinksInv
  BY DEF Init, LinksInv, Pairs, LeftStaysLeft
<1>3. BouncesInv
  <2>1. \A b \in Subs \X Types : Count[b[2]] \in Nat \ {0}
    BY SubscriptionAssumption
  <2>2. QED BY <2>1 DEF Init, BouncesInv
<1>4. AttachedInv
  BY DEF Init, AttachedInv, Pairs
<1>5. RequestInv /\ ReadInv
  BY DEF Init, RequestInv, RequestRecord, ReadInv, Idle, RequestPCs
<1>6. BouncedAreOut
  BY SubscriptionAssumption DEF Init, BouncedAreOut
<1>7. QED BY <1>1, <1>2, <1>3, <1>4, <1>5, <1>6 DEF IInv

LEMMA PageStep == ASSUME IInv, NEW s \in Subs, Page(s) PROVE IInv'
BY SubscribeNewStep, ResubscribeByCampaignStep, UnsubscribeByCampaignStep, OpenOptinStep,
   SubscribeExistingStep, OpenPrefsStep, OpenPatchStep DEF Page

LEMMA ContinueStep == ASSUME IInv, NEW r \in Requests, Continue(r) PROVE IInv'
BY GoneStep, CheckOptinStep, ConfirmOptinStep, SavePrefsStep, LeaveListsStep, ResubmitStep,
   ReadPrefsStep, PatchSubscriberStep DEF Continue

LEMMA AdminStep == ASSUME IInv, NEW s \in Subs, Admin(s) PROVE IInv'
<1>1. CASE Blocklist(s)
  BY <1>1, BlocklistedStep DEF Blocklist
<1>2. CASE DeleteSubscribers(s)
  BY <1>2, DeleteStep DEF DeleteSubscribers
<1>3. QED
  BY <1>1, <1>2, CreateSubscriberStep, UpdateSubscriberStep, AddSubscriptionsStep,
     AddSubscriptionsByQueryStep, DeleteSubscriptionsStep, ConfirmSubscriptionsStep,
     UnsubscribeListsStep, DeleteBouncesStep DEF Admin

LEMMA ImportStep == ASSUME IInv, NEW s \in Subs, Import(s) PROVE IInv'
<1>1. CASE UpsertBlocklisted(s)
  BY <1>1, BlocklistedStep DEF UpsertBlocklisted
<1>2. QED BY <1>1, UpsertSubscriberStep DEF Import

LEMMA NextIInv == IInv /\ [Next]_vars => IInv'
<1> SUFFICES ASSUME IInv, [Next]_vars PROVE IInv'
  OBVIOUS
<1>1. CASE Next
  BY <1>1, PageStep, AdminStep, ImportStep, RecordBounceStep, ContinueStep, DeleteUnconfirmedStep DEF Next
<1>2. CASE UNCHANGED vars
  <2>1. KeepStatus /\ KeepLinks /\ UNCHANGED <<bounces, request>>
    BY <1>2 DEF vars, KeepStatus, KeepLinks
  <2>2. QED BY <2>1, ForgetStep, KeepRestStep DEF IInv
<1>3. QED BY <1>1, <1>2

(* The invariant holds in every state.                                     *)
THEOREM Invariance == Spec => []IInv
BY InitIInv, NextIInv, PTL DEF Spec

(* Each variable keeps its type, and rows stay attached to a subscriber    *)
(* who exists.                                                             *)
THEOREM TypeCorrect == Spec => []TypeOK
<1>1. IInv => TypeOK
  BY DEF IInv, StatusInv, LinksInv, BouncesInv, AttachedInv, RequestInv, RequestRecord, ReadInv,
         TypeOK, Pairs, Standings, RequestPCs
<1>2. QED BY <1>1, Invariance, PTL

(* A subscription its owner has left stays left (update-subscriber-with-   *)
(* lists, upsert-subscriber), until it is renewed in so many words.        *)
THEOREM LeftIsLeft == Spec => []LeftStaysLeft
<1>1. IInv => LeftStaysLeft
  BY DEF IInv, LinksInv
<1>2. QED BY <1>1, Invariance, PTL

(* A blocklisted subscriber stays so (every statement that writes a        *)
(* status), but for an admin's explicit status and for a request that had  *)
(* read the row before.                                                    *)
THEOREM BarredIsBarred == Spec => []BarredStaysOut
<1>1. IInv => BarredStaysOut
  BY DEF IInv, StatusInv
<1>2. QED BY <1>1, Invariance, PTL

(* Whoever next-campaign-subscribers returns has not left the list, is not *)
(* barred, and has confirmed a double opt-in.                              *)
THEOREM MailIsForTheWilling == Spec => []MailIsWanted
<1>1. IInv => MailIsWanted
  <2> SUFFICES ASSUME IInv, NEW p \in Subs \X Lists, Eligible(p)
               PROVE  /\ p \notin left /\ standing[p[1]] # "barred"
                      /\ p[2] \in Double => p \in proven
    BY DEF MailIsWanted
  <2>1. p[1] \in Subs /\ p \in Pairs
    BY DEF Pairs
  <2>2. link[p] \in Active
    BY DEF Eligible, Active
  <2>3. p \notin left
    BY <2>2 DEF IInv, LinksInv, LeftStaysLeft, Active
  <2>4. standing[p[1]] # "barred"
    BY <2>1 DEF IInv, StatusInv, BarredStaysOut, Eligible, Present, Statuses
  <2>5. p[2] \in Double => p \in proven
    BY <2>1 DEF IInv, LinksInv, Eligible
  <2>6. QED BY <2>3, <2>4, <2>5
<1>2. QED BY <1>1, Invariance, PTL

(* Nobody reaches the threshold of bounces without being blocklisted       *)
(* (record-bounce counts and acts in one statement).                       *)
THEOREM BouncersAreOut == Spec => []BouncedAreOut
<1>1. IInv => BouncedAreOut
  BY DEF IInv
<1>2. QED BY <1>1, Invariance, PTL
=============================================================================
