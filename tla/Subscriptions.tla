----------------------------- MODULE Subscriptions -----------------------------
(* Who is on which list of a workspace, and who may be mailed: every write *)
(* of subscribers.status and subscriber_lists.status, by the subscriber's  *)
(* pages, by admins, by imports and by bounces (cmd/public.go,             *)
(* cmd/subscribers.go, internal/core/subscribers.go, subscriptions.go,     *)
(* bounces.go, queries/subscribers.sql, bounces.sql).  One statement of    *)
(* PostgreSQL is one step; a request that reads a row and writes it back   *)
(* later is two.  The rows a bulk call names don't depend on each other.   *)
EXTENDS Naturals, FiniteSets

CONSTANTS
  Subs,      \* rows of subscribers: an ID is not used again once deleted
  NoSub,
  EmailOf,   \* the address of a row
  Lists,
  Double,    \* lists with double opt-in
  Public,
  Types,     \* of bounces
  Count, Action,  \* bounce.actions: threshold and action for each type
  Requests   \* requests that read a row and write it back

ASSUME SubscriptionAssumption ==
  /\ NoSub \notin Subs
  /\ Double \subseteq Lists /\ Public \subseteq Lists
  /\ Count \in [Types -> Nat \ {0}]
  /\ Action \in [Types -> {"none", "blocklist", "unsubscribe", "delete"}]

VARIABLES
  status,    \* subscribers.status, "none" before and "deleted" after its row
  link,      \* subscriber_lists.status, "none" without a row
  bounces,   \* rows of bounces of each type
  request,
  proven,    \* history: subscriptions confirmed by their owner or for them
  left,      \* history: subscriptions their owner has left
  standing,  \* history: what was last decided of a subscriber's blocklisting
  early      \* history: requests that read a row before it was blocklisted

vars == <<status, link, bounces, request, proven, left, standing, early>>

Statuses == {"enabled", "disabled", "blocklisted"}
Active == {"unconfirmed", "confirmed"}
Links == Active \cup {"unsubscribed"}
Idle == [pc |-> "idle", sub |-> NoSub, read |-> "none", lists |-> {}]
Present(s) == status[s] \in Statuses
Fresh(s) == /\ status[s] = "none"
            /\ \A t \in Subs : Present(t) => EmailOf[t] # EmailOf[s]

Init ==
  /\ status = [s \in Subs |-> "none"]
  /\ link = [p \in Subs \X Lists |-> "none"]
  /\ bounces = [b \in Subs \X Types |-> 0]
  /\ request = [r \in Requests |-> Idle]
  /\ proven = {} /\ left = {}
  /\ standing = [s \in Subs |-> "free"] /\ early = {}

-----------------------------------------------------------------------------
(* What is written, with its history: "proof" are the subscriptions the    *)
(* call vouches for, "back" those somebody asks to be on again, "quit"     *)
(* those their owner leaves.                                               *)

SetLinks(new, proof, back, quit) ==
  /\ link' = new
  /\ proven' = {p \in proven \cup proof : new[p] = "confirmed"}
  /\ left' = {p \in (left \ {q \in back : new[q] \in Active}) \cup quit : new[p] # "none"}

KeepLinks == UNCHANGED <<link, proven, left>>

KeepStatus == UNCHANGED <<status, standing, early>>
SetStatus(s, st) == status' = [status EXCEPT ![s] = st]

(* A subscriber is blocklisted, by whatever means: from then on "barred".  *)
(* A request that has read the row before knows nothing of it; "ended" are *)
(* those over with this step.                                              *)
Bar(s, ended) ==
  /\ SetStatus(s, "blocklisted")
  /\ standing' = [standing EXCEPT ![s] = "barred"]
  /\ early' = (early \cup {r \in Requests : request[r].sub = s /\ request[r].read \in {"enabled", "disabled"}})
                 \ ended

(* An admin asks for a status in so many words.                            *)
Decide(s, st, ended) ==
  IF st = "blocklisted" THEN Bar(s, ended)
  ELSE /\ SetStatus(s, st)
       /\ standing' = [standing EXCEPT ![s] = IF @ = "barred" THEN "readmitted" ELSE @]
       /\ early' = early \ ended

(* A request writes back the status it has read, and is over.              *)
WriteBack(r) ==
  /\ SetStatus(request[r].sub, request[r].read)
  /\ standing' = [standing EXCEPT ![request[r].sub] =
                     IF @ = "barred" /\ r \in early THEN "overtaken" ELSE @]
  /\ early' = early \ {r}

(* A row is new: nothing was decided of it but to blocklist it.            *)
Insert(s, st) ==
  IF st = "blocklisted" THEN Bar(s, {})
  ELSE SetStatus(s, st) /\ UNCHANGED <<standing, early>>

KeepRest == UNCHANGED <<bounces, request>>
End(r) == request' = [request EXCEPT ![r] = Idle]

Unless(st, sub) == IF st = "blocklisted" THEN "unsubscribed" ELSE sub
AllOf(s) == {s} \X Lists
Of(s, L) == {s} \X L

Unsubscribed(P) == [p \in DOMAIN link |-> IF p \in P /\ link[p] # "none" THEN "unsubscribed" ELSE link[p]]

(* insert-subscriber *)
InsertSubscriber(s, st, L, sub) ==
  /\ Fresh(s)
  /\ Insert(s, st)
  /\ SetLinks([p \in DOMAIN link |-> IF p \in Of(s, L) THEN Unless(st, sub) ELSE link[p]],
              IF sub = "confirmed" THEN Of(s, L) ELSE {}, Of(s, L), {})

WithListsAny(s, st, L, sub, gone, back) ==  \* mutant: any row that exists counts as confirmed
  [p \in DOMAIN link |->
     IF p \in Of(s, L) THEN
       IF st = "blocklisted" THEN "unsubscribed"
       ELSE IF link[p] \in {"confirmed", "unsubscribed"} /\ p \in back THEN "confirmed"
       ELSE IF link[p] = "unsubscribed" THEN "unsubscribed" ELSE sub
     ELSE IF p \in gone THEN "none" ELSE link[p]]
WithListsReset(s, st, L, sub, gone, back) ==  \* mutant: an edit does not retain the status
  [p \in DOMAIN link |->
     IF p \in Of(s, L) THEN
       IF link[p] = "confirmed" /\ st # "blocklisted" THEN "confirmed" ELSE Unless(st, sub)
     ELSE IF p \in gone THEN "none" ELSE link[p]]

(* update-subscriber-with-lists: what becomes of the subscriptions;        *)
(* those "gone" are deleted unless they are asked for, those "back" are    *)
(* renewed although they were left.                                        *)
WithLists(s, st, L, sub, gone, back) ==
  [p \in DOMAIN link |->
     IF p \in Of(s, L) THEN
       IF st = "blocklisted" THEN "unsubscribed"
       ELSE IF link[p] = "confirmed" THEN "confirmed"
       ELSE IF link[p] = "unsubscribed" /\ p \notin back THEN "unsubscribed" ELSE sub
     ELSE IF p \in gone THEN "none" ELSE link[p]]

-----------------------------------------------------------------------------
(* The subscriber's own pages.                                             *)

(* subscribe, of an address that is new ...                                *)
SubscribeNew(s, L) ==
  /\ L \subseteq Public /\ L # {}
  /\ InsertSubscriber(s, "enabled", L, "unconfirmed")
  /\ KeepRest

(* ... and of one that is not: the row is read when the insert conflicts,  *)
SubscribeExisting(r, s) ==
  /\ request[r] = Idle /\ Present(s)
  /\ request' = [request EXCEPT ![r] = [Idle EXCEPT !.pc = "form", !.sub = s, !.read = status[s]]]
  /\ KeepStatus /\ KeepLinks /\ UNCHANGED bounces

(* and written back, status included, with the lists that were asked for.  *)
Resubmit(r, L) ==
  LET s == request[r].sub IN
  /\ request[r].pc = "form" /\ Present(s)
  /\ L \subseteq Public /\ L # {}
  /\ WriteBack(r)
  /\ SetLinks(WithLists(s, request[r].read, L, "unconfirmed", {}, Of(s, L)), {}, Of(s, L), {})
  /\ End(r) /\ UNCHANGED bounces

(* A row that has gone meanwhile ends the request with an error.           *)
Gone(r) ==
  /\ request[r].pc \in {"form", "patch", "prefs", "leaving"} /\ ~Present(request[r].sub)
  /\ End(r) /\ early' = early \ {r}
  /\ KeepLinks /\ UNCHANGED <<status, standing, bounces>>

(* OptinPage: the subscriptions of the link that wait for confirmation;    *)
OpenOptin(r, s, L) ==
  LET waiting == {l \in IF L = {} THEN Lists ELSE L : link[<<s, l>>] = "unconfirmed"} IN
  /\ request[r] = Idle /\ Present(s)
  /\ waiting # {}
  /\ request' = [request EXCEPT ![r] =
                    [Idle EXCEPT !.pc = "optin", !.sub = s, !.lists = IF L = {} THEN waiting ELSE L]]
  /\ KeepStatus /\ KeepLinks /\ UNCHANGED bounces

(* a blocklisted subscriber is turned away;                                *)
CheckOptin(r) ==
  /\ request[r].pc = "optin"
  /\ IF status[request[r].sub] = "blocklisted"
     THEN End(r)
     ELSE request' = [request EXCEPT ![r].pc = "confirm"]
  /\ KeepStatus /\ KeepLinks /\ UNCHANGED bounces

(* confirm-subscription-optin asks for the status once more.               *)
ConfirmOptin(r) ==
  LET s == request[r].sub
      P == IF Present(s) /\ status[s] # "blocklisted"
           THEN {p \in Of(s, request[r].lists) : link[p] # "none"} ELSE {} IN
  /\ request[r].pc = "confirm"
  /\ SetLinks([p \in DOMAIN link |-> IF p \in P THEN "confirmed" ELSE link[p]], P, P, {})
  /\ End(r)
  /\ KeepStatus /\ UNCHANGED bounces

(* SubscriptionPrefs, without and with the preferences to manage: "C" are  *)
(* the lists of the campaign the link came with.                           *)
UnsubscribeByCampaign(s, C, blocklist) ==
  LET P == IF blocklist THEN AllOf(s) ELSE Of(s, C) IN
  /\ Present(s)
  /\ SetLinks(Unsubscribed(P), {}, {}, P)
  /\ IF blocklist THEN Bar(s, {}) ELSE KeepStatus
  /\ KeepRest

ResubscribeByCampaign(s, C) ==
  LET P == {p \in Of(s, C) : link[p] = "unsubscribed"} IN
  /\ Present(s) /\ status[s] # "blocklisted"
  /\ SetLinks([p \in DOMAIN link |->
                 IF p \in P THEN IF p[2] \in Double THEN "confirmed" ELSE "unconfirmed"
                 ELSE link[p]], P, P, {})
  /\ KeepStatus /\ KeepRest

OpenPrefs(r, s) ==
  /\ request[r] = Idle /\ Present(s)
  /\ request' = [request EXCEPT ![r] = [Idle EXCEPT !.pc = "prefs", !.sub = s, !.read = status[s]]]
  /\ KeepStatus /\ KeepLinks /\ UNCHANGED bounces

(* update-subscriber writes the whole row, for a name that has changed.    *)
SavePrefs(r) ==
  LET s == request[r].sub IN
  /\ request[r].pc = "prefs" /\ Present(s)
  /\ WriteBack(r)
  /\ request' = [request EXCEPT ![r] = [Idle EXCEPT !.pc = "leaving", !.sub = s]]
  /\ KeepLinks /\ UNCHANGED bounces

ReadPrefs(r, kept) ==
  LET s == request[r].sub IN
  /\ request[r].pc = "leaving" /\ Present(s)
  /\ request' = [request EXCEPT ![r] =
                    [@ EXCEPT !.pc = "leave",
                              !.lists = {l \in Public \ kept : link[<<s, l>>] # "none"}]]
  /\ KeepStatus /\ KeepLinks /\ UNCHANGED bounces

LeaveLists(r) ==
  LET P == Of(request[r].sub, request[r].lists) IN
  /\ request[r].pc = "leave"
  /\ SetLinks(Unsubscribed(P), {}, {}, P)
  /\ End(r)
  /\ KeepStatus /\ UNCHANGED bounces

-----------------------------------------------------------------------------
(* Admins.                                                                 *)

(* The lists a caller may manage; the query takes no list for all of them. *)
Permissions == SUBSET Lists \ {{}}
Given(preconfirm) == IF preconfirm THEN "confirmed" ELSE "unconfirmed"

CreateSubscriber(s, st, L, preconfirm) ==
  /\ InsertSubscriber(s, st, L, Given(preconfirm))
  /\ KeepRest

(* PUT replaces the subscriptions to the lists the caller is permitted; an *)
(* edit doesn't renew one that was left.  An empty status is kept.         *)
UpdateSubscriber(s, st, permitted, L, preconfirm) ==
  /\ Present(s)
  /\ IF st = "" THEN KeepStatus ELSE Decide(s, st, {})
  /\ SetLinks(WithLists(s, st, L, Given(preconfirm), Of(s, permitted), {}),
              IF preconfirm THEN Of(s, L) ELSE {}, {}, {})
  /\ KeepRest

(* PATCH reads the row, and writes it back with what the request has.      *)
OpenPatch(r, s) ==
  /\ request[r] = Idle /\ Present(s)
  /\ request' = [request EXCEPT ![r] = [Idle EXCEPT !.pc = "patch", !.sub = s, !.read = status[s]]]
  /\ KeepStatus /\ KeepLinks /\ UNCHANGED bounces

PatchSubscriber(r, sent, permitted, lists, L, preconfirm) ==
  LET s == request[r].sub
      st == IF sent = "" THEN request[r].read ELSE sent IN
  /\ request[r].pc = "patch" /\ Present(s)
  /\ ~lists => L = {}
  /\ IF sent = "" THEN WriteBack(r) ELSE Decide(s, sent, {r})
  /\ SetLinks(WithLists(s, st, L, Given(preconfirm), IF lists THEN Of(s, permitted) ELSE {}, {}),
              IF preconfirm THEN Of(s, L) ELSE {}, {}, {})
  /\ End(r) /\ UNCHANGED bounces

Blocklist(s) ==
  /\ Present(s)
  /\ Bar(s, {})
  /\ SetLinks(Unsubscribed(AllOf(s)), {}, {}, {})
  /\ KeepRest

(* add-subscribers-to-lists: a status that is given holds for every row.   *)
AddSubscriptions(s, L, sub) ==
  /\ Present(s)
  /\ SetLinks([p \in DOMAIN link |->
                 IF p \notin Of(s, L) THEN link[p]
                 ELSE IF sub # "" THEN sub
                 ELSE IF link[p] = "none" THEN "unconfirmed" ELSE link[p]],
              IF sub = "confirmed" THEN Of(s, L) ELSE {},
              IF sub # "" THEN Of(s, L) ELSE {}, {})
  /\ KeepStatus /\ KeepRest

(* The same for the subscribers of a query leaves existing rows alone.     *)
AddSubscriptionsByQuery(s, L, sub) ==
  LET P == {p \in Of(s, L) : link[p] = "none"} IN
  /\ Present(s)
  /\ SetLinks([p \in DOMAIN link |->
                 IF p \in P THEN IF sub # "" THEN sub ELSE "unconfirmed" ELSE link[p]],
              IF sub = "confirmed" THEN P ELSE {}, {}, {})
  /\ KeepStatus /\ KeepRest

DeleteSubscriptions(s, L) ==
  /\ Present(s)
  /\ SetLinks([p \in DOMAIN link |-> IF p \in Of(s, L) THEN "none" ELSE link[p]], {}, {}, {})
  /\ KeepStatus /\ KeepRest

ConfirmSubscriptions(s, L) ==
  LET P == {p \in Of(s, L) : link[p] = "unconfirmed"} IN
  /\ Present(s)
  /\ SetLinks([p \in DOMAIN link |-> IF p \in P THEN "confirmed" ELSE link[p]], P, {}, {})
  /\ KeepStatus /\ KeepRest

UnsubscribeLists(s, L) ==
  /\ Present(s)
  /\ SetLinks(Unsubscribed(Of(s, L)), {}, {}, {})
  /\ KeepStatus /\ KeepRest

(* Those made before a date the caller chooses.                            *)
DeleteUnconfirmedSubscriptions(P) ==
  /\ \A p \in P : p[2] \in Double /\ link[p] = "unconfirmed"
  /\ SetLinks([p \in DOMAIN link |-> IF p \in P THEN "none" ELSE link[p]], {}, {}, {})
  /\ KeepStatus /\ KeepRest

DeleteRow(s) ==  \* mutant: no cascade
  /\ SetStatus(s, "deleted")
  /\ SetLinks([p \in DOMAIN link |-> IF p \in AllOf(s) THEN "none" ELSE link[p]], {}, {}, {})
  /\ UNCHANGED <<bounces, standing, early>>

(* Rows of the other tables go with the subscriber's.                      *)
Delete(s) ==
  /\ SetStatus(s, "deleted")
  /\ SetLinks([p \in DOMAIN link |-> IF p \in AllOf(s) THEN "none" ELSE link[p]], {}, {}, {})
  /\ bounces' = [b \in DOMAIN bounces |-> IF b[1] = s THEN 0 ELSE bounces[b]]
  /\ UNCHANGED <<standing, early>>

DeleteSubscribers(s) == Present(s) /\ Delete(s) /\ UNCHANGED request

(* All of a subscriber's, or the rows an admin picks.                      *)
DeleteBounces(s, kept) ==
  /\ \A t \in Types : kept[t] <= bounces[<<s, t>>]
  /\ bounces' = [b \in DOMAIN bounces |-> IF b[1] = s THEN kept[b[2]] ELSE bounces[b]]
  /\ KeepStatus /\ KeepLinks /\ UNCHANGED request

-----------------------------------------------------------------------------
(* Imports and bounces.                                                    *)

UpsertEnables(s, L, sub, overwrite) ==  \* mutant: the update sets the status, as the insert does
  /\ Present(s) \/ Fresh(s)
  /\ Insert(s, "enabled")
  /\ SetLinks([p \in DOMAIN link |->
                 IF p \notin Of(s, L) THEN link[p]
                 ELSE IF overwrite \/ link[p] = "none" THEN sub ELSE link[p]],
              IF sub = "confirmed" THEN Of(s, L) ELSE {},
              IF overwrite THEN Of(s, L) ELSE {}, {})
  /\ KeepRest

(* upsert-subscriber *)
UpsertSubscriber(s, L, sub, overwrite) ==
  LET given == Unless(status[s], sub) IN
  /\ Present(s) \/ Fresh(s)
  /\ IF Present(s) THEN KeepStatus ELSE Insert(s, "enabled")
  /\ SetLinks([p \in DOMAIN link |->
                 IF p \notin Of(s, L) THEN link[p]
                 ELSE IF overwrite \/ link[p] = "none" THEN given ELSE link[p]],
              IF sub = "confirmed" THEN Of(s, L) ELSE {},
              IF overwrite THEN Of(s, L) ELSE {}, {})
  /\ KeepRest

(* upsert-blocklist-subscriber *)
UpsertBlocklisted(s) ==
  /\ Present(s) \/ Fresh(s)
  /\ Bar(s, {})
  /\ SetLinks(Unsubscribed(AllOf(s)), {}, {}, {})
  /\ KeepRest

(* RecordBounce: the bounce is counted before it is recorded, and is not   *)
(* recorded for a blocklisted subscriber or over the threshold.            *)
RecordBounceLate(s, t) ==  \* mutant: acts past the threshold only
  LET num == bounces[<<s, t>>] + 1
      act == IF num > Count[t] THEN Action[t] ELSE "none"
      out == status[s] = "blocklisted" IN
  /\ Present(s) /\ UNCHANGED request
  /\ \/ act = "delete" /\ Delete(s)
     \/ /\ act # "delete"
        /\ IF act = "blocklist" /\ ~out THEN Bar(s, {}) ELSE KeepStatus
        /\ IF act = "unsubscribe" /\ ~out THEN SetLinks(Unsubscribed(AllOf(s)), {}, {}, {}) ELSE KeepLinks
        /\ bounces' = [bounces EXCEPT ![<<s, t>>] = IF out \/ num > Count[t] THEN @ ELSE num]

RecordBounce(s, t) ==
  LET num == bounces[<<s, t>>] + 1
      act == IF num >= Count[t] THEN Action[t] ELSE "none"
      out == status[s] = "blocklisted" IN
  /\ Present(s) /\ UNCHANGED request
  /\ \/ act = "delete" /\ Delete(s)
     \/ /\ act # "delete"
        /\ IF act = "blocklist" /\ ~out THEN Bar(s, {}) ELSE KeepStatus
        /\ IF act = "unsubscribe" /\ ~out THEN SetLinks(Unsubscribed(AllOf(s)), {}, {}, {}) ELSE KeepLinks
        /\ bounces' = [bounces EXCEPT ![<<s, t>>] = IF out \/ num > Count[t] THEN @ ELSE num]

-----------------------------------------------------------------------------
Page(s) ==
  \/ \E L \in SUBSET Lists :
       \/ SubscribeNew(s, L) \/ ResubscribeByCampaign(s, L)
       \/ \E blocklist \in BOOLEAN : UnsubscribeByCampaign(s, L, blocklist)
       \/ \E r \in Requests : OpenOptin(r, s, L)
  \/ \E r \in Requests : SubscribeExisting(r, s) \/ OpenPrefs(r, s) \/ OpenPatch(r, s)

Continue(r) ==
  \/ Gone(r) \/ CheckOptin(r) \/ ConfirmOptin(r) \/ SavePrefs(r) \/ LeaveLists(r)
  \/ \E L \in SUBSET Lists : Resubmit(r, L) \/ ReadPrefs(r, L)
  \/ \E sent \in Statuses \cup {""}, permitted \in Permissions, lists, preconfirm \in BOOLEAN :
       \E L \in SUBSET permitted : PatchSubscriber(r, sent, permitted, lists, L, preconfirm)

Admin(s) ==
  \/ \E L \in SUBSET Lists :
       \/ \E st \in Statuses, preconfirm \in BOOLEAN : CreateSubscriber(s, st, L, preconfirm)
       \/ \E sub \in Links \cup {""} : AddSubscriptions(s, L, sub) \/ AddSubscriptionsByQuery(s, L, sub)
       \/ DeleteSubscriptions(s, L) \/ ConfirmSubscriptions(s, L) \/ UnsubscribeLists(s, L)
  \/ \E st \in Statuses \cup {""}, permitted \in Permissions, preconfirm \in BOOLEAN :
       \E L \in SUBSET permitted : UpdateSubscriber(s, st, permitted, L, preconfirm)
  \/ Blocklist(s) \/ DeleteSubscribers(s)
  \/ \E kept \in [Types -> UNION {0 .. Count[t] : t \in Types}] : DeleteBounces(s, kept)

Import(s) ==
  \/ \E L \in SUBSET Lists, sub \in Links, overwrite \in BOOLEAN :
       UpsertSubscriber(s, L, sub, overwrite)
  \/ UpsertBlocklisted(s)

Next ==
  \/ \E s \in Subs : Page(s) \/ Admin(s) \/ Import(s) \/ \E t \in Types : RecordBounce(s, t)
  \/ \E r \in Requests : Continue(r)
  \/ \E P \in SUBSET (Subs \X Double) : DeleteUnconfirmedSubscriptions(P)

Spec == Init /\ [][Next]_vars

-----------------------------------------------------------------------------
(* Properties.                                                             *)

(* next-campaign-subscribers: whom a regular campaign of a list mails.     *)
Eligible(p) ==
  /\ Present(p[1]) /\ status[p[1]] # "blocklisted"
  /\ IF p[2] \in Double THEN link[p] = "confirmed" ELSE link[p] \in Active

(* Types; no two rows of an address; only a subscriber that exists is on a *)
(* list or has bounces, and not more of them than are acted upon.          *)
TypeOK ==
  /\ status \in [Subs -> Statuses \cup {"none", "deleted"}]
  /\ link \in [Subs \X Lists -> Links \cup {"none"}]
  /\ bounces \in [Subs \X Types -> Nat]
  /\ request \in [Requests -> [pc : {"idle", "form", "optin", "confirm", "prefs", "leaving", "leave", "patch"},
                               sub : Subs \cup {NoSub},
                               read : Statuses \cup {"none"},
                               lists : SUBSET Lists]]
  /\ proven \subseteq Subs \X Lists /\ left \subseteq Subs \X Lists
  /\ standing \in [Subs -> {"free", "barred", "readmitted", "overtaken"}]
  /\ early \subseteq Requests
  /\ \A s, t \in Subs : Present(s) /\ Present(t) /\ s # t => EmailOf[s] # EmailOf[t]
  /\ \A p \in Subs \X Lists : link[p] # "none" => Present(p[1])
  /\ \A b \in Subs \X Types : bounces[b] <= Count[b[2]] /\ (bounces[b] > 0 => Present(b[1]))

(* "Unsubscribed subscriptions are left alone so an admin can't silently   *)
(* re-opt someone in": a subscription its owner has left stays left, until *)
(* the owner comes back or somebody gives it another status explicitly.    *)
LeftStaysLeft == \A p \in left : link[p] = "unsubscribed"

(* Mail goes to no one who has left the list or is barred, and on a double *)
(* opt-in list only to those who have confirmed since they last were not   *)
(* on it, or for whom somebody has vouched.                                *)
MailIsWanted ==
  \A p \in Subs \X Lists : Eligible(p) =>
    /\ p \notin left /\ standing[p[1]] # "barred"
    /\ p[2] \in Double => p \in proven

(* A subscriber who was blocklisted, by whatever means, stays so: no       *)
(* import, page, bounce or edit of anything else lifts it, and no request  *)
(* that wrote the row back after reading it blocklisted.  Only an admin's  *)
(* explicit status does, or a request that had read the row before.        *)
BarredStaysOut ==
  \A s \in Subs : standing[s] = "barred" => status[s] \in {"blocklisted", "deleted"}

(* Nobody reaches the threshold of bounces unnoticed: whoever has as many  *)
(* as blocklist has been blocklisted.                                      *)
BouncedAreOut ==
  \A s \in Subs, t \in Types :
    Action[t] = "blocklist" /\ bounces[<<s, t>>] >= Count[t] => standing[s] # "free"

(* "A blocklisted subscriber can't rejoin from an old confirmation link,   *)
(* same as on the subscription page": no page of the subscriber's lifts    *)
(* the blocklist.                                                          *)
PagesKeepTheBlocklist ==
  [][\A r \in Requests :
       LET s == request[r].sub IN
       /\ request[r].pc \in {"form", "prefs", "confirm"} /\ request'[r] # request[r]
       /\ status[s] = "blocklisted"
       => status'[s] = "blocklisted"]_vars
=============================================================================
