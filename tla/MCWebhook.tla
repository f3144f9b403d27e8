------------------------------- MODULE MCWebhook -------------------------------
EXTENDS WebhookDelivery, TLC

CONSTANTS d1, d2, e1, i1, i2

OneEndpoint == [d \in Deliveries |-> e1]
ThreeTicks == <<3>>

(* The instances are interchangeable, and so are the deliveries of events. *)
Symmetry == Permutations(Instances) \cup Permutations(Deliveries \ Tests)
===============================================================================
