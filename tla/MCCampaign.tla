------------------------------ MODULE MCCampaign ------------------------------
EXTENDS CampaignManager, TLC

CONSTANTS c1, c2, t1, w1, w2, a1, a2

TwoSubscribers == [c \in {c1} |-> 1..2]
TwoCampaigns == [c \in {c1, c2} |-> {1}]
OneTenant == [c \in Campaigns |-> t1]

(* The workers, and the requests, are interchangeable.                     *)
Symmetry == Permutations(Workers) \cup Permutations(Admins)
=============================================================================
