---------------------------- MODULE MCSubscriptions ----------------------------
EXTENDS Subscriptions, TLC

CONSTANTS s1, s2, addr, single, double, hard, soft, complaint, r1

(* Two rows one after the other for the same address; bounces of three     *)
(* types, each with another of the actions.                                *)
SameAddress == s1 :> addr @@ s2 :> addr
Thresholds == hard :> 2 @@ soft :> 1 @@ complaint :> 1
Actions == hard :> "blocklist" @@ soft :> "unsubscribe" @@ complaint :> "delete"

Symmetry == Permutations(Subs)
===============================================================================
