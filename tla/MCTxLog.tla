--------------------------------- MODULE MCTxLog ---------------------------------
(* Two requests, one with a second recipient; the first message of each is *)
(* an email to the same address.                                           *)
EXTENDS TxLog, TLC
CONSTANTS r1, r2, m1, m2, m3, ann, bob

MCMessagesOf == r1 :> <<m1, m2>> @@ r2 :> <<m3>>
MCRecipient == m1 :> ann @@ m2 :> bob @@ m3 :> ann
=============================================================================
