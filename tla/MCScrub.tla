-------------------------------- MODULE MCScrub --------------------------------
EXTENDS ScrubBatches, TLC

CONSTANTS j1, j2, b1, b2, b3, h1, h2

(* A job of two chunks and an imported window.                             *)
JobAndImport == b1 :> j1 @@ b2 :> j1 @@ b3 :> NoJob
OneJob == b1 :> j1 @@ b2 :> j1

Symmetry == Permutations(Handlers)
===============================================================================
