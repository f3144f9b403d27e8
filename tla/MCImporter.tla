------------------------------- MODULE MCImporter -------------------------------
(* Two imports: a file of four rows, one of them bad, and its first row    *)
(* alone, in transactions of one row and then of two.                      *)
EXTENDS Importer

CONSTANTS s1, s2

MCRows == [s \in Sessions |-> IF s = s1 THEN 4 ELSE 1]
MCBad == {2}
MCFirstBatches == <<1>>
=============================================================================
