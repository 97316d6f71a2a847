--------------------------- MODULE MCAlertEngine ---------------------------
(* Instances of AlertEngine for TLC: two alerts of different fingerprints, *)
(* of which the second channel filters b out.                              *)
EXTENDS AlertEngine

CONSTANTS a1, b

MCKeyOf == [a \in Alert |-> IF a = b THEN "k2" ELSE "k1"]
MCAllows == [c \in Channel |-> IF c = 2 THEN Alert \ {b} ELSE Alert]
=============================================================================
