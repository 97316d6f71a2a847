------------------------------- MODULE MCWebUI -------------------------------
(* Instances of WebUI for TLC. *)
EXTENDS WebUI, TLC

CONSTANTS t1, t2, p1, p2

(* Configuration files before and after a change of the token. *)
MCFiles == {[api |-> t1, ui |-> t1], [api |-> t2, ui |-> t2]}

Symmetry == Permutations({p1, p2})
=============================================================================
