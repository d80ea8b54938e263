------------------------------ MODULE MCEGate -------------------------------
(* Small instances of the gate. *)
EXTENDS EGate, TLC

(* One account, whose players are at home on one map. *)
SomeMap == CHOOSE m \in Map : TRUE
HomeMap == [p \in Player |-> SomeMap]
OneAccount == [p \in Player |-> "open_id"]

Sym == Permutations(Fd) \union Permutations(Player)
=============================================================================
