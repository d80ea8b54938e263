----------------------------- MODULE MCThreads ------------------------------
(* How the threads of a map server are joined, one part at a time: a queue *)
(* with two producing threads of two items each, and the network thread.   *)
EXTENDS Que, NetSess

VARIABLE part  \* "queue" or "network"

PartsInit == part \in {"queue", "network"} /\ QueInit /\ Init
PartsNext ==
  /\ UNCHANGED part
  /\ \/ part = "queue" /\ QueNext /\ UNCHANGED vars
     \/ part = "network" /\ Next /\ UNCHANGED QueVars

(* NetSess owes no step in its initial state. *)
PartsSpec == PartsInit /\ [][PartsNext]_<<part, vars, QueVars>> /\ Fairness
=============================================================================
