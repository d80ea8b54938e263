---------------------------- MODULE MCEGateReuse ----------------------------
(* The gate with clients that talk, on few descriptors, and the gate with  *)
(* a map server that loses its connections: two instances in one run.      *)
EXTENDS MCEGate

CONSTANTS
  Home,      \* the player of the second instance
  MoreFd     \* its descriptors

ASSUME PartsAssumption == Home \in Player /\ Fd \subseteq MoreFd

VARIABLE reconnect \* which of the two

R == INSTANCE EGate WITH
       Fd <- MoreFd, Player <- {Home}, emap <- [p \in {Home} |-> emap[p]],
       Account <- [p \in {Home} |-> Account[p]], Chatty <- FALSE, SrvDrops <- TRUE,
       MaxConns <- MaxConns - 1, MaxQueue <- 0

(* Sound for both: neither has anything that tells descriptors apart, and  *)
(* the second has one player.                                              *)
BothSym == Permutations(MoreFd) \union Permutations(Player)

BothInit == reconnect \in BOOLEAN /\ IF reconnect THEN R!Init ELSE Init
BothNext ==
  /\ UNCHANGED reconnect
  /\ \/ ~reconnect /\ Next
     \/ reconnect /\ R!Next
BothSpec == BothInit /\ [][BothNext]_<<vars, reconnect>>

(* The table agrees with the sessions of players, and keeps the servers   *)
(* that have signed in, whatever connections have had the descriptors.     *)
TableInBoth ==
  IF reconnect THEN R!TableMatchesSessions /\ R!ServerStaysMapped
  ELSE TableMatchesSessions /\ ServerStaysMapped

(* Nothing reaches a connection that was meant for the one before it.      *)
CertifiedInBoth == IF reconnect THEN R!OnlyToCertified ELSE OnlyToCertified
=============================================================================
