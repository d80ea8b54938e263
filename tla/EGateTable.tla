----------------------------- MODULE EGateTable ------------------------------
(***************************************************************************)
(* For any descriptors, players, maps and number of connections: between   *)
(* two commands the exchange thread's table names, for each player, the    *)
(* one live client session that has the player's pid                       *)
(* (TableMatchesSessions); what a peer is sent for a pid reaches a         *)
(* connection that was certified as that pid (OnlyToCertified) and takes   *)
(* packets of that kind (RightKind).                                       *)
(*                                                                         *)
(* A pid and a sid travel together through the queues, the map servers and *)
(* the table.  The invariant says of each such pair, wherever it is, that  *)
(* the sid's connection, if it lives, has been certified as the pid; and   *)
(* that a client connection is certified as one player at most, because it *)
(* asks for that once.                                                     *)
(***************************************************************************)
EXTENDS EGateProofs

KindOfPid(p) == IF p \in Player THEN "CLI" ELSE IF p = PidTool THEN "TOOL" ELSE "SRV"

(* A session that is not about to be wiped. *)
Live(sid) == get_sess(sid) /\ ~Closing(FdOf(sid))

(* A sid that stands for pid p: its connection has been certified as p. *)
Meant(sid, p) ==
  sid # None =>
    /\ sid[1] <= sn
    /\ Live(sid) => /\ <<conn[FdOf(sid)], p>> \in certified
                    /\ vSess[FdOf(sid)].mode = KindOfPid(p)

(* A sid that connection n asks to be certified on. *)
Asked(sid, n) ==
  sid # None =>
    /\ sid[1] <= sn
    /\ Live(sid) => conn[FdOf(sid)] = n /\ vSess[FdOf(sid)].mode = "CLI"

PacketOK(to, type, arg) ==
  /\ to # None => KindOfPid(to) = KindOf(type)
  /\ type \in WithSid => Meant(arg[2], arg[1])
  /\ type = "FIRST_PACKET2" => Asked(arg[1], arg[2])

(* What waits for the exchange thread, *)
CommandOK(b) ==
  /\ b.cmd \in {"SIGNIN_SRV", "SIGNIN_CLI"} => Meant(b.sid, b.pid)
  /\ b.cmd = "CONNECT" => <<conn[b.fd], PidTool>> \in certified
  /\ b.cmd = "SEND_ALL" => b.map # None
  /\ b.cmd = "PACKET" => PacketOK(b.to, b.type, b.arg)

(* for a worker or its peer, *)
QueuedOK(b) ==
  /\ b.cmd = "CONNECT" => <<conn[b.fd], PidTool>> \in certified
  /\ b.cmd = "PACKET" => /\ b.to # None
                         /\ Meant(b.sid, b.to)
                         /\ PacketOK(b.to, b.type, b.arg)

(* and to be read from the server on fd. *)
SaidOK(fd, r) ==
  /\ r.type = "SET_MAP_ID" => <<conn[fd], r.map>> \in certified
  /\ r.type = "SET_SRV_ID" => Meant(r.sid, r.pid)
  /\ r.type = "TO" => r.what # "FIRST_PACKET2" /\ PacketOK(r.to, r.what, r.arg)

(* A session's pid is meant, and comes with its map. *)
SessOK(fd) ==
  LET s == vSess[fd]
  IN  /\ s.pid # None => s.sid # None /\ Meant(s.sid, s.pid)
      /\ s.map # None => s.pid # None
      /\ fd \in polled => s.sid # None /\ ~Closing(fd)

(* A map server says which map it is before anything else. *)
SaysMap(fd) == sent[fd] # << >> /\ Head(sent[fd]).type = "SET_MAP_ID"
MapFirst(fd) ==
  /\ vSess[fd].mode = "SRV" /\ fd \in polled => vSess[fd].map # None \/ SaysMap(fd)
  /\ \A b \in Items(out[fd]) \union Items(exq) \union Items(wq[fd]) :
       b.cmd = "INCOME" /\ b.fd = fd /\ b.mode = "SRV" => SaysMap(fd)

Places ==
  /\ \A b \in Items(exq) : CommandOK(b)
  /\ \A fd \in Fd : /\ \A b \in Items(out[fd]) : CommandOK(b)
                    /\ \A b \in Items(wq[fd]) : QueuedOK(b)
                    /\ \A r \in Items(sent[fd]) : SaidOK(fd, r)
                    /\ SessOK(fd)
                    /\ MapFirst(fd)
  /\ \A p \in Pid : Meant(vPid2Sid[p], p)
  /\ \A m \in Map, p \in Player : Meant(gPlys[m][p].sockid, p)

(* Connections are told apart by their numbers. *)
Conns ==
  /\ \A fd \in Fd : conn[fd] <= made
  /\ \A f, g \in open : conn[f] = conn[g] => f = g
  /\ \A c \in certified : c \in Nat \X Pid /\ c[1] <= made

(* The packet with which connection n asks to be certified is in one place *)
(* at most, *)
IsFirst(b, n) == b.cmd = "PACKET" /\ b.type = "FIRST_PACKET2" /\ b.arg[2] = n
Has(q, n) == \E b \in Items(q) : IsFirst(b, n)
Single(q, n) == \A i, j \in DOMAIN q : IsFirst(q[i], n) /\ IsFirst(q[j], n) => i = j
FirstOnce(n) ==
  /\ Single(exq, n)
  /\ \A f \in Fd : /\ Single(out[f], n) /\ Single(wq[f], n)
                   /\ ~(Has(exq, n) /\ Has(out[f], n))
                   /\ ~(Has(exq, n) /\ Has(wq[f], n))
  /\ \A f, g \in Fd : /\ ~(Has(out[f], n) /\ Has(wq[g], n))
                      /\ Has(out[f], n) /\ Has(out[g], n) => f = g
                      /\ Has(wq[f], n) /\ Has(wq[g], n) => f = g

(* and is gone when the connection is certified; *)
Pending(n) == Has(exq, n) \/ \E f \in Fd : Has(out[f], n) \/ Has(wq[f], n)
Uncertified(n) == \A p \in Player : <<n, p>> \notin certified

(* a connection whose session is still to come, or new, has not asked; *)
Fresh(fd) ==
  \/ Waiting(fd)
  \/ /\ vSess[fd].sid # None /\ ~Closing(fd)
     /\ vSess[fd].state \in {"SHAKE", "NEW"}

(* so that it is certified as one player. *)
OnePlayer ==
  /\ \A n \in Nat : FirstOnce(n) /\ (Pending(n) => Uncertified(n) /\ n <= made)
  /\ \A fd \in Fd : Fresh(fd) => Uncertified(conn[fd]) /\ ~Pending(conn[fd])
  /\ \A n \in Nat, p, q \in Player :
       <<n, p>> \in certified /\ <<n, q>> \in certified => p = q

(* The session that is wiped is there until then. *)
Closes == xpc = "wipe" => Head_is("SIGNOUT") /\ get_sess(Head(exq).sid)

(* The descriptor that has player p, for the exchange thread: inside       *)
(* CMD_SIGNIN_CLI the table is behind.                                     *)
Of(p, fd) ==
  IF xpc = "assign" /\ p = Head(exq).pid THEN FALSE
  ELSE IF xpc = "on" /\ p = Head(exq).pid THEN fd = FdOf(Head(exq).sid)
  ELSE vPid2Sid[p] # None /\ fd = FdOf(vPid2Sid[p])
Table ==
  \A p \in Player :
    /\ vPid2Sid[p] # None => Live(vPid2Sid[p])
    /\ \A fd \in Fd : ~Closing(fd) => (vSess[fd].pid = p <=> Of(p, fd))

Known == Closes /\ Conns /\ Places /\ OnePlayer

-----------------------------------------------------------------------------
(* Queues. *)

LEMMA ItemsIn ==
  ASSUME NEW S, NEW q \in Seq(S)
  PROVE  Items(q) \subseteq S
BY ElementOfSeq, LenProperties DEF Items

LEMMA HeadIsItem ==
  ASSUME NEW S, NEW q \in Seq(S), q # << >>
  PROVE  Head(q) \in Items(q) /\ Items(Tail(q)) \subseteq Items(q)
BY ItemsTail

LEMMA HeadConcat ==
  ASSUME NEW S, NEW q \in Seq(S), q # << >>, NEW r \in Seq(S)
  PROVE  q \o r # << >> /\ Head(q \o r) = Head(q)
BY ConcatProperties, HeadTailProperties, LenProperties, EmptySeq

(* r holds no more first packets than q. *)
NoMore(q, r) == \A n : (Has(r, n) => Has(q, n)) /\ (Single(q, n) => Single(r, n))

LEMMA FirstConcat ==
  ASSUME NEW S, NEW q \in Seq(S), NEW r \in Seq(S), NEW n
  PROVE  /\ Has(q \o r, n) <=> Has(q, n) \/ Has(r, n)
         /\ Single(q, n) /\ Single(r, n) /\ ~(Has(q, n) /\ Has(r, n)) => Single(q \o r, n)
<1>1. /\ DOMAIN q = 1..Len(q) /\ DOMAIN r = 1..Len(r) /\ DOMAIN (q \o r) = 1..Len(q) + Len(r)
      /\ Len(q) \in Nat /\ Len(r) \in Nat
      /\ \A i \in 1..Len(q) + Len(r) :
           (q \o r)[i] = IF i <= Len(q) THEN q[i] ELSE r[i - Len(q)]
  BY ConcatProperties, LenProperties
<1>2. Has(q \o r, n) <=> Has(q, n) \/ Has(r, n)
  BY ItemsConcat DEF Has
<1>3. ASSUME NEW k \in DOMAIN (q \o r), IsFirst((q \o r)[k], n)
      PROVE  \/ k \in DOMAIN q /\ IsFirst(q[k], n) /\ Has(q, n)
             \/ k - Len(q) \in DOMAIN r /\ IsFirst(r[k - Len(q)], n) /\ Has(r, n)
  <2>1. CASE k <= Len(q)
    <3>1. k \in DOMAIN q /\ (q \o r)[k] = q[k]
      BY <1>1, <2>1
    <3>. QED
      BY <1>3, <3>1 DEF Has, Items
  <2>2. CASE ~(k <= Len(q))
    <3>1. k - Len(q) \in DOMAIN r /\ (q \o r)[k] = r[k - Len(q)]
      BY <1>1, <2>2
    <3>. QED
      BY <1>3, <3>1 DEF Has, Items
  <2>. QED
    BY <2>1, <2>2
<1>4. ASSUME Single(q, n), Single(r, n), ~(Has(q, n) /\ Has(r, n)),
             NEW i \in DOMAIN (q \o r), NEW j \in DOMAIN (q \o r),
             IsFirst((q \o r)[i], n), IsFirst((q \o r)[j], n)
      PROVE  i = j
  <2>1. CASE Has(q, n)
    <3>1. i \in DOMAIN q /\ IsFirst(q[i], n) /\ j \in DOMAIN q /\ IsFirst(q[j], n)
      BY <1>3, <1>4, <2>1
    <3>. QED
      BY <1>4, <3>1 DEF Single
  <2>2. CASE ~Has(q, n)
    <3>1. /\ i - Len(q) \in DOMAIN r /\ IsFirst(r[i - Len(q)], n)
          /\ j - Len(q) \in DOMAIN r /\ IsFirst(r[j - Len(q)], n)
      BY <1>3, <1>4, <2>2
    <3>2. i - Len(q) = j - Len(q)
      BY <1>4, <3>1 DEF Single
    <3>. QED
      BY <3>2, <1>1
  <2>. QED
    BY <2>1, <2>2
<1>5. Single(q, n) /\ Single(r, n) /\ ~(Has(q, n) /\ Has(r, n)) => Single(q \o r, n)
  BY <1>4 DEF Single
<1>. QED
  BY <1>2, <1>5

LEMMA FirstTail ==
  ASSUME NEW S, NEW q \in Seq(S), q # << >>
  PROVE  /\ NoMore(q, Tail(q))
         /\ \A n : IsFirst(Head(q), n) => Has(q, n) /\ (Single(q, n) => ~Has(Tail(q), n))
<1>1. /\ Len(q) \in Nat /\ Len(q) > 0 /\ DOMAIN q = 1..Len(q) /\ Head(q) = q[1]
      /\ DOMAIN Tail(q) = 1..Len(q) - 1
      /\ \A i \in 1..Len(q) - 1 : Tail(q)[i] = q[i + 1]
  BY HeadTailProperties, LenProperties, EmptySeq
<1>2. ASSUME NEW i \in DOMAIN Tail(q)
      PROVE  i + 1 \in DOMAIN q /\ Tail(q)[i] = q[i + 1] /\ i \in Int /\ i + 1 # 1
  BY <1>1
<1>3. ASSUME NEW n, Single(q, n) PROVE Single(Tail(q), n)
  <2>1. SUFFICES ASSUME NEW i \in DOMAIN Tail(q), NEW j \in DOMAIN Tail(q),
                        IsFirst(Tail(q)[i], n), IsFirst(Tail(q)[j], n)
                 PROVE  i = j
    BY DEF Single
  <2>2. i + 1 = j + 1
    BY <1>2, <1>3, <2>1 DEF Single
  <2>. QED
    BY <2>2, <1>2
<1>4. ASSUME NEW n, IsFirst(Head(q), n), Single(q, n), NEW i \in DOMAIN Tail(q),
             IsFirst(Tail(q)[i], n)
      PROVE  FALSE
  <2>1. 1 \in DOMAIN q /\ IsFirst(q[1], n)
    BY <1>1, <1>4
  <2>. QED
    BY <1>2, <1>4, <2>1 DEF Single
<1>5. \A n : (Has(Tail(q), n) => Has(q, n)) /\ (IsFirst(Head(q), n) => Has(q, n))
  BY HeadIsItem DEF Has
<1>6. NoMore(q, Tail(q))
  BY <1>3, <1>5 DEF NoMore
<1>7. \A n : IsFirst(Head(q), n) /\ Single(q, n) => ~Has(Tail(q), n)
  BY <1>4 DEF Has, Items
<1>. QED
  BY <1>5, <1>6, <1>7

LEMMA NoFirst ==
  ASSUME NEW q, NEW n, ~Has(q, n)
  PROVE  Single(q, n)
BY DEF Single, Has, Items

(* A batch without first packets, and one message. *)
LEMMA FirstGrows ==
  ASSUME NEW S, NEW q \in Seq(S), NEW T, NEW msgs \in Seq(T), \A n : ~Has(msgs, n)
  PROVE  NoMore(q, q \o msgs)
<1>. DEFINE U == S \union T
<1>1. q \in Seq(U) /\ msgs \in Seq(U)
  BY SeqMonotonic
<1>. HIDE DEF U
<1>2. \A n : Single(msgs, n)
  BY NoFirst
<1>. QED
  BY <1>1, <1>2, FirstConcat DEF NoMore

LEMMA FirstAppend ==
  ASSUME NEW S, NEW q \in Seq(S), NEW b, NEW n
  PROVE  /\ Items(Append(q, b)) = Items(q) \union {b}
         /\ Has(Append(q, b), n) <=> Has(q, n) \/ IsFirst(b, n)
         /\ Single(q, n) /\ ~(IsFirst(b, n) /\ Has(q, n)) => Single(Append(q, b), n)
<1>. DEFINE T == S \union {b}
            one == <<b>>
<1>1. q \in Seq(T) /\ one \in Seq(T) /\ b \in T
  BY SeqMonotonic
<1>2. Items(one) = {b} /\ Single(one, n)
  BY ItemsOfOne DEF Single
<1>3. Has(one, n) <=> IsFirst(b, n)
  BY <1>2 DEF Has
<1>. HIDE DEF T
<1>4. Append(q, b) = q \o one
  BY <1>1, AppendIsConcat
<1>. HIDE DEF one
<1>5. Items(q \o one) = Items(q) \union Items(one)
  BY <1>1, ItemsConcat
<1>6. /\ Has(q \o one, n) <=> Has(q, n) \/ Has(one, n)
      /\ Single(q, n) /\ ~(IsFirst(b, n) /\ Has(q, n)) => Single(q \o one, n)
  BY <1>1, <1>2, <1>3, FirstConcat
<1>. QED
  BY <1>2, <1>3, <1>4, <1>5, <1>6

LEMMA NoMoreSame == \A q : NoMore(q, q)
BY DEF NoMore

-----------------------------------------------------------------------------
(* A step after which the sids that live have lived before, on the same    *)
(* connection.                                                             *)
Steady ==
  /\ sn <= sn' /\ made <= made' /\ certified \subseteq certified'
  /\ \A fd \in open : conn'[fd] = conn[fd]
  /\ \A sid \in Sid : sid[1] <= sn /\ Live(sid)' =>
       /\ Live(sid) /\ conn'[FdOf(sid)] = conn[FdOf(sid)]
       /\ vSess'[FdOf(sid)].mode = vSess[FdOf(sid)].mode

LEMMA SidFd ==
  ASSUME NEW sid \in SidOrNone, sid # None
  PROVE  sid \in Sid /\ FdOf(sid) \in Fd /\ sid[1] \in Nat
BY DEF SidOrNone, Sid, FdOf

LEMMA LiveOpen ==
  ASSUME Inv, NEW sid \in Sid, Live(sid)
  PROVE  FdOf(sid) \in open
<1>1. FdOf(sid) \in Fd /\ sid # None
  BY DEF Sid, FdOf, Live, get_sess
<1>2. vSess[FdOf(sid)] # NoSess
  BY <1>1 DEF Live, get_sess, NoSess
<1>. QED
  BY <1>1, <1>2 DEF Inv, WaitingWiped, Live

(* A session keeps its sid and its mode, is wiped or gets a new sid. *)
LEMMA SteadyStep ==
  ASSUME Inv, sn <= sn', made <= made', certified \subseteq certified',
         \A fd \in open : conn'[fd] = conn[fd],
         \A fd \in Fd :
           \/ /\ vSess'[fd].sid = vSess[fd].sid /\ vSess'[fd].mode = vSess[fd].mode
              /\ Closing(fd) => Closing(fd)'
           \/ vSess'[fd] = NoSess
           \/ vSess'[fd].sid = <<sn + 1, fd>>
  PROVE  Steady
<1>1. SUFFICES ASSUME NEW sid \in Sid, sid[1] <= sn, Live(sid)'
               PROVE  /\ Live(sid) /\ conn'[FdOf(sid)] = conn[FdOf(sid)]
                      /\ vSess'[FdOf(sid)].mode = vSess[FdOf(sid)].mode
  BY DEF Steady
<1>. DEFINE fd == FdOf(sid)
<1>2. fd \in Fd /\ sid # None /\ sid[1] \in Nat /\ sn \in Nat
  BY <1>1 DEF Sid, FdOf, Live, get_sess, Inv, TypeOK
<1>3. vSess'[fd].sid = sid /\ ~Closing(fd)'
  BY <1>1 DEF Live, get_sess
<1>4. vSess'[fd] # NoSess
  BY <1>2, <1>3 DEF NoSess
<1>5. vSess'[fd].sid # <<sn + 1, fd>>
  BY <1>1, <1>2, <1>3
<1>6. /\ vSess'[fd].sid = vSess[fd].sid /\ vSess'[fd].mode = vSess[fd].mode
      /\ ~Closing(fd)
  BY <1>2, <1>3, <1>4, <1>5
<1>7. Live(sid)
  BY <1>2, <1>3, <1>6 DEF Live, get_sess
<1>. QED
  BY <1>6, <1>7, LiveOpen

LEMMA MeantStays ==
  ASSUME TypeOK, TypeOK', Steady, NEW sid \in SidOrNone
  PROVE  /\ \A p : Meant(sid, p) => Meant(sid, p)'
         /\ \A n : Asked(sid, n) => Asked(sid, n)'
<1>1. CASE sid = None
  BY <1>1 DEF Meant, Asked
<1>2. CASE sid # None
  <2>1. sid \in Sid /\ sid[1] \in Nat /\ sn \in Nat /\ sn' \in Nat /\ sn <= sn'
    BY <1>2, SidFd DEF TypeOK, Steady
  <2>2. sid[1] <= sn => sid[1] <= sn'
    BY <2>1
  <2>3. sid[1] <= sn /\ Live(sid)' =>
       /\ Live(sid) /\ conn'[FdOf(sid)] = conn[FdOf(sid)]
       /\ vSess'[FdOf(sid)].mode = vSess[FdOf(sid)].mode
    BY <2>1 DEF Steady
  <2>4. certified \subseteq certified'
    BY DEF Steady
  <2>5. ASSUME NEW p, Meant(sid, p) PROVE Meant(sid, p)'
    BY <1>2, <2>2, <2>3, <2>4, <2>5 DEF Meant
  <2>6. ASSUME NEW n, Asked(sid, n) PROVE Asked(sid, n)'
    BY <1>2, <2>2, <2>3, <2>6 DEF Asked
  <2>. QED
    BY <2>5, <2>6
<1>. QED
  BY <1>1, <1>2

LEMMA PacketStays ==
  ASSUME TypeOK, TypeOK', Steady, NEW to, NEW type, NEW arg, Carries(type, arg),
         PacketOK(to, type, arg)
  PROVE  PacketOK(to, type, arg)'
<1>1. type \in WithSid => arg[2] \in SidOrNone
  BY DEF Carries, WithSid
<1>2. type = "FIRST_PACKET2" => arg[1] \in SidOrNone
  BY DEF Carries
<1>. QED
  BY <1>1, <1>2, MeantStays DEF PacketOK

LEMMA CommandStays ==
  ASSUME TypeOK, TypeOK', Steady, NEW b \in Commands, CommandOK(b),
         b.cmd = "CONNECT" => b.fd \in open
  PROVE  CommandOK(b)'
<1>1. b.cmd \in {"SIGNIN_SRV", "SIGNIN_CLI"} => b.sid \in SidOrNone
  BY CommandFields
<1>2. b.cmd = "PACKET" => Carries(b.type, b.arg)
  BY CommandFields
<1>3. b.cmd \in {"SIGNIN_SRV", "SIGNIN_CLI"} => Meant(b.sid, b.pid)'
  BY <1>1, MeantStays DEF CommandOK
<1>4. b.cmd = "PACKET" => PacketOK(b.to, b.type, b.arg)'
  BY <1>2, PacketStays DEF CommandOK
<1>. QED
  BY <1>3, <1>4 DEF CommandOK, Steady

LEMMA RoutedFields ==
  ASSUME NEW b \in RoutedPackets \union NewConns
  PROVE  /\ b.cmd = "PACKET" => /\ b.sid \in SidOrNone /\ b.to \in PidOrNone
                                /\ b.type \in Type /\ Carries(b.type, b.arg)
         /\ b.cmd \in NewCmds => b.fd \in Fd
BY DEF RoutedPackets, NewConns, NewCmds

LEMMA QueuedStays ==
  ASSUME TypeOK, TypeOK', Steady, NEW b \in RoutedPackets \union NewConns, QueuedOK(b),
         b.cmd = "CONNECT" => b.fd \in open
  PROVE  QueuedOK(b)'
<1>1. b.cmd = "PACKET" => b.sid \in SidOrNone /\ Carries(b.type, b.arg)
  BY RoutedFields
<1>2. b.cmd = "PACKET" => Meant(b.sid, b.to)'
  BY <1>1, MeantStays DEF QueuedOK
<1>3. b.cmd = "PACKET" => PacketOK(b.to, b.type, b.arg)'
  BY <1>1, PacketStays DEF QueuedOK
<1>. QED
  BY <1>2, <1>3 DEF QueuedOK, Steady

LEMMA SaidStays ==
  ASSUME TypeOK, TypeOK', Steady, NEW fd \in Fd, conn'[fd] = conn[fd],
         NEW r \in Said, SaidOK(fd, r)
  PROVE  SaidOK(fd, r)'
<1>1. /\ r.type = "SET_SRV_ID" => r.sid \in SidOrNone
      /\ r.type = "TO" => Carries(r.what, r.arg)
  BY SaidFields
<1>2. r.type = "SET_SRV_ID" => Meant(r.sid, r.pid)'
  BY <1>1, MeantStays DEF SaidOK
<1>3. r.type = "TO" => PacketOK(r.to, r.what, r.arg)'
  BY <1>1, PacketStays DEF SaidOK
<1>. QED
  BY <1>2, <1>3 DEF SaidOK, Steady

(* What waits on a queue is of its type, and a new connection there is     *)
(* open.                                                                   *)
LEMMA QueueTypes ==
  ASSUME Inv
  PROVE  /\ \A b \in Items(exq) : b \in Commands
         /\ \A fd \in Fd : /\ \A b \in Items(out[fd]) : b \in Commands
                           /\ \A b \in Items(wq[fd]) : b \in RoutedPackets \union NewConns
                           /\ \A r \in Items(sent[fd]) : r \in Said
<1>. DEFINE Q == RoutedPackets \union NewConns
<1>1. exq \in Seq(Commands)
  BY DEF Inv, TypeOK
<1>2. \A fd \in Fd : out[fd] \in Seq(Commands) /\ wq[fd] \in Seq(Q) /\ sent[fd] \in Seq(Said)
  BY DEF Inv, TypeOK
<1>. HIDE DEF Q
<1>3. \A fd \in Fd : /\ Items(out[fd]) \subseteq Commands /\ Items(wq[fd]) \subseteq Q
                     /\ Items(sent[fd]) \subseteq Said
  BY <1>2, ItemsIn
<1>4. Items(exq) \subseteq Commands
  BY <1>1, ItemsIn
<1>. QED
  BY <1>3, <1>4 DEF Q

LEMMA ConnectOpen ==
  ASSUME Inv, NEW b, b.cmd \in NewCmds,
         \/ b \in Items(exq)
         \/ \E fd \in Fd : b \in Items(out[fd]) \/ b \in Items(wq[fd])
  PROVE  b.fd \in open /\ b.fd \notin polled /\ b.fd \in Fd /\ Waiting(b.fd)
<1>1. CASE b \in Items(exq)
  <2>1. b.fd \in Fd
    BY <1>1, QueueTypes, CommandFields DEF NewCmds
  <2>2. Holds(exq, b.fd)
    BY <1>1 DEF Holds, IsNew
  <2>. QED
    BY <2>1, <2>2 DEF Inv, WaitingOpen, Waiting
<1>2. ASSUME NEW fd \in Fd, b \in Items(out[fd]) \/ b \in Items(wq[fd])
      PROVE  b.fd \in open /\ b.fd \notin polled /\ b.fd \in Fd /\ Waiting(b.fd)
  <2>1. b.fd = fd
    BY <1>2 DEF Inv, OwnQueue
  <2>2. Holds(out[fd], fd) \/ Holds(wq[fd], fd)
    BY <1>2, <2>1 DEF Holds, IsNew
  <2>. QED
    BY <2>1, <2>2 DEF Inv, WaitingOpen, Waiting
<1>. QED
  BY <1>1, <1>2

-----------------------------------------------------------------------------
(* What a step has to show for the places. *)

NewCommands ==
  /\ \A b \in Items(exq') : \/ b \in Items(exq)
                            \/ \E fd \in Fd : b \in Items(out[fd])
                            \/ CommandOK(b)'
  /\ \A fd \in Fd : \A b \in Items(out'[fd]) : b \in Items(out[fd]) \/ CommandOK(b)'
NewQueued ==
  \A fd \in Fd : \A b \in Items(wq'[fd]) : b \in Items(wq[fd]) \/ QueuedOK(b)'
NewSaid ==
  \A fd \in Fd : \A r \in Items(sent'[fd]) :
    (r \in Items(sent[fd]) /\ conn'[fd] = conn[fd]) \/ SaidOK(fd, r)'
NewSids ==
  /\ \A p \in Pid : vPid2Sid'[p] = vPid2Sid[p] \/ Meant(vPid2Sid[p], p)'
  /\ \A m \in Map, p \in Player :
       gPlys'[m][p].sockid = gPlys[m][p].sockid \/ Meant(gPlys[m][p].sockid, p)'

LEMMA PlacesKept ==
  ASSUME Inv, TypeOK', Places, Steady, NewCommands, NewQueued, NewSaid, NewSids,
         \A fd \in Fd : SessOK(fd)' /\ MapFirst(fd)'
  PROVE  Places'
<1>0. TypeOK
  BY DEF Inv
<1>1. ASSUME NEW b \in Commands, CommandOK(b),
             b \in Items(exq) \/ \E fd \in Fd : b \in Items(out[fd])
      PROVE  CommandOK(b)'
  <2>1. b.cmd = "CONNECT" => b.fd \in open
    BY <1>1, ConnectOpen DEF NewCmds
  <2>. QED
    BY <1>0, <1>1, <2>1, CommandStays
<1>2. \A b \in Items(exq') : CommandOK(b)'
  BY <1>1, QueueTypes DEF NewCommands, Places
<1>3. \A fd \in Fd : \A b \in Items(out'[fd]) : CommandOK(b)'
  BY <1>1, QueueTypes DEF NewCommands, Places
<1>4. \A fd \in Fd : \A b \in Items(wq'[fd]) : QueuedOK(b)'
  <2>1. ASSUME NEW fd \in Fd, NEW b \in Items(wq[fd]) PROVE QueuedOK(b)'
    <3>1. b \in RoutedPackets \union NewConns /\ QueuedOK(b)
      BY <2>1, QueueTypes DEF Places
    <3>2. b.cmd = "CONNECT" => b.fd \in open
      BY <2>1, ConnectOpen DEF NewCmds
    <3>. QED
      BY <1>0, <3>1, <3>2, QueuedStays
  <2>. QED
    BY <2>1 DEF NewQueued
<1>5. \A fd \in Fd : \A r \in Items(sent'[fd]) : SaidOK(fd, r)'
  <2>1. ASSUME NEW fd \in Fd, NEW r \in Items(sent[fd]), conn'[fd] = conn[fd]
        PROVE  SaidOK(fd, r)'
    <3>1. r \in Said /\ SaidOK(fd, r)
      BY <2>1, QueueTypes DEF Places
    <3>. QED
      BY <1>0, <2>1, <3>1, SaidStays
  <2>. QED
    BY <2>1 DEF NewSaid
<1>6. \A p \in Pid : Meant(vPid2Sid[p], p)'
  <2>1. ASSUME NEW p \in Pid, vPid2Sid'[p] = vPid2Sid[p] PROVE Meant(vPid2Sid[p], p)'
    <3>. DEFINE sid == vPid2Sid[p]
    <3>1. sid \in SidOrNone /\ Meant(sid, p)
      BY DEF Inv, TypeOK, Places
    <3>2. sid' = sid
      BY <2>1
    <3>. HIDE DEF sid
    <3>3. sid # None => sid[1] <= sn' /\ (get_sess(sid)' /\ ~Closing(FdOf(sid))' =>
            <<conn'[FdOf(sid)], p>> \in certified' /\ vSess'[FdOf(sid)].mode = KindOfPid(p))
      BY <1>0, <3>1, <3>2, MeantStays DEF Meant, Live
    <3>4. Meant(sid, p)'
      BY <3>2, <3>3 DEF Meant, Live
    <3>. QED
      BY <3>4 DEF sid
  <2>. QED
    BY <2>1 DEF NewSids
<1>7. \A m \in Map, p \in Player : Meant(gPlys[m][p].sockid, p)'
  <2>1. ASSUME NEW m \in Map, NEW p \in Player, gPlys'[m][p].sockid = gPlys[m][p].sockid
        PROVE  Meant(gPlys[m][p].sockid, p)'
    <3>. DEFINE sid == gPlys[m][p].sockid
    <3>1. sid \in SidOrNone /\ Meant(sid, p)
      BY <1>0, PlyType DEF Places
    <3>2. sid' = sid
      BY <2>1
    <3>. HIDE DEF sid
    <3>3. sid # None => sid[1] <= sn' /\ (get_sess(sid)' /\ ~Closing(FdOf(sid))' =>
            <<conn'[FdOf(sid)], p>> \in certified' /\ vSess'[FdOf(sid)].mode = KindOfPid(p))
      BY <1>0, <3>1, <3>2, MeantStays DEF Meant, Live
    <3>4. Meant(sid, p)'
      BY <3>2, <3>3 DEF Meant, Live
    <3>. QED
      BY <3>4 DEF sid
  <2>. QED
    BY <2>1 DEF NewSids
<1>. QED
  BY <1>2, <1>3, <1>4, <1>5, <1>6, <1>7 DEF Places

LEMMA SessKept ==
  ASSUME TypeOK, TypeOK', Steady, NEW fd \in Fd, SessOK(fd),
         vSess'[fd].sid = vSess[fd].sid, vSess'[fd].pid = vSess[fd].pid,
         vSess'[fd].map = vSess[fd].map,
         fd \in polled' => fd \in polled /\ (Closing(fd)' => Closing(fd))
  PROVE  SessOK(fd)'
<1>. DEFINE sid == vSess[fd].sid
            p == vSess[fd].pid
<1>1. sid \in SidOrNone /\ sid' = sid /\ p' = p
  BY SessFields
<1>. HIDE DEF sid, p
<1>2. Meant(sid, p) /\ sid # None => sid[1] <= sn' /\ (get_sess(sid)' /\ ~Closing(FdOf(sid))' =>
        <<conn'[FdOf(sid)], p>> \in certified' /\ vSess'[FdOf(sid)].mode = KindOfPid(p))
  BY <1>1, MeantStays DEF Meant, Live
<1>3. Meant(sid, p) => Meant(sid, p)'
  BY <1>1, <1>2 DEF Meant, Live
<1>. QED
  BY <1>1, <1>3 DEF SessOK, sid, p

LEMMA MapFirstKept ==
  ASSUME NEW fd \in Fd, MapFirst(fd), SaysMap(fd) => SaysMap(fd)',
         vSess'[fd].mode = vSess[fd].mode, fd \in polled' => fd \in polled,
         vSess[fd].mode = "SRV" /\ vSess[fd].map # None => vSess'[fd].map # None,
         \A b \in Items(out'[fd]) \union Items(exq') \union Items(wq'[fd]) :
           b.cmd = "INCOME" /\ b.fd = fd =>
             b \in Items(out[fd]) \union Items(exq) \union Items(wq[fd])
  PROVE  MapFirst(fd)'
BY DEF MapFirst

LEMMA NoMoreOnce ==
  ASSUME NEW n, FirstOnce(n), NoMore(exq, exq'),
         \A f \in Fd : NoMore(out[f], out'[f]) /\ NoMore(wq[f], wq'[f])
  PROVE  FirstOnce(n)' /\ (Pending(n)' => Pending(n))
<1>1. /\ Has(exq', n) => Has(exq, n)
      /\ Single(exq, n) => Single(exq', n)
  BY DEF NoMore
<1>2. \A f \in Fd : /\ Has(out'[f], n) => Has(out[f], n)
                    /\ Has(wq'[f], n) => Has(wq[f], n)
                    /\ Single(out[f], n) => Single(out'[f], n)
                    /\ Single(wq[f], n) => Single(wq'[f], n)
  BY DEF NoMore
<1>. QED
  BY <1>1, <1>2 DEF FirstOnce, Pending

(* A step that certifies nobody and starts nothing but connection made + 1. *)
LEMMA OneKept ==
  ASSUME TypeOK, TypeOK', Conns, OnePlayer, made <= made',
         \A n \in Nat : FirstOnce(n)' /\ (Pending(n)' => Pending(n)),
         \A n \in Nat, p \in Player : <<n, p>> \in certified' => <<n, p>> \in certified,
         \A fd \in Fd : Fresh(fd)' => \/ Fresh(fd) /\ conn'[fd] = conn[fd]
                                      \/ conn'[fd] = made + 1
  PROVE  OnePlayer'
<1>1. made \in Nat /\ made' \in Nat /\ \A fd \in Fd : conn[fd] \in Nat
  BY DEF TypeOK
<1>2. \A n \in Nat : Pending(n)' => Uncertified(n)' /\ n <= made'
  BY <1>1 DEF OnePlayer, Uncertified
<1>3. ASSUME NEW n, n = made + 1 PROVE ~Pending(n)' /\ Uncertified(n)'
  <2>1. n \in Nat /\ ~(n <= made)
    BY <1>1, <1>3
  <2>2. ~Pending(n)'
    BY <2>1 DEF OnePlayer
  <2>3. \A p \in Player : <<n, p>> \notin certified
    BY <2>1 DEF Conns
  <2>. QED
    BY <2>1, <2>2, <2>3 DEF Uncertified
<1>4. ASSUME NEW fd \in Fd, Fresh(fd)'
      PROVE  Uncertified(conn[fd])' /\ ~Pending(conn[fd])'
  <2>1. CASE Fresh(fd) /\ conn'[fd] = conn[fd]
    <3>1. ASSUME NEW n, n = conn[fd] PROVE Uncertified(n)' /\ ~Pending(n)'
      BY <1>1, <2>1, <3>1 DEF OnePlayer, Uncertified
    <3>. QED
      BY <2>1, <3>1 DEF Uncertified, Pending
  <2>2. CASE conn'[fd] = made + 1
    BY <1>3, <2>2 DEF Uncertified, Pending
  <2>. QED
    BY <1>4, <2>1, <2>2
<1>5. \A n \in Nat, p, q \in Player :
        <<n, p>> \in certified' /\ <<n, q>> \in certified' => p = q
  BY DEF OnePlayer
<1>. QED
  BY <1>2, <1>4, <1>5 DEF OnePlayer

-----------------------------------------------------------------------------
(* A worker's turn. *)

TurnOf(fd) ==
  /\ fd \in polled /\ polled' \subseteq polled
  /\ UNCHANGED <<made, sn, open, exq, xpc, wq, vPid2Sid, gPlys, conn, certified>>
  /\ \A f \in Fd \ {fd} : vSess'[f] = vSess[f] /\ sent'[f] = sent[f]
  /\ vSess'[fd].sid = vSess[fd].sid /\ vSess'[fd].mode = vSess[fd].mode
  /\ Items(sent'[fd]) \subseteq Items(sent[fd])

LEMMA TurnSteady ==
  ASSUME Inv, Places, NEW fd \in Fd, TurnOf(fd)
  PROVE  Steady /\ \A f \in Fd : Closing(f)' <=> Closing(f)
<1>1. \A f \in Fd : Closing(f)' <=> Closing(f)
  BY DEF TurnOf, Closing, Head_is
<1>2. \A f \in Fd : vSess'[f].sid = vSess[f].sid /\ vSess'[f].mode = vSess[f].mode
  BY DEF TurnOf
<1>3. sn <= sn' /\ made <= made'
  BY DEF TurnOf, Inv, TypeOK
<1>4. certified \subseteq certified' /\ \A f \in open : conn'[f] = conn[f]
  BY DEF TurnOf
<1>. QED
  BY <1>1, <1>2, <1>3, <1>4, SteadyStep

LEMMA TurnPlaces ==
  ASSUME Inv, Inv', Known, NEW fd \in Fd, TurnOf(fd),
         NEW S, NEW msgs \in Seq(S), out' = [out EXCEPT ![fd] = @ \o msgs],
         \A b \in Items(msgs) : CommandOK(b) /\ b.cmd \notin NewCmds,
         SessOK(fd)', MapFirst(fd)'
  PROVE  /\ Closes' /\ Conns' /\ Places'
         /\ \A n : (\A b \in Items(msgs) : ~IsFirst(b, n))
                     => (FirstOnce(n) => FirstOnce(n)') /\ (Pending(n)' => Pending(n))
         /\ Items(out'[fd]) = Items(out[fd]) \union Items(msgs)
<1>. DEFINE T == Commands \union S
<1>0. (\A f \in Fd : out[f] \in Seq(T)) /\ msgs \in Seq(T)
  <2>1. \A f \in Fd : out[f] \in Seq(Commands)
    BY DEF Inv, TypeOK
  <2>. QED
    BY <2>1, SeqMonotonic
<1>. HIDE DEF T
<1>1. out'[fd] = out[fd] \o msgs /\ \A f \in Fd \ {fd} : out'[f] = out[f]
  BY DEF Inv, TypeOK
<1>2. Items(out'[fd]) = Items(out[fd]) \union Items(msgs)
  <2>1. Items(out[fd] \o msgs) = Items(out[fd]) \union Items(msgs)
    BY <1>0, ItemsConcat
  <2>. QED
    BY <1>1, <2>1
<1>3. TypeOK /\ TypeOK' /\ Steady /\ \A f \in Fd : Closing(f)' <=> Closing(f)
  BY TurnSteady DEF Inv, Known
<1>4. Closes' /\ Conns'
  <2>1. Head_is("SIGNOUT")' <=> Head_is("SIGNOUT")
    BY DEF TurnOf, Head_is
  <2>2. ASSUME xpc = "wipe" PROVE get_sess(Head(exq).sid)'
    <3>1. get_sess(Head(exq).sid) /\ Head(exq).cmd = "SIGNOUT" /\ exq # << >>
      BY <2>2 DEF Known, Closes, Head_is
    <3>2. Head(exq).sid \in SidOrNone
      BY <1>3, <3>1, HeadType, CommandFields DEF Head_is
    <3>3. FdOf(Head(exq).sid) \in Fd
      BY <3>1, <3>2, SidFd DEF get_sess
    <3>. QED
      BY <3>1, <3>3 DEF TurnOf, get_sess
  <2>. QED
    BY <2>1, <2>2 DEF TurnOf, Known, Closes, Conns
<1>5. \A b \in Items(msgs) : CommandOK(b)'
  <2>1. ASSUME NEW b \in Items(msgs) PROVE CommandOK(b)'
    <3>1. b \in Commands
      <4>1. out'[fd] \in Seq(Commands)
        BY <1>3 DEF TypeOK
      <4>2. Items(out'[fd]) \subseteq Commands
        BY <4>1, ItemsIn
      <4>. QED
        BY <1>2, <4>2
    <3>2. b.cmd # "CONNECT"
      BY DEF NewCmds
    <3>. QED
      BY <1>3, <3>1, <3>2, CommandStays
  <2>. QED
    BY <2>1
<1>6. NewCommands
  BY <1>1, <1>2, <1>5 DEF NewCommands, TurnOf
<1>7. NewQueued /\ NewSids
  BY DEF NewQueued, NewSids, TurnOf
<1>8. NewSaid
  BY DEF NewSaid, TurnOf
<1>9. ASSUME NEW f \in Fd \ {fd} PROVE SessOK(f)' /\ MapFirst(f)'
  <2>1. /\ vSess'[f] = vSess[f] /\ sent'[f] = sent[f] /\ out'[f] = out[f]
        /\ exq' = exq /\ wq' = wq /\ polled' \subseteq polled
    BY <1>1 DEF TurnOf
  <2>2. SessOK(f) /\ MapFirst(f)
    BY DEF Known, Places
  <2>3. SessOK(f)'
    BY <1>3, <2>1, <2>2, SessKept
  <2>4. MapFirst(f)'
    BY <2>1, <2>2 DEF MapFirst, SaysMap
  <2>. QED
    BY <2>3, <2>4
<1>10. Places'
  BY <1>3, <1>6, <1>7, <1>8, <1>9, PlacesKept DEF Known
<1>11. ASSUME NEW n, \A b \in Items(msgs) : ~IsFirst(b, n)
       PROVE  (FirstOnce(n) => FirstOnce(n)') /\ (Pending(n)' => Pending(n))
  <2>1. ~Has(msgs, n) /\ Single(msgs, n)
    BY <1>11, NoFirst DEF Has
  <2>2. /\ Has(out[fd] \o msgs, n) => Has(out[fd], n)
        /\ Single(out[fd], n) => Single(out[fd] \o msgs, n)
    BY <1>0, <2>1, FirstConcat
  <2>3. \A f \in Fd : /\ Has(out'[f], n) => Has(out[f], n)
                      /\ Single(out[f], n) => Single(out'[f], n)
    BY <1>1, <2>2
  <2>4. exq' = exq /\ wq' = wq
    BY DEF TurnOf
  <2>. QED
    BY <2>3, <2>4 DEF FirstOnce, Pending
<1>. QED
  BY <1>2, <1>4, <1>10, <1>11

(* Without a first packet, and without a session that is new again. *)
LEMMA TurnOne ==
  ASSUME Inv, Inv', Known, NEW fd \in Fd, TurnOf(fd),
         \A n \in Nat : FirstOnce(n)' /\ (Pending(n)' => Pending(n)),
         \A f \in Fd : Waiting(f)' <=> Waiting(f),
         vSess'[fd].state \in {"SHAKE", "NEW"} => vSess[fd].state \in {"SHAKE", "NEW"}
  PROVE  OnePlayer'
<1>1. TypeOK /\ TypeOK' /\ Conns /\ OnePlayer
  BY DEF Inv, Known
<1>1a. made <= made'
  BY <1>1 DEF TypeOK, TurnOf
<1>2. \A f \in Fd : Closing(f)' <=> Closing(f)
  BY TurnSteady DEF Known
<1>3. \A f \in Fd : Fresh(f)' => Fresh(f) /\ conn'[f] = conn[f]
  BY <1>2 DEF Fresh, TurnOf
<1>4. \A n \in Nat, p \in Player : <<n, p>> \in certified' => <<n, p>> \in certified
  BY DEF TurnOf
<1>. QED
  BY <1>1, <1>1a, <1>3, <1>4, OneKept

LEMMA EmitItems ==
  ASSUME TypeOK, NEW fd \in Fd, NEW S, NEW msgs \in Seq(S),
         out' = [out EXCEPT ![fd] = @ \o msgs]
  PROVE  /\ Items(out'[fd]) = Items(out[fd]) \union Items(msgs)
         /\ \A f \in Fd \ {fd} : out'[f] = out[f]
<1>. DEFINE T == Commands \union S
<1>0. out[fd] \in Seq(T) /\ msgs \in Seq(T)
  <2>1. out[fd] \in Seq(Commands)
    BY DEF TypeOK
  <2>. QED
    BY <2>1, SeqMonotonic
<1>. HIDE DEF T
<1>1. Items(out[fd] \o msgs) = Items(out[fd]) \union Items(msgs)
  BY <1>0, ItemsConcat
<1>2. out'[fd] = out[fd] \o msgs /\ \A f \in Fd \ {fd} : out'[f] = out[f]
  BY DEF TypeOK
<1>. QED
  BY <1>1, <1>2

LEMMA TurnMapFirst ==
  ASSUME Inv, Places, NEW fd \in Fd, TurnOf(fd), NEW msgs,
         Items(out'[fd]) = Items(out[fd]) \union Items(msgs),
         \A b \in Items(msgs) : b.cmd \notin NewCmds,
         vSess[fd].mode = "SRV" =>
           \/ vSess'[fd].map # None
           \/ sent'[fd] = sent[fd] /\ vSess'[fd].map = vSess[fd].map
  PROVE  MapFirst(fd)'
<1>1. \A b \in Items(out'[fd]) \union Items(exq') \union Items(wq'[fd]) :
        b.cmd = "INCOME" => b.fd # fd
  <2>1. ASSUME NEW b \in Items(out[fd]) \union Items(exq) \union Items(wq[fd]),
               b.cmd = "INCOME"
        PROVE  b.fd # fd
    BY <2>1, ConnectOpen DEF NewCmds, TurnOf
  <2>. QED
    BY <2>1 DEF TurnOf, NewCmds
<1>2. vSess[fd].mode = "SRV" => vSess[fd].map # None \/ SaysMap(fd)
  BY DEF Places, MapFirst, TurnOf
<1>3. vSess'[fd].mode = "SRV" => vSess'[fd].map # None \/ SaysMap(fd)'
  BY <1>2 DEF TurnOf, SaysMap
<1>. QED
  BY <1>1, <1>3 DEF MapFirst

LEMMA TurnWaiting ==
  ASSUME NEW fd \in Fd, TurnOf(fd), NEW msgs, NEW f \in Fd,
         Items(out'[fd]) = Items(out[fd]) \union Items(msgs),
         \A g \in Fd \ {fd} : out'[g] = out[g],
         \A b \in Items(msgs) : b.cmd \notin NewCmds
  PROVE  Waiting(f)' <=> Waiting(f)
BY DEF Waiting, Holds, IsNew, TurnOf

(* The table and the pids stay. *)
LEMMA TableKept ==
  ASSUME Inv, Table, \A p \in Player : vPid2Sid'[p] = vPid2Sid[p], xpc' = xpc,
         xpc \in {"assign", "on"} => Head(exq') = Head(exq),
         \A f \in Fd : /\ vSess[f].sid # None => vSess'[f].sid = vSess[f].sid
                       /\ vSess'[f].pid \in Player \/ vSess[f].pid \in Player
                            => vSess'[f].pid = vSess[f].pid
                       /\ Closing(f)' <=> Closing(f)
  PROVE  Table'
<1>1. ASSUME NEW p \in Player, vPid2Sid[p] # None
      PROVE  Live(vPid2Sid[p])'
  <2>. DEFINE sid == vPid2Sid[p]
  <2>1. Live(sid) /\ sid # None /\ sid' = sid
    BY <1>1 DEF Table
  <2>2. sid \in SidOrNone
    BY DEF Inv, TypeOK, Pid
  <2>3. FdOf(sid) \in Fd
    BY <2>1, <2>2, SidFd
  <2>. HIDE DEF sid
  <2>4. Live(sid)'
    BY <2>1, <2>3 DEF Live, get_sess
  <2>. QED
    BY <2>4 DEF sid
<1>2. ASSUME NEW p \in Player, NEW f \in Fd, ~Closing(f)'
      PROVE  vSess'[f].pid = p <=> Of(p, f)'
  <2>1. vSess'[f].pid = p <=> vSess[f].pid = p
    OBVIOUS
  <2>2. vSess[f].pid = p <=> Of(p, f)
    BY <1>2 DEF Table
  <2>3. Of(p, f)' <=> Of(p, f)
    BY DEF Of
  <2>. QED
    BY <2>1, <2>2, <2>3
<1>. QED
  BY <1>1, <1>2 DEF Table

(* A turn in which the worker says nothing new of pids. *)
LEMMA TurnSays ==
  ASSUME Inv, Inv', Known, Table, NEW fd \in Fd, TurnOf(fd),
         NEW S, NEW msgs \in Seq(S), out' = [out EXCEPT ![fd] = @ \o msgs],
         \A b \in Items(msgs) :
           CommandOK(b) /\ b.cmd \notin NewCmds /\ \A n : ~IsFirst(b, n),
         vSess'[fd].pid = vSess[fd].pid, vSess'[fd].map = vSess[fd].map,
         vSess'[fd].state \in {"SHAKE", "NEW"} => vSess[fd].state \in {"SHAKE", "NEW"},
         vSess[fd].mode = "SRV" => vSess[fd].map # None \/ sent'[fd] = sent[fd]
  PROVE  Known' /\ Table'
<1>1. TypeOK /\ TypeOK' /\ Places
  BY DEF Inv, Known
<1>2. Items(out'[fd]) = Items(out[fd]) \union Items(msgs) /\ \A f \in Fd \ {fd} : out'[f] = out[f]
  BY <1>1, EmitItems
<1>3. Steady /\ \A f \in Fd : Closing(f)' <=> Closing(f)
  BY <1>1, TurnSteady
<1>4. SessOK(fd)'
  <2>1. SessOK(fd) /\ vSess'[fd].sid = vSess[fd].sid /\ (fd \in polled' => fd \in polled)
    BY <1>1 DEF Places, TurnOf
  <2>. QED
    BY <1>1, <1>3, <2>1, SessKept
<1>5. MapFirst(fd)'
  BY <1>1, <1>2, TurnMapFirst
<1>6. /\ Closes' /\ Conns' /\ Places'
      /\ \A n : (\A b \in Items(msgs) : ~IsFirst(b, n))
                  => (FirstOnce(n) => FirstOnce(n)') /\ (Pending(n)' => Pending(n))
  BY <1>4, <1>5, TurnPlaces
<1>7. \A n \in Nat : FirstOnce(n)' /\ (Pending(n)' => Pending(n))
  BY <1>6 DEF Known, OnePlayer
<1>8. \A f \in Fd : Waiting(f)' <=> Waiting(f)
  BY <1>2, TurnWaiting
<1>9. OnePlayer'
  BY <1>7, <1>8, TurnOne
<1>10. Table'
  BY <1>3, TableKept DEF TurnOf
<1>. QED
  BY <1>6, <1>9, <1>10 DEF Known

(* Turn and what follows it in every handler is a turn of fd. *)
LEMMA TurnIs ==
  ASSUME Inv, NEW fd \in Fd, NEW mode, Turn(fd, mode), polled' \subseteq polled,
         \A f \in Fd \ {fd} : vSess'[f] = vSess[f],
         vSess'[fd].sid = vSess[fd].sid, vSess'[fd].mode = vSess[fd].mode,
         sent' = sent \/ (sent[fd] # << >> /\ sent' = [sent EXCEPT ![fd] = Tail(@)])
  PROVE  TurnOf(fd) /\ vSess[fd].mode = mode
<1>1. sent \in [Fd -> Seq(Said)]
  BY DEF Inv, TypeOK
<1>2. sent[fd] # << >> => Items(Tail(sent[fd])) \subseteq Items(sent[fd])
  BY <1>1, HeadIsItem
<1>3. /\ \A f \in Fd \ {fd} : sent'[f] = sent[f]
      /\ Items(sent'[fd]) \subseteq Items(sent[fd])
  BY <1>1, <1>2
<1>. QED
  BY <1>3 DEF Turn, TurnOf

(* The kinds of pids. *)
LEMMA Kinds ==
  /\ \A p \in Player : KindOfPid(p) = "CLI"
  /\ \A m \in Map : KindOfPid(m) = "SRV"
  /\ KindOfPid(PidTool) = "TOOL"
BY GateAssumption DEF KindOfPid

LEMMA Kinds2 ==
  /\ \A type \in ForServer : KindOf(type) = "SRV"
  /\ \A type \in ForPlayer : KindOf(type) = "CLI" /\ type \notin WithSid \union {"FIRST_PACKET2"}
  /\ KindOf("QRY_TOOL") = "TOOL"
BY DEF KindOf, ForServer, ForPlayer, Agents, WithSid

LEMMA ToServer ==
  ASSUME NEW to \in MapOrNone, NEW type \in {"REQUEST", "MSG_CLOSE", "ACK_TOOL"}, NEW arg
  PROVE  PacketOK(to, type, arg)
BY Kinds, Kinds2 DEF MapOrNone, PacketOK, ForServer, WithSid

LEMMA ToPlayer ==
  ASSUME NEW to \in Player, NEW type \in ForPlayer, NEW arg
  PROVE  PacketOK(to, type, arg)
BY Kinds, Kinds2 DEF PacketOK

LEMMA PacketSaid ==
  ASSUME NEW to, NEW type, NEW arg, PacketOK(to, type, arg)
  PROVE  /\ CommandOK(Packet(to, type, arg)) /\ Packet(to, type, arg).cmd \notin NewCmds
         /\ type # "FIRST_PACKET2" => \A n : ~IsFirst(Packet(to, type, arg), n)
BY DEF CommandOK, Packet, NewCmds, IsFirst

LEMMA SpeakSays ==
  ASSUME Inv, Inv', Known, Table, NEW fd \in Fd, NEW mode, Turn(fd, mode),
         polled' = polled, vSess' = vSess,
         sent' = sent \/ (sent[fd] # << >> /\ sent' = [sent EXCEPT ![fd] = Tail(@)]),
         NEW b, Emit(fd, <<b>>), CommandOK(b), b.cmd \notin NewCmds, \A n : ~IsFirst(b, n),
         mode = "SRV" => vSess[fd].map # None \/ sent'[fd] = sent[fd]
  PROVE  Known' /\ Table'
<1>. DEFINE msgs == <<b>>
<1>1. TurnOf(fd) /\ vSess[fd].mode = mode
  BY TurnIs
<1>2. msgs \in Seq({b}) /\ Items(msgs) = {b} /\ out' = [out EXCEPT ![fd] = @ \o msgs]
  BY ItemsOfOne DEF Emit
<1>. HIDE DEF msgs
<1>3. \A c \in Items(msgs) : CommandOK(c) /\ c.cmd \notin NewCmds /\ \A n : ~IsFirst(c, n)
  BY <1>2
<1>4. /\ vSess'[fd].pid = vSess[fd].pid /\ vSess'[fd].map = vSess[fd].map
      /\ vSess'[fd].state = vSess[fd].state
  OBVIOUS
<1>5. vSess[fd].mode = "SRV" => vSess[fd].map # None \/ sent'[fd] = sent[fd]
  BY <1>1
<1>. QED
  BY <1>1, <1>2, <1>3, <1>4, <1>5, TurnSays

LEMMA QuietSays ==
  ASSUME Inv, Inv', Known, Table, NEW fd \in Fd, TurnOf(fd), out' = out,
         vSess'[fd].pid = vSess[fd].pid, vSess'[fd].map = vSess[fd].map,
         vSess'[fd].state \in {"SHAKE", "NEW"} => vSess[fd].state \in {"SHAKE", "NEW"},
         vSess[fd].mode = "SRV" => vSess[fd].map # None \/ sent'[fd] = sent[fd]
  PROVE  Known' /\ Table'
<1>. DEFINE msgs == << >>
<1>1. msgs \in Seq(Commands) /\ Items(msgs) = {}
  BY ItemsOfOne
<1>2. out \in [Fd -> Seq(Commands)] /\ out[fd] \in Seq(Commands)
  BY DEF Inv, TypeOK
<1>3. out' = [out EXCEPT ![fd] = @ \o msgs]
  BY <1>2, ConcatEmptySeq
<1>. HIDE DEF msgs
<1>. QED
  BY <1>1, <1>3, TurnSays

LEMMA BreakSays ==
  ASSUME Inv, Inv', Known, Table, NEW fd \in Fd, NEW mode, Turn(fd, mode),
         break_sess(fd), sent' = sent
  PROVE  Known' /\ Table'
<1>. DEFINE s == vSess[fd]
            close == Packet(s.map, "MSG_CLOSE", s.pid)
            quit == Signout(s.sid)
            first == <<quit>>
            news == IF s.mode = "CLI" /\ s.pid # None THEN <<close>> ELSE << >>
            S == {quit, close}
            msgs == first \o news
<1>1. /\ out' = [out EXCEPT ![fd] = @ \o msgs]
      /\ polled' = polled \ {fd}
      /\ vSess' = [vSess EXCEPT ![fd].state = "BREAK"]
  BY DEF break_sess, Emit
<1>2. /\ vSess'[fd].sid = s.sid /\ vSess'[fd].pid = s.pid /\ vSess'[fd].map = s.map
      /\ vSess'[fd].mode = s.mode /\ vSess'[fd].state = "BREAK"
      /\ \A f \in Fd \ {fd} : vSess'[f] = vSess[f]
  BY <1>1 DEF Inv, TypeOK, Sess
<1>3. TurnOf(fd)
  BY <1>1, <1>2, TurnIs
<1>4. /\ CommandOK(close) /\ close.cmd \notin NewCmds /\ \A n : ~IsFirst(close, n)
  BY SessFields, ToServer, PacketSaid DEF Inv
<1>5. CommandOK(quit) /\ quit.cmd \notin NewCmds /\ \A n : ~IsFirst(quit, n)
  BY DEF CommandOK, Signout, NewCmds, IsFirst
<1>6. Items(first) = {quit} /\ Items(news) \subseteq {close}
  BY ItemsOfOne
<1>. HIDE DEF close, quit
<1>7. first \in Seq(S) /\ news \in Seq(S)
  <2>1. <<close>> \in Seq(S) /\ <<quit>> \in Seq(S) /\ << >> \in Seq(S)
    OBVIOUS
  <2>. QED
    BY <2>1
<1>. HIDE DEF first, news, S
<1>8. msgs \in Seq(S) /\ Items(msgs) \subseteq {quit, close}
  BY <1>6, <1>7, ItemsConcat, ConcatProperties
<1>. HIDE DEF msgs
<1>9. vSess'[fd].state \notin {"SHAKE", "NEW"}
  BY <1>2
<1>. HIDE DEF s
<1>. QED
  BY <1>1, <1>2, <1>3, <1>4, <1>5, <1>8, <1>9, TurnSays DEF s

-----------------------------------------------------------------------------
(* What clients say. *)

LEMMA ShakeTable ==
  ASSUME Inv, Inv', Known, Table, NEW fd \in Fd, Shake(fd)
  PROVE  Known' /\ Table'
<1>1. /\ fd \in polled /\ polled' = polled /\ sent' = sent /\ out' = out
      /\ UNCHANGED <<made, sn, open, exq, xpc, wq, vPid2Sid, gPlys, conn, certified>>
      /\ vSess' = [vSess EXCEPT ![fd].state = "NEW"] /\ vSess[fd].state = "SHAKE"
  BY DEF Shake, worker, servers, history
<1>2. /\ vSess'[fd].sid = vSess[fd].sid /\ vSess'[fd].pid = vSess[fd].pid
      /\ vSess'[fd].map = vSess[fd].map /\ vSess'[fd].mode = vSess[fd].mode
      /\ \A f \in Fd \ {fd} : vSess'[f] = vSess[f]
  BY <1>1 DEF Inv, TypeOK, Sess
<1>3. TurnOf(fd)
  BY <1>1, <1>2 DEF TurnOf
<1>. QED
  BY <1>1, <1>2, <1>3, QuietSays

LEMMA ClientPacketTable ==
  ASSUME Inv, Inv', Known, Table, NEW fd \in Fd, ClientPacket(fd)
  PROVE  Known' /\ Table'
<1>. DEFINE s == vSess[fd]
            b == Packet(s.map, "REQUEST", s.pid)
<1>1. Turn(fd, "CLI") /\ sent' = sent
  BY DEF ClientPacket
<1>2. CASE s.state = "ON" /\ s.pid # None
  <2>1. Emit(fd, <<b>>) /\ vSess' = vSess /\ polled' = polled
    BY <1>2 DEF ClientPacket
  <2>2. CommandOK(b) /\ b.cmd \notin NewCmds /\ \A n : ~IsFirst(b, n)
    BY SessFields, ToServer, PacketSaid DEF Inv
  <2>. HIDE DEF b
  <2>. QED
    BY <1>1, <2>1, <2>2, SpeakSays
<1>3. CASE ~(s.state = "ON" /\ s.pid # None)
  <2>1. break_sess(fd)
    BY <1>3 DEF ClientPacket
  <2>. QED
    BY <1>1, <2>1, BreakSays
<1>. QED
  BY <1>2, <1>3

LEMMA ToPlayersTable ==
  ASSUME Inv, Inv', Known, Table, NEW fd \in Fd, NEW n \in Nat, NEW to \in [1..n -> Player],
         ClientToPlayers(fd, to)
  PROVE  Known' /\ Table'
<1>. DEFINE pid == vSess[fd].pid
            S == {Packet(p, "P2P", pid) : p \in Player}
            msgs == [i \in DOMAIN to |-> Packet(to[i], "P2P", pid)]
<1>1. /\ Turn(fd, "CLI") /\ sent' = sent /\ vSess' = vSess /\ polled' = polled
      /\ out' = [out EXCEPT ![fd] = @ \o msgs]
  BY DEF ClientToPlayers, Emit
<1>2. msgs \in [1..n -> S]
  OBVIOUS
<1>3. msgs \in Seq(S)
  BY <1>2
<1>4. Items(msgs) \subseteq S
  BY <1>2 DEF Items
<1>5. \A b \in S : CommandOK(b) /\ b.cmd \notin NewCmds /\ \A k : ~IsFirst(b, k)
  <2>1. ASSUME NEW p \in Player
        PROVE  LET b == Packet(p, "P2P", pid)
               IN  CommandOK(b) /\ b.cmd \notin NewCmds /\ \A k : ~IsFirst(b, k)
    <3>1. "P2P" \in ForPlayer /\ "P2P" # "FIRST_PACKET2"
      BY DEF ForPlayer
    <3>2. PacketOK(p, "P2P", pid)
      BY <3>1, ToPlayer
    <3>. QED
      BY <3>1, <3>2, PacketSaid
  <2>. QED
    BY <2>1
<1>6. TurnOf(fd) /\ vSess[fd].mode = "CLI"
  BY <1>1, TurnIs
<1>. HIDE DEF msgs, S
<1>. QED
  BY <1>1, <1>3, <1>4, <1>5, <1>6, TurnSays

LEMMA GoneTable ==
  ASSUME Inv, Inv', Known, Table, NEW fd \in Fd,
         ClientBreak(fd) \/ SrvGone(fd) \/ \E eof \in BOOLEAN : ToolBreak(fd, eof)
  PROVE  Known' /\ Table'
<1>1. break_sess(fd) /\ sent' = sent /\ \E mode : Turn(fd, mode)
  BY DEF ClientBreak, SrvGone, ToolBreak
<1>. QED
  BY <1>1, BreakSays

-----------------------------------------------------------------------------
(* What servers say. *)

LEMMA ReadsWhat ==
  ASSUME Inv, Known, NEW fd \in Fd, NEW type, Reads(fd, type)
  PROVE  /\ Head(sent[fd]) \in Said /\ SaidOK(fd, Head(sent[fd]))
         /\ Turn(fd, "SRV") /\ polled' = polled
         /\ sent[fd] # << >> /\ sent' = [sent EXCEPT ![fd] = Tail(@)]
         /\ Head(sent[fd]).type = type
         /\ type # "SET_MAP_ID" => vSess[fd].map # None
<1>1. /\ Turn(fd, "SRV") /\ polled' = polled
      /\ sent[fd] # << >> /\ sent' = [sent EXCEPT ![fd] = Tail(@)]
      /\ Head(sent[fd]).type = type
  BY DEF Reads
<1>2. sent[fd] \in Seq(Said)
  BY DEF Inv, TypeOK
<1>3. Head(sent[fd]) \in Items(sent[fd])
  BY <1>1, <1>2, HeadIsItem
<1>4. Head(sent[fd]) \in Said /\ SaidOK(fd, Head(sent[fd]))
  BY <1>3, QueueTypes DEF Known, Places
<1>5. MapFirst(fd) /\ fd \in polled /\ vSess[fd].mode = "SRV"
  BY <1>1 DEF Known, Places, Turn
<1>. QED
  BY <1>1, <1>4, <1>5 DEF MapFirst, SaysMap

LEMMA ServerTurnTable ==
  ASSUME Inv, Inv', Known, Table, NEW fd \in Fd,
         \/ SetSrvId(fd) \/ ServerPacket(fd) \/ ServerToAll(fd)
         \/ ServerToMany(fd) \/ AskTool(fd) \/ ServerToSock(fd)
  PROVE  Known' /\ Table'
<1>. DEFINE r == Head(sent[fd])
<1>1. ASSUME NEW type, Reads(fd, type), type # "SET_MAP_ID", vSess' = vSess, NEW b,
             Emit(fd, <<b>>), CommandOK(b), b.cmd \notin NewCmds, \A n : ~IsFirst(b, n)
      PROVE  Known' /\ Table'
  <2>1. /\ Turn(fd, "SRV") /\ polled' = polled /\ vSess[fd].map # None
        /\ sent[fd] # << >> /\ sent' = [sent EXCEPT ![fd] = Tail(@)]
    BY <1>1, ReadsWhat
  <2>. QED
    BY <1>1, <2>1, SpeakSays
<1>2. CASE SetSrvId(fd)
  <2>. DEFINE b == SigninCli(r.sid, r.pid, r.map)
  <2>1. Reads(fd, "SET_SRV_ID") /\ vSess' = vSess /\ Emit(fd, <<b>>)
    BY <1>2 DEF SetSrvId
  <2>2. Meant(r.sid, r.pid)
    BY <2>1, ReadsWhat DEF SaidOK
  <2>3. CommandOK(b) /\ b.cmd \notin NewCmds /\ \A n : ~IsFirst(b, n)
    BY <2>2 DEF CommandOK, SigninCli, NewCmds, IsFirst
  <2>. HIDE DEF b
  <2>. QED
    BY <1>1, <2>1, <2>3
<1>3. CASE ServerPacket(fd)
  <2>. DEFINE b == Packet(r.to, r.what, r.arg)
  <2>1. Reads(fd, "TO") /\ vSess' = vSess /\ Emit(fd, <<b>>)
    BY <1>3 DEF ServerPacket
  <2>2. r.what # "FIRST_PACKET2" /\ PacketOK(r.to, r.what, r.arg)
    BY <2>1, ReadsWhat DEF SaidOK
  <2>3. CommandOK(b) /\ b.cmd \notin NewCmds /\ \A n : ~IsFirst(b, n)
    BY <2>2, PacketSaid
  <2>. HIDE DEF b
  <2>. QED
    BY <1>1, <2>1, <2>3
<1>4. CASE ServerToAll(fd)
  <2>. DEFINE b == SendAll(vSess[fd].map)
  <2>1. Reads(fd, "TO_ALL") /\ vSess' = vSess /\ Emit(fd, <<b>>)
    BY <1>4 DEF ServerToAll
  <2>2. vSess[fd].map # None
    BY <2>1, ReadsWhat
  <2>3. CommandOK(b) /\ b.cmd \notin NewCmds /\ \A n : ~IsFirst(b, n)
    BY <2>2 DEF CommandOK, SendAll, NewCmds, IsFirst
  <2>. HIDE DEF b
  <2>. QED
    BY <1>1, <2>1, <2>3
<1>5. CASE ServerToMany(fd)
  <2>. DEFINE b == SendMul(r.pids)
  <2>1. Reads(fd, "TO_MANY") /\ vSess' = vSess /\ Emit(fd, <<b>>)
    BY <1>5 DEF ServerToMany
  <2>2. CommandOK(b) /\ b.cmd \notin NewCmds /\ \A n : ~IsFirst(b, n)
    BY DEF CommandOK, SendMul, NewCmds, IsFirst
  <2>. HIDE DEF b
  <2>. QED
    BY <1>1, <2>1, <2>2
<1>6. CASE AskTool(fd)
  <2>. DEFINE b == Packet(PidTool, "QRY_TOOL", vSess[fd].map)
  <2>1. Reads(fd, "QRY_TOOL") /\ vSess' = vSess /\ Emit(fd, <<b>>)
    BY <1>6 DEF AskTool
  <2>2. PacketOK(PidTool, "QRY_TOOL", vSess[fd].map)
    BY Kinds, Kinds2 DEF PacketOK, WithSid
  <2>3. CommandOK(b) /\ b.cmd \notin NewCmds /\ \A n : ~IsFirst(b, n)
    BY <2>2, PacketSaid
  <2>. HIDE DEF b
  <2>. QED
    BY <1>1, <2>1, <2>3
<1>7. CASE ServerToSock(fd)
  <2>1. Reads(fd, "TO_SCK") /\ vSess' = vSess /\ out' = out
    BY <1>7 DEF ServerToSock
  <2>2. /\ Turn(fd, "SRV") /\ polled' = polled /\ vSess[fd].map # None
        /\ sent[fd] # << >> /\ sent' = [sent EXCEPT ![fd] = Tail(@)]
    BY <2>1, ReadsWhat
  <2>3. TurnOf(fd)
    BY <2>1, <2>2, TurnIs
  <2>. QED
    BY <2>1, <2>2, <2>3, QuietSays
<1>. QED
  BY <1>2, <1>3, <1>4, <1>5, <1>6, <1>7

LEMMA ToolPacketTable ==
  ASSUME Inv, Inv', Known, Table, NEW fd \in Fd, ToolPacket(fd)
  PROVE  Known' /\ Table'
<1>. DEFINE r == Head(sent[fd])
            b == Packet(r.to, "ACK_TOOL", None)
<1>1. /\ Turn(fd, "TOOL") /\ polled' = polled /\ vSess' = vSess /\ Emit(fd, <<b>>)
      /\ sent[fd] # << >> /\ sent' = [sent EXCEPT ![fd] = Tail(@)] /\ r.type = "ACK_TOOL"
  BY DEF ToolPacket
<1>2. sent[fd] \in Seq(Said)
  BY DEF Inv, TypeOK
<1>3. r \in Said
  BY <1>1, <1>2, HeadIsItem, ItemsIn
<1>4. r.to \in MapOrNone
  BY <1>1, <1>3, SaidFields
<1>5. CommandOK(b) /\ b.cmd \notin NewCmds /\ \A n : ~IsFirst(b, n)
  BY <1>4, ToServer, PacketSaid
<1>. HIDE DEF b, r
<1>6. "TOOL" = "SRV" => vSess[fd].map # None
  OBVIOUS
<1>. QED
  BY <1>1, <1>5, <1>6, SpeakSays

-----------------------------------------------------------------------------
(* A session's first words. *)

(* A polled session is not about to be wiped, and its pid is its           *)
(* connection's.                                                           *)
LEMMA PolledSess ==
  ASSUME Inv, Known, NEW fd \in polled
  PROVE  LET s == vSess[fd]
         IN  /\ fd \in Fd /\ ~Closing(fd) /\ ~Waiting(fd) /\ fd \in open
             /\ s.sid # None /\ s.sid \in Sid /\ FdOf(s.sid) = fd /\ s.sid[1] <= sn
             /\ Live(s.sid)
             /\ s.pid # None => /\ <<conn[fd], s.pid>> \in certified
                                /\ s.mode = KindOfPid(s.pid)
<1>. DEFINE s == vSess[fd]
<1>1. fd \in Fd
  BY DEF Inv, TypeOK
<1>2. SessOK(fd)
  BY <1>1 DEF Known, Places
<1>3. s.sid # None /\ ~Closing(fd) /\ (s.pid # None => Meant(s.sid, s.pid))
  BY <1>2 DEF SessOK
<1>4. s.sid \in Sid /\ FdOf(s.sid) = fd /\ s.sid[1] <= sn
  BY <1>1, <1>3, SessFields, SidFd DEF Inv, OwnSid
<1>5. ~Waiting(fd) /\ fd \in open
  BY <1>1 DEF Inv, WaitingOpen
<1>6. Live(s.sid)
  BY <1>3, <1>4 DEF Live, get_sess
<1>7. s.pid # None => /\ <<conn[fd], s.pid>> \in certified
                      /\ s.mode = KindOfPid(s.pid)
  BY <1>3, <1>4, <1>6 DEF Meant
<1>. QED
  BY <1>1, <1>3, <1>4, <1>5, <1>6, <1>7

LEMMA FreshOpen ==
  ASSUME Inv, NEW fd \in Fd, Fresh(fd)
  PROVE  fd \in open
<1>1. CASE Waiting(fd)
  BY <1>1 DEF Inv, WaitingOpen
<1>2. CASE vSess[fd].sid # None /\ ~Closing(fd)
  <2>1. vSess[fd] # NoSess
    BY <1>2 DEF NoSess
  <2>. QED
    BY <1>2, <2>1 DEF Inv, WaitingWiped
<1>. QED
  BY <1>1, <1>2 DEF Fresh

(* A new session asks: its connection has not asked before. *)
LEMMA FirstPacketTable ==
  ASSUME Inv, Inv', Known, Table, NEW fd \in Fd, NEW m \in Map, FirstPacket(fd, m)
  PROVE  Known' /\ Table'
<1>. DEFINE s == vSess[fd]
            n == conn[fd]
            b == Packet(m, "FIRST_PACKET2", <<s.sid, n>>)
            msgs == <<b>>
<1>1. Turn(fd, "CLI") /\ sent' = sent
  BY DEF FirstPacket
<1>2. CASE ~(s.pid = None /\ s.state = "NEW")
  <2>1. break_sess(fd)
    BY <1>2 DEF FirstPacket
  <2>. QED
    BY <1>1, <2>1, BreakSays
<1>3. CASE s.pid = None /\ s.state = "NEW"
  <2>1. /\ vSess' = [vSess EXCEPT ![fd].state = "LOGIN"] /\ polled' = polled
        /\ out' = [out EXCEPT ![fd] = @ \o msgs]
    BY <1>3 DEF FirstPacket, Emit
  <2>2. /\ vSess'[fd].sid = s.sid /\ vSess'[fd].pid = s.pid /\ vSess'[fd].map = s.map
        /\ vSess'[fd].mode = s.mode /\ vSess'[fd].state = "LOGIN"
        /\ \A f \in Fd \ {fd} : vSess'[f] = vSess[f]
    BY <2>1 DEF Inv, TypeOK, Sess
  <2>3. TurnOf(fd) /\ s.mode = "CLI" /\ fd \in polled
    BY <1>1, <2>1, <2>2, TurnIs DEF Turn
  <2>4. /\ ~Closing(fd) /\ ~Waiting(fd) /\ fd \in open /\ s.sid # None
        /\ FdOf(s.sid) = fd /\ s.sid[1] <= sn
    BY <2>3, PolledSess
  <2>5. Asked(s.sid, n)
    BY <2>3, <2>4 DEF Asked
  <2>6. /\ b.cmd = "PACKET" /\ b.to = m /\ b.type = "FIRST_PACKET2" /\ b.arg = <<s.sid, n>>
    BY DEF Packet
  <2>7. CommandOK(b) /\ b.cmd \notin NewCmds /\ (\A k : IsFirst(b, k) <=> k = n)
    <3>1. KindOfPid(m) = KindOf("FIRST_PACKET2")
      BY Kinds, Kinds2 DEF ForServer
    <3>2. <<s.sid, n>>[1] = s.sid /\ <<s.sid, n>>[2] = n
      OBVIOUS
    <3>3. PacketOK(m, "FIRST_PACKET2", <<s.sid, n>>)
      BY <2>5, <3>1, <3>2 DEF PacketOK, WithSid
    <3>. QED
      BY <2>6, <3>2, <3>3 DEF CommandOK, NewCmds, IsFirst
  <2>8. msgs \in Seq({b}) /\ Items(msgs) = {b} /\ Single(msgs, n) /\ msgs \in Seq(Commands \union {b})
    <3>1. DOMAIN <<b>> = {1}
      OBVIOUS
    <3>2. Single(msgs, n)
      BY <3>1 DEF Single
    <3>. QED
      BY <3>2, ItemsOfOne
  <2>. HIDE DEF b, msgs
  <2>9. /\ Items(out'[fd]) = Items(out[fd]) \union Items(msgs)
        /\ \A f \in Fd \ {fd} : out'[f] = out[f]
    BY <2>1, <2>8, EmitItems DEF Inv
  <2>10. SessOK(fd)'
    <3>1. TypeOK /\ TypeOK' /\ Steady /\ SessOK(fd) /\ (Closing(fd)' => Closing(fd))
      BY <2>3, TurnSteady DEF Inv, Known, Places
    <3>. QED
      BY <2>1, <2>2, <3>1, SessKept
  <2>11. MapFirst(fd)'
    <3>1. \A c \in Items(msgs) : c.cmd \notin NewCmds
      BY <2>7, <2>8
    <3>2. s.mode = "SRV" => vSess'[fd].map # None
      BY <2>3
    <3>. QED
      BY <2>3, <2>9, <3>1, <3>2, TurnMapFirst DEF Known
  <2>12. /\ Closes' /\ Conns' /\ Places'
         /\ \A k : ~IsFirst(b, k) => (FirstOnce(k) => FirstOnce(k)') /\ (Pending(k)' => Pending(k))
    <3>1. \A c \in Items(msgs) : CommandOK(c) /\ c.cmd \notin NewCmds
      BY <2>7, <2>8
    <3>2. \A k : ~IsFirst(b, k) => \A c \in Items(msgs) : ~IsFirst(c, k)
      BY <2>8
    <3>. QED
      BY <2>1, <2>3, <2>8, <2>10, <2>11, <3>1, <3>2, TurnPlaces
  <2>13. \A k : k # n => (FirstOnce(k) => FirstOnce(k)') /\ (Pending(k)' => Pending(k))
    BY <2>7, <2>12
  <2>14. Fresh(fd) /\ n \in Nat
    BY <1>3, <2>4 DEF Fresh, Inv, TypeOK
  <2>15. Uncertified(n) /\ ~Pending(n) /\ FirstOnce(n) /\ n <= made
    BY <2>14 DEF Known, OnePlayer, Conns
  <2>16. ASSUME NEW k, k = n PROVE FirstOnce(k)'
    <3>1. /\ ~Has(exq, k) /\ \A f \in Fd : ~Has(out[f], k) /\ ~Has(wq[f], k)
      BY <2>15, <2>16 DEF Pending
    <3>2. Single(out'[fd], k)
      <4>. DEFINE T == Commands \union {b}
      <4>1. out[fd] \in Seq(Commands) /\ out'[fd] = out[fd] \o msgs
        BY <2>1 DEF Inv, TypeOK
      <4>2. out[fd] \in Seq(T) /\ msgs \in Seq(T)
        BY <2>8, <4>1, SeqMonotonic
      <4>. HIDE DEF T
      <4>3. Single(out[fd], k) /\ Single(msgs, k)
        BY <2>8, <2>16, <3>1, NoFirst
      <4>. QED
        BY <3>1, <4>1, <4>2, <4>3, FirstConcat
    <3>3. exq' = exq /\ wq' = wq
      BY <2>3 DEF TurnOf
    <3>4. \A f \in Fd : f # fd => ~Has(out'[f], k)
      BY <2>9, <3>1
    <3>5. FirstOnce(k)
      BY <2>15, <2>16
    <3>. QED
      BY <2>9, <3>1, <3>2, <3>3, <3>4, <3>5 DEF FirstOnce
  <2>17. \A k \in Nat : FirstOnce(k)' /\ (Pending(k)' => k = n \/ Pending(k))
    BY <2>13, <2>16 DEF Known, OnePlayer
  <2>18. UNCHANGED <<certified, conn, made>>
    BY <2>3 DEF TurnOf
  <2>19. \A k \in Nat : Pending(k)' => Uncertified(k)' /\ k <= made'
    BY <2>15, <2>17, <2>18 DEF Known, OnePlayer, Uncertified
  <2>20. ASSUME NEW f \in Fd, Fresh(f)'
         PROVE  Uncertified(conn[f])' /\ ~Pending(conn[f])'
    <3>1. \A g \in Fd : (Waiting(g)' <=> Waiting(g)) /\ (Closing(g)' <=> Closing(g))
      <4>1. \A c \in Items(msgs) : c.cmd \notin NewCmds
        BY <2>7, <2>8
      <4>. QED
        BY <2>3, <2>9, <4>1, TurnWaiting, TurnSteady DEF Known
    <3>2. f # fd
      BY <2>2, <2>4, <2>20, <3>1 DEF Fresh
    <3>3. Fresh(f)
      BY <2>2, <2>20, <3>1, <3>2 DEF Fresh
    <3>4. conn[f] # n /\ conn[f] \in Nat
      BY <2>4, <3>2, <3>3, FreshOpen DEF Known, Conns, Inv, TypeOK
    <3>5. Uncertified(conn[f]) /\ ~Pending(conn[f])
      BY <3>3 DEF Known, OnePlayer
    <3>6. ASSUME NEW k, k = conn[f] PROVE Uncertified(k)' /\ ~Pending(k)'
      BY <2>17, <2>18, <3>4, <3>5, <3>6 DEF Uncertified
    <3>. QED
      BY <2>18, <3>6 DEF Uncertified, Pending
  <2>21. OnePlayer'
    BY <2>17, <2>18, <2>19, <2>20 DEF Known, OnePlayer
  <2>22. Table'
    <3>1. \A f \in Fd : Closing(f)' <=> Closing(f)
      BY <2>3, TurnSteady DEF Known
    <3>2. vPid2Sid' = vPid2Sid /\ xpc' = xpc /\ exq' = exq
      BY <2>3 DEF TurnOf
    <3>. QED
      BY <2>2, <3>1, <3>2, TableKept
  <2>. QED
    BY <2>12, <2>21, <2>22 DEF Known
<1>. QED
  BY <1>2, <1>3

(* A map server says which map it is. *)
LEMMA SetMapIdTable ==
  ASSUME Inv, Inv', Known, Table, NEW fd \in Fd, SetMapId(fd)
  PROVE  Known' /\ Table'
<1>. DEFINE s == vSess[fd]
            m == Head(sent[fd]).map
            b == SigninSrv(s.sid, m)
            msgs == <<b>>
<1>1. /\ Turn(fd, "SRV") /\ polled' = polled
      /\ sent[fd] # << >> /\ sent' = [sent EXCEPT ![fd] = Tail(@)]
      /\ m \in Map /\ <<conn[fd], m>> \in certified
  BY ReadsWhat, SaidFields DEF SetMapId, SaidOK
<1>2. /\ vSess' = [vSess EXCEPT ![fd].map = m, ![fd].pid = m, ![fd].state = "ON"]
      /\ out' = [out EXCEPT ![fd] = @ \o msgs]
  BY DEF SetMapId, Emit
<1>. HIDE DEF m
<1>3. /\ vSess'[fd].sid = s.sid /\ vSess'[fd].pid = m /\ vSess'[fd].map = m
      /\ vSess'[fd].mode = s.mode /\ vSess'[fd].state = "ON"
      /\ \A f \in Fd \ {fd} : vSess'[f] = vSess[f]
  BY <1>2 DEF Inv, TypeOK, Sess
<1>4. TurnOf(fd) /\ s.mode = "SRV" /\ fd \in polled
  BY <1>1, <1>3, TurnIs DEF Turn
<1>5. /\ ~Closing(fd) /\ ~Waiting(fd) /\ s.sid # None
      /\ FdOf(s.sid) = fd /\ s.sid[1] <= sn /\ s.pid \notin Player
  BY <1>4, PolledSess, Kinds, GateAssumption
<1>6. Meant(s.sid, m)
  BY <1>1, <1>4, <1>5, Kinds DEF Meant
<1>7. CommandOK(b) /\ b.cmd \notin NewCmds /\ \A k : ~IsFirst(b, k)
  BY <1>6 DEF SigninSrv, CommandOK, NewCmds, IsFirst
<1>8. msgs \in Seq({b}) /\ Items(msgs) = {b}
  BY ItemsOfOne
<1>. HIDE DEF b, msgs
<1>9. /\ Items(out'[fd]) = Items(out[fd]) \union Items(msgs)
      /\ \A f \in Fd \ {fd} : out'[f] = out[f]
  BY <1>2, <1>8, EmitItems DEF Inv
<1>10. /\ TypeOK /\ TypeOK' /\ Steady /\ SessOK(fd) /\ Places
       /\ \A f \in Fd : Closing(f)' <=> Closing(f)
  BY <1>4, TurnSteady DEF Inv, Known, Places
<1>11. SessOK(fd)'
  <2>. DEFINE sid == s.sid
  <2>1. sid \in SidOrNone /\ Meant(sid, m)
    BY <1>6, SessFields DEF Inv
  <2>2. vSess'[fd].sid = sid
    BY <1>3
  <2>. HIDE DEF sid
  <2>4. ASSUME NEW x, NEW p, Meant(x, p)', vSess'[fd].sid = x, vSess'[fd].pid = p
        PROVE  Meant(vSess[fd].sid, vSess[fd].pid)'
    BY <2>4 DEF Meant, Live, get_sess
  <2>5. Meant(vSess[fd].sid, vSess[fd].pid)'
    <3>1. ASSUME NEW x, x = sid, NEW p, p = m PROVE Meant(x, p)'
      BY <2>1, <3>1, <1>10, MeantStays
    <3>2. \A x, p : vSess'[fd].sid = x /\ vSess'[fd].pid = p => Meant(x, p)'
      BY <1>3, <2>2, <3>1
    <3>. QED
      BY <2>4, <3>2
  <2>. QED
    BY <1>1, <1>3, <1>5, <1>10, <2>2, <2>5, GateAssumption DEF SessOK, sid
<1>12. MapFirst(fd)'
  BY <1>1, <1>3, <1>4, <1>7, <1>8, <1>9, <1>10, GateAssumption, TurnMapFirst
<1>13. /\ Closes' /\ Conns' /\ Places'
       /\ \A n \in Nat : FirstOnce(n)' /\ (Pending(n)' => Pending(n))
  <2>1. \A c \in Items(msgs) : CommandOK(c) /\ c.cmd \notin NewCmds /\ \A n : ~IsFirst(c, n)
    BY <1>7, <1>8
  <2>2. /\ Closes' /\ Conns' /\ Places'
        /\ \A n : (\A c \in Items(msgs) : ~IsFirst(c, n))
                    => (FirstOnce(n) => FirstOnce(n)') /\ (Pending(n)' => Pending(n))
    BY <1>2, <1>4, <1>8, <1>11, <1>12, <2>1, TurnPlaces
  <2>. QED
    BY <2>1, <2>2 DEF Known, OnePlayer
<1>14. OnePlayer'
  <2>1. \A f \in Fd : Waiting(f)' <=> Waiting(f)
    BY <1>4, <1>7, <1>8, <1>9, TurnWaiting
  <2>2. vSess'[fd].state \notin {"SHAKE", "NEW"}
    BY <1>3
  <2>. QED
    BY <1>4, <1>13, <2>1, <2>2, TurnOne
<1>15. Table'
  <2>1. vPid2Sid' = vPid2Sid /\ xpc' = xpc /\ exq' = exq
    BY <1>4 DEF TurnOf
  <2>2. \A f \in Fd : /\ vSess'[f].sid = vSess[f].sid
                      /\ vSess'[f].pid \in Player \/ vSess[f].pid \in Player
                           => vSess'[f].pid = vSess[f].pid
    BY <1>1, <1>3, <1>5, GateAssumption
  <2>. QED
    BY <1>10, <2>1, <2>2, TableKept
<1>. QED
  BY <1>13, <1>14, <1>15 DEF Known

-----------------------------------------------------------------------------
(* Connections. *)

(* Sessions stay as they are. *)
LEMMA SessionsStay ==
  ASSUME Inv, Inv', Places, vSess' = vSess, polled' \subseteq polled, sn' = sn,
         made <= made', certified \subseteq certified',
         \A f \in open : conn'[f] = conn[f],
         \A f \in Fd : Closing(f)' <=> Closing(f)
  PROVE  Steady /\ \A f \in Fd : SessOK(f)'
<1>1. sn <= sn'
  BY DEF Inv, TypeOK
<1>2. Steady
  BY <1>1, SteadyStep
<1>3. ASSUME NEW f \in Fd PROVE SessOK(f)'
  <2>1. TypeOK /\ TypeOK' /\ SessOK(f)
    BY DEF Inv, Places
  <2>. QED
    BY <1>2, <2>1, SessKept
<1>. QED
  BY <1>2, <1>3

(* While the exchange queue grows, the command at its head stays. *)
LEMMA HeadKept ==
  ASSUME Inv, Closes, UNCHANGED <<vSess, xpc>>, NEW r \in Seq(Commands), exq' = exq \o r
  PROVE  /\ \A f \in Fd : Closing(f)' <=> Closing(f)
         /\ Closes'
         /\ xpc \in {"assign", "on"} => Head(exq') = Head(exq)
<1>1. exq \in Seq(Commands)
  BY DEF Inv, TypeOK
<1>2. exq # << >> => exq' # << >> /\ Head(exq') = Head(exq)
  BY <1>1, HeadConcat
<1>3. xpc \in {"wipe", "assign", "on"} => exq # << >>
  BY DEF Closes, Inv, SigninStays, Head_is
<1>4. \A f \in Fd : Closing(f)' <=> Closing(f)
  BY <1>2, <1>3 DEF Closing, Head_is
<1>5. Closes'
  BY <1>2, <1>3 DEF Closes, Head_is, get_sess
<1>. QED
  BY <1>2, <1>3, <1>4, <1>5

LEMMA FlushTable ==
  ASSUME Inv, Inv', Known, Table, NEW fd \in Fd, Flush(fd)
  PROVE  Known' /\ Table'
<1>1. /\ UNCHANGED <<made, sn, open, polled, vSess, xpc, wq, vPid2Sid, sent, gPlys, conn,
                    certified>>
      /\ exq' = exq \o out[fd] /\ out' = [out EXCEPT ![fd] = << >>]
  BY DEF Flush, servers, history
<1>2. /\ exq \in Seq(Commands) /\ out[fd] \in Seq(Commands)
      /\ out'[fd] = << >> /\ \A f \in Fd \ {fd} : out'[f] = out[f]
  BY <1>1 DEF Inv, TypeOK
<1>3. Items(exq') = Items(exq) \union Items(out[fd]) /\ Items(out'[fd]) = {}
  BY <1>1, <1>2, ItemsConcat, ItemsOfOne
<1>4. /\ \A f \in Fd : Closing(f)' <=> Closing(f)
      /\ Closes' /\ (xpc \in {"assign", "on"} => Head(exq') = Head(exq))
  BY <1>1, <1>2, HeadKept DEF Known
<1>5. Conns'
  BY <1>1 DEF Known, Conns
<1>6. made <= made' /\ Places
  BY <1>1 DEF Known, Inv, TypeOK
<1>7. Steady /\ \A f \in Fd : SessOK(f)'
  BY <1>1, <1>4, <1>6, SessionsStay
<1>8. ASSUME NEW f \in Fd PROVE MapFirst(f)'
  <2>1. \A b \in Items(out'[f]) \union Items(exq') \union Items(wq'[f]) :
           b.cmd = "INCOME" /\ b.fd = f =>
             b \in Items(out[f]) \union Items(exq) \union Items(wq[f])
    BY <1>1, <1>2, <1>3 DEF Inv, OwnQueue, NewCmds
  <2>2. SaysMap(f) => SaysMap(f)'
    BY <1>1 DEF SaysMap
  <2>. QED
    BY <1>1, <1>6, <2>1, <2>2, MapFirstKept DEF Places
<1>9. Places'
  <2>1. NewCommands
    BY <1>2, <1>3 DEF NewCommands
  <2>2. NewQueued /\ NewSaid /\ NewSids
    BY <1>1 DEF NewQueued, NewSaid, NewSids
  <2>. QED
    BY <1>6, <1>7, <1>8, <2>1, <2>2, PlacesKept DEF Inv
<1>10. ASSUME NEW n \in Nat PROVE FirstOnce(n)' /\ (Pending(n)' => Pending(n))
  <2>1. FirstOnce(n)
    BY DEF Known, OnePlayer
  <2>2. Has(exq', n) <=> Has(exq, n) \/ Has(out[fd], n)
    BY <1>3 DEF Has
  <2>3. ~Has(out'[fd], n) /\ Single(out'[fd], n)
    BY <1>3, NoFirst DEF Has
  <2>4. Single(exq', n)
    BY <1>1, <1>2, <2>1, FirstConcat DEF FirstOnce
  <2>5. /\ \A f \in Fd : /\ Single(out'[f], n) /\ Single(wq'[f], n)
                         /\ ~(Has(exq', n) /\ Has(out'[f], n))
                         /\ ~(Has(exq', n) /\ Has(wq'[f], n))
        /\ \A f, g \in Fd : /\ ~(Has(out'[f], n) /\ Has(wq'[g], n))
                            /\ Has(out'[f], n) /\ Has(out'[g], n) => f = g
                            /\ Has(wq'[f], n) /\ Has(wq'[g], n) => f = g
    BY <1>1, <1>2, <2>1, <2>2, <2>3 DEF FirstOnce
  <2>6. Pending(n)' => Pending(n)
    BY <1>1, <1>2, <2>2, <2>3 DEF Pending
  <2>. QED
    BY <2>4, <2>5, <2>6 DEF FirstOnce
<1>11. OnePlayer'
  <2>1. \A f \in Fd : Waiting(f)' => Waiting(f)
    BY <1>1, <1>2, <1>3 DEF Waiting, Holds, IsNew, Inv, OwnQueue
  <2>2. \A f \in Fd : Fresh(f)' => Fresh(f) /\ conn'[f] = conn[f]
    BY <1>1, <1>4, <2>1 DEF Fresh
  <2>. QED
    BY <1>1, <1>6, <1>10, <2>2, OneKept DEF Inv, Known
<1>12. Table'
  BY <1>1, <1>4, TableKept
<1>. QED
  BY <1>4, <1>5, <1>9, <1>11, <1>12 DEF Known

LEMMA AcceptTable ==
  ASSUME Inv, Inv', Known, Table, NEW fd \in Fd, NEW mode \in {"CLI", "SRV"}, NEW m \in Map,
         Accept(fd, mode, m)
  PROVE  Known' /\ Table'
<1>. DEFINE b == Income(fd, mode)
            msgs == <<b>>
            id == [type |-> "SET_MAP_ID", map |-> m]
<1>1. /\ UNCHANGED <<sn, polled, vSess, exq, xpc, wq, vPid2Sid, gPlys>>
      /\ fd \notin open /\ open' = open \union {fd} /\ made' = made + 1
      /\ conn' = [conn EXCEPT ![fd] = made + 1]
      /\ out' = [out EXCEPT ![fd] = @ \o msgs]
  BY DEF Accept, Emit
<1>2. /\ mode = "SRV" => sent' = [sent EXCEPT ![fd] = <<id>>]
      /\ mode = "CLI" => sent' = [sent EXCEPT ![fd] = << >>]
      /\ certified' = IF mode = "SRV" THEN certified \union {<<made + 1, m>>} ELSE certified
  BY DEF Accept
<1>3. b \in Commands /\ b.cmd = "INCOME" /\ b.fd = fd /\ b.mode = mode
  BY NewConnType DEF Income
<1>4. msgs \in Seq({b}) /\ Items(msgs) = {b}
  BY ItemsOfOne
<1>5. /\ id.type = "SET_MAP_ID" /\ id.map = m
      /\ Items(<<id>>) = {id} /\ Items(<< >>) = {} /\ <<id>> # << >> /\ Head(<<id>>) = id
  BY ItemsOfOne
<1>. HIDE DEF b, msgs, id
<1>6. /\ Items(out'[fd]) = Items(out[fd]) \union {b} /\ \A f \in Fd \ {fd} : out'[f] = out[f]
  BY <1>1, <1>4, EmitItems DEF Inv
<1>7. /\ conn'[fd] = made + 1 /\ \A f \in Fd \ {fd} : conn'[f] = conn[f] /\ sent'[f] = sent[f]
      /\ mode = "SRV" => sent'[fd] = <<id>>
      /\ mode = "CLI" => sent'[fd] = << >>
  BY <1>1, <1>2 DEF Inv, TypeOK
<1>8. made \in Nat /\ made <= made' /\ certified \subseteq certified' /\ open \subseteq Fd
  BY <1>1, <1>2 DEF Inv, TypeOK
<1>9. /\ \A f \in Fd : Closing(f)' <=> Closing(f)
      /\ Closes'
  BY <1>1 DEF Closing, Head_is, Known, Closes, get_sess
<1>10. Steady /\ \A f \in Fd : SessOK(f)'
  <2>1. \A f \in open : conn'[f] = conn[f]
    BY <1>1, <1>7, <1>8
  <2>. QED
    BY <1>1, <1>8, <1>9, <2>1, SessionsStay DEF Known
<1>11. ~Waiting(fd) /\ fd \notin polled
  BY <1>1 DEF Inv, WaitingOpen
<1>12. \A f \in Fd \ {fd} : MapFirst(f)'
  BY <1>1, <1>6, <1>7 DEF Known, Places, MapFirst, SaysMap
<1>13. MapFirst(fd)'
  <2>1. mode = "SRV" => SaysMap(fd)'
    BY <1>5, <1>7 DEF SaysMap
  <2>2. \A c \in Items(out[fd]) \union Items(exq) \union Items(wq[fd]) :
          c.cmd = "INCOME" => c.fd # fd
    BY <1>11 DEF Waiting, Holds, IsNew, NewCmds
  <2>. QED
    BY <1>1, <1>3, <1>6, <1>11, <2>1, <2>2 DEF MapFirst
<1>14. Places'
  <2>1. CommandOK(b)'
    BY <1>3 DEF CommandOK
  <2>2. NewCommands
    BY <1>1, <1>6, <2>1 DEF NewCommands
  <2>3. NewQueued /\ NewSids
    BY <1>1 DEF NewQueued, NewSids
  <2>4. NewSaid
    <3>1. \A r \in Items(sent'[fd]) : SaidOK(fd, r)'
      <4>1. CASE mode = "SRV"
        <5>1. <<conn'[fd], m>> \in certified'
          BY <1>2, <1>7, <4>1
        <5>2. SaidOK(fd, id)'
          BY <1>5, <5>1 DEF SaidOK
        <5>. QED
          BY <1>5, <1>7, <4>1, <5>2
      <4>2. CASE mode = "CLI"
        BY <1>5, <1>7, <4>2
      <4>. QED
        BY <4>1, <4>2
    <3>. QED
      BY <1>7, <3>1 DEF NewSaid
  <2>. QED
    BY <1>10, <1>12, <1>13, <2>2, <2>3, <2>4, PlacesKept DEF Known, Inv
<1>15. Conns'
  <2>0. \A f \in Fd : conn[f] \in Nat /\ conn[f] <= made
    BY DEF Known, Conns, Inv, TypeOK
  <2>1. \A f \in Fd : conn'[f] <= made' /\ (f # fd => conn'[f] # made + 1)
    <3>1. \A f \in Fd : f # fd => conn'[f] <= made + 1 /\ conn'[f] # made + 1
      BY <2>0, <1>7, <1>8
    <3>2. made' = made + 1 /\ conn'[fd] <= made + 1
      BY <1>1, <1>7, <1>8
    <3>. QED
      BY <3>1, <3>2
  <2>2. \A f, g \in open' : conn'[f] = conn'[g] => f = g
    BY <1>1, <1>7, <1>8, <2>1 DEF Known, Conns
  <2>3. \A c \in certified' : c \in Nat \X Pid /\ c[1] <= made'
    BY <1>1, <1>2, <1>8 DEF Known, Conns, Pid
  <2>. QED
    BY <2>1, <2>2, <2>3 DEF Conns
<1>16. OnePlayer'
  <2>1. ~IsFirst(b, 0) /\ \A n : ~IsFirst(b, n)
    BY <1>3 DEF IsFirst
  <2>2. \A f \in Fd : NoMore(out[f], out'[f]) /\ NoMore(wq[f], wq'[f])
    <3>1. \A n : ~Has(msgs, n)
      BY <1>4, <2>1 DEF Has
    <3>2. out[fd] \in Seq(Commands) /\ out'[fd] = out[fd] \o msgs
      BY <1>1 DEF Inv, TypeOK
    <3>3. NoMore(out[fd], out'[fd])
      BY <1>4, <3>1, <3>2, FirstGrows
    <3>. QED
      BY <1>1, <1>6, <3>3, NoMoreSame
  <2>3. NoMore(exq, exq')
    BY <1>1, NoMoreSame
  <2>4. \A n \in Nat : FirstOnce(n)' /\ (Pending(n)' => Pending(n))
    BY <2>2, <2>3, NoMoreOnce DEF Known, OnePlayer
  <2>5. \A n \in Nat, p \in Player : <<n, p>> \in certified' => <<n, p>> \in certified
    BY <1>2, GateAssumption
  <2>6. \A f \in Fd \ {fd} : Waiting(f)' => Waiting(f)
    BY <1>1, <1>6 DEF Waiting
  <2>7. \A f \in Fd : Fresh(f)' => \/ Fresh(f) /\ conn'[f] = conn[f]
                                   \/ conn'[f] = made + 1
    BY <1>1, <1>7, <1>9, <2>6 DEF Fresh
  <2>. QED
    BY <1>8, <2>4, <2>5, <2>7, OneKept DEF Known, Inv
<1>17. Table'
  BY <1>1, <1>9, TableKept
<1>. QED
  BY <1>9, <1>14, <1>15, <1>16, <1>17 DEF Known

LEMMA ConnectTable ==
  ASSUME Inv, Inv', Known, Table, NEW fd \in Fd, start_connect(fd)
  PROVE  Known' /\ Table'
<1>. DEFINE b == Connect(fd)
            msgs == <<b>>
<1>1. /\ UNCHANGED <<sn, polled, out, vSess, xpc, wq, vPid2Sid, gPlys>>
      /\ fd \notin open /\ open' = open \union {fd} /\ made' = made + 1
      /\ conn' = [conn EXCEPT ![fd] = made + 1]
      /\ exq' = Append(exq, b)
      /\ sent' = [sent EXCEPT ![fd] = << >>]
      /\ certified' = certified \union {<<made + 1, PidTool>>}
  BY DEF start_connect
<1>2. b \in Commands /\ b.cmd = "CONNECT" /\ b.fd = fd /\ exq \in Seq(Commands)
  BY NewConnType DEF Connect, Inv, TypeOK
<1>. HIDE DEF b
<1>3. /\ Items(exq') = Items(exq) \union {b}
      /\ msgs \in Seq(Commands) /\ exq' = exq \o msgs
      /\ Items(msgs) = {b}
  <2>1. Items(exq') = Items(exq) \union {b}
    BY <1>1, <1>2, FirstAppend
  <2>2. msgs \in Seq(Commands) /\ exq' = exq \o msgs
    BY <1>1, <1>2, AppendIsConcat
  <2>3. Items(msgs) = {b}
    BY ItemsOfOne
  <2>. QED
    BY <2>1, <2>2, <2>3
<1>. HIDE DEF msgs
<1>4. /\ conn'[fd] = made + 1 /\ \A f \in Fd \ {fd} : conn'[f] = conn[f] /\ sent'[f] = sent[f]
      /\ Items(sent'[fd]) = {}
  BY <1>1, ItemsOfOne DEF Inv, TypeOK
<1>5. made \in Nat /\ made <= made' /\ certified \subseteq certified' /\ open \subseteq Fd
  BY <1>1 DEF Inv, TypeOK
<1>6. /\ \A f \in Fd : Closing(f)' <=> Closing(f)
      /\ Closes' /\ (xpc \in {"assign", "on"} => Head(exq') = Head(exq))
  BY <1>1, <1>3, HeadKept DEF Known
<1>7. Steady /\ \A f \in Fd : SessOK(f)'
  <2>1. \A f \in open : conn'[f] = conn[f]
    BY <1>1, <1>4, <1>5
  <2>. QED
    BY <1>1, <1>5, <1>6, <2>1, SessionsStay DEF Known
<1>8. ~Waiting(fd) /\ fd \notin polled
  BY <1>1 DEF Inv, WaitingOpen
<1>9. \A f \in Fd \ {fd} : MapFirst(f)'
  BY <1>1, <1>2, <1>3, <1>4 DEF Known, Places, MapFirst, SaysMap
<1>10. MapFirst(fd)'
  <2>1. \A c \in Items(out[fd]) \union Items(exq) \union Items(wq[fd]) :
          c.cmd = "INCOME" => c.fd # fd
    BY <1>8 DEF Waiting, Holds, IsNew, NewCmds
  <2>. QED
    BY <1>1, <1>2, <1>3, <1>8, <2>1 DEF MapFirst
<1>11. Places'
  <2>1. CommandOK(b)'
    BY <1>1, <1>2, <1>4 DEF CommandOK
  <2>2. NewCommands
    BY <1>1, <1>3, <2>1 DEF NewCommands
  <2>3. NewQueued /\ NewSids
    BY <1>1 DEF NewQueued, NewSids
  <2>4. NewSaid
    BY <1>4 DEF NewSaid
  <2>. QED
    BY <1>7, <1>9, <1>10, <2>2, <2>3, <2>4, PlacesKept DEF Known, Inv
<1>12. Conns'
  <2>1. \A f \in Fd : conn'[f] <= made' /\ (f # fd => conn'[f] # made + 1)
    BY <1>1, <1>4, <1>5 DEF Known, Conns, Inv, TypeOK
  <2>2. \A f, g \in open' : conn'[f] = conn'[g] => f = g
    BY <1>1, <1>4, <1>5, <2>1 DEF Known, Conns
  <2>3. \A c \in certified' : c \in Nat \X Pid /\ c[1] <= made'
    BY <1>1, <1>5 DEF Known, Conns, Pid
  <2>. QED
    BY <2>1, <2>2, <2>3 DEF Conns
<1>13. OnePlayer'
  <2>1. \A n : ~Has(msgs, n)
    BY <1>2, <1>3 DEF Has, IsFirst
  <2>2. NoMore(exq, exq')
    BY <1>2, <1>3, <2>1, FirstGrows
  <2>3. \A f \in Fd : NoMore(out[f], out'[f]) /\ NoMore(wq[f], wq'[f])
    BY <1>1, NoMoreSame
  <2>4. \A n \in Nat : FirstOnce(n)' /\ (Pending(n)' => Pending(n))
    BY <2>2, <2>3, NoMoreOnce DEF Known, OnePlayer
  <2>5. \A n \in Nat, p \in Player : <<n, p>> \in certified' => <<n, p>> \in certified
    BY <1>1, GateAssumption
  <2>6. \A f \in Fd \ {fd} : Waiting(f)' => Waiting(f)
    BY <1>1, <1>2, <1>3 DEF Waiting, Holds, IsNew
  <2>7. \A f \in Fd : Fresh(f)' => \/ Fresh(f) /\ conn'[f] = conn[f]
                                   \/ conn'[f] = made + 1
    BY <1>1, <1>4, <1>6, <2>6 DEF Fresh
  <2>. QED
    BY <1>5, <2>4, <2>5, <2>7, OneKept DEF Known, Inv
<1>14. Table'
  BY <1>1, <1>6, TableKept
<1>. QED
  BY <1>6, <1>11, <1>12, <1>13, <1>14 DEF Known

(* The worker takes a new connection, whose session is wiped: no sid, pid  *)
(* or entry of the table is about it yet.                                  *)
LEMMA TakesTable ==
  ASSUME Inv, Inv', Known, Table, NEW fd \in Fd,
         UNCHANGED <<made, open, exq, xpc, vPid2Sid, sent, gPlys, conn, certified>>,
         sn' = sn + 1, polled' = polled \union {fd},
         wq[fd] # << >>, Head(wq[fd]).cmd \in NewCmds, wq' = [wq EXCEPT ![fd] = Tail(@)],
         \A f \in Fd \ {fd} : vSess'[f] = vSess[f],
         vSess'[fd].sid = <<sn + 1, fd>>, vSess'[fd].map = None,
         vSess'[fd].pid \notin Player,
         vSess'[fd].pid # None => Meant(vSess[fd].sid, vSess[fd].pid)',
         vSess'[fd].mode = "SRV" => Head(wq[fd]).cmd = "INCOME" /\ Head(wq[fd]).mode = "SRV",
         NEW S, NEW msgs \in Seq(S), out' = [out EXCEPT ![fd] = @ \o msgs],
         \A b \in Items(msgs) : CommandOK(b)' /\ b.cmd \notin NewCmds /\ \A n : ~IsFirst(b, n)
  PROVE  Known' /\ Table'
<1>. DEFINE h == Head(wq[fd])
            Q == RoutedPackets \union NewConns
<1>1. Items(out'[fd]) = Items(out[fd]) \union Items(msgs) /\ \A f \in Fd \ {fd} : out'[f] = out[f]
  BY EmitItems DEF Inv
<1>2. /\ wq[fd] \in Seq(Q) /\ wq'[fd] = Tail(wq[fd])
      /\ \A f \in Fd \ {fd} : wq'[f] = wq[f]
  BY DEF Inv, TypeOK
<1>. HIDE DEF Q
<1>3. h \in Items(wq[fd]) /\ Items(wq'[fd]) \subseteq Items(wq[fd])
  BY <1>2, HeadIsItem
<1>4. h.fd = fd /\ fd \in open /\ fd \notin polled /\ Waiting(fd) /\ IsNew(h, fd)
  BY <1>3, ConnectOpen DEF Inv, OwnQueue, IsNew
<1>5. vSess[fd] = NoSess /\ vSess[fd].sid = None /\ vSess[fd].pid = None
  BY <1>3, <1>4 DEF Inv, WaitingWiped, Holds, NoSess
<1>6. \A f \in Fd : Closing(f)' <=> Closing(f)
  BY DEF Closing, Head_is
<1>7. ~Closing(fd)
  BY <1>5 DEF Known, Closes, Closing, get_sess
<1>8. Closes'
  <2>1. SUFFICES ASSUME xpc = "wipe" PROVE Head_is("SIGNOUT") /\ get_sess(Head(exq).sid)'
    BY DEF Closes, Head_is
  <2>2. Head_is("SIGNOUT") /\ get_sess(Head(exq).sid)
    BY <2>1 DEF Known, Closes
  <2>3. FdOf(Head(exq).sid) \in Fd /\ FdOf(Head(exq).sid) # fd
    BY <1>5, <2>2, HeadType, CommandFields, SidFd DEF Head_is, get_sess, Inv
  <2>. QED
    BY <2>2, <2>3 DEF get_sess
<1>9. Conns'
  BY DEF Known, Conns
<1>10. sn \in Nat /\ sn <= sn' /\ made <= made'
  BY DEF Inv, TypeOK
<1>11. Steady
  <2>1. \A f \in Fd :
           \/ /\ vSess'[f].sid = vSess[f].sid /\ vSess'[f].mode = vSess[f].mode
              /\ Closing(f) => Closing(f)'
           \/ vSess'[f] = NoSess
           \/ vSess'[f].sid = <<sn + 1, f>>
    BY <1>6
  <2>. QED
    BY <1>10, <2>1, SteadyStep
<1>12. ASSUME NEW f \in Fd \ {fd} PROVE SessOK(f)' /\ MapFirst(f)'
  <2>1. SessOK(f)'
    <3>1. TypeOK /\ TypeOK' /\ SessOK(f)
      BY DEF Inv, Known, Places
    <3>. QED
      BY <1>6, <1>11, <3>1, SessKept
  <2>2. MapFirst(f)'
    BY <1>1, <1>2 DEF Known, Places, MapFirst, SaysMap
  <2>. QED
    BY <2>1, <2>2
<1>13. SessOK(fd)'
  <2>1. vSess'[fd].sid # None
    <3>1. <<sn + 1, fd>> \in Sid
      BY <1>10 DEF Sid
    <3>. QED
      BY <3>1, GateAssumption DEF Sid
  <2>. QED
    BY <1>6, <1>7, <2>1 DEF SessOK
<1>14. MapFirst(fd)'
  <2>1. vSess'[fd].mode = "SRV" => SaysMap(fd)
    BY <1>3, <1>4 DEF Known, Places, MapFirst
  <2>2. \A b \in Items(out'[fd]) \union Items(exq') \union Items(wq'[fd]) :
          b.cmd = "INCOME" => b \in Items(out[fd]) \union Items(exq) \union Items(wq[fd])
    BY <1>1, <1>3 DEF NewCmds
  <2>3. SaysMap(fd)' <=> SaysMap(fd)
    BY DEF SaysMap
  <2>. QED
    BY <2>1, <2>2, <2>3 DEF Known, Places, MapFirst
<1>15. Places'
  <2>1. NewCommands
    BY <1>1 DEF NewCommands
  <2>2. NewQueued
    BY <1>2, <1>3 DEF NewQueued
  <2>3. NewSaid /\ NewSids
    BY DEF NewSaid, NewSids
  <2>. QED
    BY <1>11, <1>12, <1>13, <1>14, <2>1, <2>2, <2>3, PlacesKept DEF Known, Inv
<1>16. OnePlayer'
  <2>1. \A f \in Fd : NoMore(out[f], out'[f])
    <3>1. \A n : ~Has(msgs, n)
      BY DEF Has
    <3>2. out[fd] \in Seq(Commands) /\ out'[fd] = out[fd] \o msgs
      BY DEF Inv, TypeOK
    <3>3. NoMore(out[fd], out'[fd])
      BY <3>1, <3>2, FirstGrows
    <3>. QED
      BY <1>1, <3>3, NoMoreSame
  <2>2. \A f \in Fd : NoMore(wq[f], wq'[f])
    BY <1>2, FirstTail, NoMoreSame
  <2>3. NoMore(exq, exq')
    BY NoMoreSame
  <2>4. \A n \in Nat : FirstOnce(n)' /\ (Pending(n)' => Pending(n))
    BY <2>1, <2>2, <2>3, NoMoreOnce DEF Known, OnePlayer
  <2>5. \A f \in Fd \ {fd} : Waiting(f)' => Waiting(f)
    BY <1>1, <1>2 DEF Waiting
  <2>6. \A f \in Fd : Fresh(f)' => Fresh(f) /\ conn'[f] = conn[f]
    BY <1>4, <1>6, <2>5 DEF Fresh
  <2>7. \A n \in Nat, p \in Player : <<n, p>> \in certified' => <<n, p>> \in certified
    OBVIOUS
  <2>. QED
    BY <1>10, <2>4, <2>6, <2>7, OneKept DEF Known, Inv
<1>17. Table'
  <2>1. None \notin Player
    BY GateAssumption
  <2>. QED
    BY <1>5, <1>6, <2>1, TableKept
<1>. QED
  BY <1>8, <1>9, <1>15, <1>16, <1>17 DEF Known

LEMMA DoIncomeTable ==
  ASSUME Inv, Inv', Known, Table, NEW fd \in Fd, DoIncome(fd)
  PROVE  Known' /\ Table'
<1>. DEFINE msgs == << >>
<1>1. /\ UNCHANGED <<made, open, out, exq, xpc, vPid2Sid, sent, gPlys, conn, certified>>
      /\ sn' = sn + 1 /\ polled' = polled \union {fd}
      /\ wq[fd] # << >> /\ Head(wq[fd]).cmd = "INCOME" /\ wq' = [wq EXCEPT ![fd] = Tail(@)]
  BY DEF DoIncome, NextIs, Took, servers, history
<1>2. vSess[fd] = NoSess
  <2>. DEFINE Q == RoutedPackets \union NewConns
  <2>1. wq[fd] \in Seq(Q)
    BY DEF Inv, TypeOK
  <2>. HIDE DEF Q
  <2>2. Head(wq[fd]) \in Items(wq[fd])
    BY <1>1, <2>1, HeadIsItem
  <2>. QED
    BY <1>1, <2>2 DEF Inv, OwnQueue, WaitingWiped, Holds, IsNew, NewCmds
<1>3. /\ vSess'[fd].sid = <<sn + 1, fd>> /\ vSess'[fd].map = None /\ vSess'[fd].pid = None
      /\ vSess'[fd].mode = Head(wq[fd]).mode
      /\ \A f \in Fd \ {fd} : vSess'[f] = vSess[f]
  BY <1>2 DEF DoIncome, Inv, TypeOK, Sess, NoSess
<1>4. msgs \in Seq(Commands) /\ Items(msgs) = {}
  BY ItemsOfOne
<1>5. out \in [Fd -> Seq(Commands)] /\ out[fd] \in Seq(Commands)
  BY DEF Inv, TypeOK
<1>6. out' = [out EXCEPT ![fd] = @ \o msgs]
  BY <1>1, <1>5, ConcatEmptySeq
<1>. HIDE DEF msgs
<1>7. None \notin Player /\ Head(wq[fd]).cmd \in NewCmds
  BY <1>1, GateAssumption DEF NewCmds
<1>. QED
  BY <1>1, <1>3, <1>4, <1>6, <1>7, TakesTable

LEMMA DoConnectTable ==
  ASSUME Inv, Inv', Known, Table, NEW fd \in Fd, DoConnect(fd)
  PROVE  Known' /\ Table'
<1>. DEFINE sid == <<sn + 1, fd>>
            b == SigninSrv(sid, PidTool)
            msgs == <<b>>
            h == Head(wq[fd])
<1>1. /\ UNCHANGED <<made, open, exq, xpc, vPid2Sid, sent, gPlys, conn, certified>>
      /\ sn' = sn + 1 /\ polled' = polled \union {fd}
      /\ wq[fd] # << >> /\ h.cmd = "CONNECT" /\ wq' = [wq EXCEPT ![fd] = Tail(@)]
      /\ out' = [out EXCEPT ![fd] = @ \o msgs]
  BY DEF DoConnect, NextIs, Took, Emit, servers, history
<1>2. h \in Items(wq[fd])
  <2>. DEFINE Q == RoutedPackets \union NewConns
  <2>1. wq[fd] \in Seq(Q)
    BY DEF Inv, TypeOK
  <2>. HIDE DEF Q
  <2>. QED
    BY <1>1, <2>1, HeadIsItem
<1>3. vSess[fd] = NoSess
  BY <1>1, <1>2 DEF Inv, OwnQueue, WaitingWiped, Holds, IsNew, NewCmds
<1>4. <<conn[fd], PidTool>> \in certified
  BY <1>1, <1>2 DEF Known, Places, QueuedOK, Inv, OwnQueue, NewCmds
<1>5. /\ vSess'[fd].sid = sid /\ vSess'[fd].map = None /\ vSess'[fd].pid = PidTool
      /\ vSess'[fd].mode = "TOOL"
      /\ \A f \in Fd \ {fd} : vSess'[f] = vSess[f]
  BY <1>3 DEF DoConnect, Inv, TypeOK, Sess, NoSess
<1>6. /\ b.cmd = "SIGNIN_SRV" /\ b.sid = sid /\ b.pid = PidTool
      /\ sid[1] = sn + 1 /\ FdOf(sid) = fd
  BY DEF SigninSrv, FdOf
<1>. HIDE DEF b, sid, h
<1>7. sn + 1 <= sn'
  BY <1>1 DEF Inv, TypeOK
<1>8. ASSUME NEW x, x = sid PROVE Meant(x, PidTool)'
  BY <1>1, <1>4, <1>5, <1>6, <1>7, <1>8, Kinds DEF Meant
<1>9. Meant(vSess[fd].sid, vSess[fd].pid)'
  BY <1>5, <1>8 DEF Meant, Live, get_sess
<1>10. ASSUME NEW c, c = b PROVE CommandOK(c)' /\ c.cmd \notin NewCmds /\ \A n : ~IsFirst(c, n)
  <2>1. c.cmd = "SIGNIN_SRV" /\ c.pid = PidTool /\ c.sid = sid
    BY <1>6, <1>10
  <2>2. ASSUME NEW x, x = c.sid, NEW p, p = PidTool PROVE Meant(x, p)'
    BY <1>8, <2>1, <2>2
  <2>3. Meant(c.sid, c.pid)'
    BY <2>1, <2>2
  <2>. QED
    BY <2>1, <2>3 DEF CommandOK, NewCmds, IsFirst
<1>11. msgs \in Seq({b}) /\ Items(msgs) = {b}
  BY ItemsOfOne
<1>. HIDE DEF msgs
<1>12. \A c \in Items(msgs) : CommandOK(c)' /\ c.cmd \notin NewCmds /\ \A n : ~IsFirst(c, n)
  BY <1>10, <1>11
<1>13. PidTool \notin Player /\ h.cmd \in NewCmds /\ vSess'[fd].mode # "SRV"
  BY <1>1, <1>5, GateAssumption DEF NewCmds
<1>. QED
  BY <1>1, <1>5, <1>6, <1>9, <1>11, <1>12, <1>13, TakesTable DEF sid, h

-----------------------------------------------------------------------------
(* The peers. *)

(* A step that touches no session, no number and no queue but those of the *)
(* peers, nor takes a connection's certification away.                     *)
Apart ==
  /\ UNCHANGED <<made, sn, open, polled, out, exq, xpc, vSess, vPid2Sid, conn>>
  /\ certified \subseteq certified'
  /\ \A f \in Fd : /\ wq'[f] = wq[f] \/ (wq[f] # << >> /\ wq'[f] = Tail(wq[f]))
                   /\ SaysMap(f) => SaysMap(f)'

LEMMA ApartTable ==
  ASSUME Inv, Inv', Known, Table, Apart, NewSaid, NewSids
  PROVE  /\ Closes' /\ Places' /\ Table'
         /\ \A n \in Nat : FirstOnce(n)' /\ (Pending(n)' => Pending(n))
         /\ \A f \in Fd : Fresh(f)' => Fresh(f)
<1>. DEFINE Q == RoutedPackets \union NewConns
<1>1. \A f \in Fd : wq[f] \in Seq(Q)
  BY DEF Inv, TypeOK
<1>. HIDE DEF Q
<1>2. \A f \in Fd : Items(wq'[f]) \subseteq Items(wq[f]) /\ NoMore(wq[f], wq'[f])
  BY <1>1, HeadIsItem, FirstTail, NoMoreSame DEF Apart
<1>3. /\ \A f \in Fd : Closing(f)' <=> Closing(f)
      /\ Closes'
  BY DEF Apart, Known, Closes, Closing, Head_is, get_sess
<1>4. Steady /\ \A f \in Fd : SessOK(f)'
  <2>1. made <= made'
    BY DEF Apart, Inv, TypeOK
  <2>. QED
    BY <1>3, <2>1, SessionsStay DEF Apart, Known
<1>5. \A f \in Fd : MapFirst(f)'
  BY <1>2, MapFirstKept DEF Apart, Known, Places
<1>6. Places'
  <2>1. NewCommands /\ NewQueued
    BY <1>2 DEF NewCommands, NewQueued, Apart
  <2>. QED
    BY <1>4, <1>5, <2>1, PlacesKept DEF Known, Inv
<1>7. Table'
  BY <1>3, TableKept DEF Apart
<1>8. \A n \in Nat : FirstOnce(n)' /\ (Pending(n)' => Pending(n))
  BY <1>2, NoMoreSame, NoMoreOnce DEF Apart, Known, OnePlayer
<1>9. \A f \in Fd : Fresh(f)' => Fresh(f)
  BY <1>2, <1>3 DEF Fresh, Waiting, Holds, Apart
<1>. QED
  BY <1>3, <1>6, <1>7, <1>8, <1>9

(* When nobody is certified, what is meant for whom is as before. *)
LEMMA MeantSame ==
  ASSUME Apart, certified' = certified
  PROVE  /\ \A x, p : Meant(x, p)' <=> Meant(x, p)
         /\ \A to, type, arg : PacketOK(to, type, arg)' <=> PacketOK(to, type, arg)
         /\ \A f, r : SaidOK(f, r)' <=> SaidOK(f, r)
<1>1. \A x, p : Meant(x, p)' <=> Meant(x, p)
  BY DEF Apart, Meant, Live, get_sess, Closing, Head_is
<1>2. \A x, n : Asked(x, n)' <=> Asked(x, n)
  BY DEF Apart, Asked, Live, get_sess, Closing, Head_is
<1>3. \A to, type, arg : PacketOK(to, type, arg)' <=> PacketOK(to, type, arg)
  <2>. SUFFICES ASSUME NEW to, NEW type, NEW arg
                PROVE  PacketOK(to, type, arg)' <=> PacketOK(to, type, arg)
    OBVIOUS
  <2>1. Meant(arg[2], arg[1])' <=> Meant(arg[2], arg[1])
    BY <1>1
  <2>2. Asked(arg[1], arg[2])' <=> Asked(arg[1], arg[2])
    BY <1>2
  <2>. QED
    BY <2>1, <2>2 DEF PacketOK
<1>4. \A f, r : SaidOK(f, r)' <=> SaidOK(f, r)
  <2>. SUFFICES ASSUME NEW f, NEW r PROVE SaidOK(f, r)' <=> SaidOK(f, r)
    OBVIOUS
  <2>1. Meant(r.sid, r.pid)' <=> Meant(r.sid, r.pid)
    BY <1>1
  <2>2. PacketOK(r.to, r.what, r.arg)' <=> PacketOK(r.to, r.what, r.arg)
    BY <1>3
  <2>3. conn' = conn
    BY DEF Apart
  <2>. QED
    BY <2>1, <2>2, <2>3 DEF SaidOK
<1>. QED
  BY <1>1, <1>3, <1>4

LEMMA PeerTable ==
  ASSUME Inv, Inv', Known, Table, Apart, certified' = certified,
         \A f \in Fd : \A r \in Items(sent'[f]) : r \in Items(sent[f]) \/ SaidOK(f, r),
         \A m \in Map, p \in Player :
           gPlys'[m][p].sockid = gPlys[m][p].sockid \/ Meant(gPlys'[m][p].sockid, p)
  PROVE  Known' /\ Table'
<1>1. NewSaid
  <2>1. \A f \in Fd : conn'[f] = conn[f]
    BY DEF Apart
  <2>. QED
    BY <2>1, MeantSame DEF NewSaid
<1>2. NewSids
  <2>1. ASSUME NEW m \in Map, NEW p \in Player, Meant(gPlys'[m][p].sockid, p)
        PROVE  Meant(gPlys[m][p].sockid, p)'
    <3>1. ASSUME NEW x, x = gPlys'[m][p].sockid PROVE Meant(x, p)'
      BY <2>1, <3>1, MeantSame
    <3>. QED
      BY <3>1 DEF Meant, Live, get_sess
  <2>. QED
    BY <2>1 DEF NewSids, Apart
<1>3. /\ Closes' /\ Places' /\ Table'
      /\ \A n \in Nat : FirstOnce(n)' /\ (Pending(n)' => Pending(n))
      /\ \A f \in Fd : Fresh(f)' => Fresh(f)
  BY <1>1, <1>2, ApartTable
<1>4. Conns'
  BY DEF Apart, Known, Conns
<1>5. OnePlayer'
  <2>1. made <= made' /\ \A f \in Fd : conn'[f] = conn[f]
    BY DEF Apart, Inv, TypeOK
  <2>. QED
    BY <1>3, <2>1, OneKept DEF Known, Inv
<1>. QED
  BY <1>3, <1>4, <1>5 DEF Known

(* What is appended for a worker to read. *)
LEMMA SayItems ==
  ASSUME Inv, NEW fd \in Fd, NEW S, NEW msgs \in Seq(S),
         sent' = [sent EXCEPT ![fd] = @ \o msgs]
  PROVE  /\ Items(sent'[fd]) = Items(sent[fd]) \union Items(msgs)
         /\ \A f \in Fd \ {fd} : sent'[f] = sent[f]
         /\ \A f \in Fd : SaysMap(f) => SaysMap(f)'
<1>. DEFINE T == Said \union S
<1>1. sent[fd] \in Seq(Said) /\ sent'[fd] = sent[fd] \o msgs
      /\ \A f \in Fd \ {fd} : sent'[f] = sent[f]
  BY DEF Inv, TypeOK
<1>2. sent[fd] \in Seq(T) /\ msgs \in Seq(T)
  BY <1>1, SeqMonotonic
<1>. HIDE DEF T
<1>3. Items(sent'[fd]) = Items(sent[fd]) \union Items(msgs)
  <2>1. Items(sent[fd] \o msgs) = Items(sent[fd]) \union Items(msgs)
    BY <1>2, ItemsConcat
  <2>. QED
    BY <1>1, <2>1
<1>4. \A f \in Fd : SaysMap(f) => SaysMap(f)'
  BY <1>1, <1>2, HeadConcat DEF SaysMap
<1>. QED
  BY <1>1, <1>3, <1>4

LEMMA ArrivesApart ==
  ASSUME Inv, Known, NEW fd \in Fd, Arrives(fd)
  PROVE  /\ UNCHANGED <<made, sn, open, polled, out, exq, xpc, vSess, vPid2Sid, conn>>
         /\ \A f \in Fd : wq'[f] = wq[f] \/ (wq[f] # << >> /\ wq'[f] = Tail(wq[f]))
         /\ \A f \in Fd \ {fd} : wq'[f] = wq[f]
         /\ wq[fd] # << >> /\ wq'[fd] = Tail(wq[fd]) /\ Head(wq[fd]).cmd = "PACKET"
         /\ Head(wq[fd]) \in RoutedPackets \union NewConns
         /\ QueuedOK(Head(wq[fd]))
<1>. DEFINE Q == RoutedPackets \union NewConns
<1>1. /\ UNCHANGED <<made, sn, open, polled, out, exq, xpc, vSess, vPid2Sid, conn>>
      /\ wq[fd] # << >> /\ Head(wq[fd]).cmd = "PACKET" /\ wq' = [wq EXCEPT ![fd] = Tail(@)]
  BY DEF Arrives, NextIs, Took, worker
<1>2. wq \in [Fd -> Seq(Q)]
  BY DEF Inv, TypeOK
<1>. HIDE DEF Q
<1>3. Head(wq[fd]) \in Q /\ Head(wq[fd]) \in Items(wq[fd])
  BY <1>1, <1>2, HeadIsItem, ItemsIn
<1>. QED
  BY <1>1, <1>2, <1>3 DEF Known, Places, Q

(* Who takes a packet without a word. *)
LEMMA SilentTable ==
  ASSUME Inv, Inv', Known, Table, NEW fd \in Fd, Arrives(fd), sent' = sent,
         certified' = certified,
         \A m \in Map, p \in Player :
           gPlys'[m][p].sockid = gPlys[m][p].sockid \/ Meant(gPlys'[m][p].sockid, p)
  PROVE  Known' /\ Table'
<1>1. Apart
  BY ArrivesApart DEF Apart, SaysMap
<1>. QED
  BY <1>1, PeerTable

(* Who says what is not about a session. *)
LEMMA SaidTable ==
  ASSUME Inv, Inv', Known, Table, NEW fd \in Fd, NEW S, NEW msgs \in Seq(S),
         UNCHANGED <<made, sn, open, polled, out, exq, xpc, vSess, vPid2Sid, conn, certified>>,
         \A f \in Fd : wq'[f] = wq[f] \/ (wq[f] # << >> /\ wq'[f] = Tail(wq[f])),
         sent' = [sent EXCEPT ![fd] = @ \o msgs],
         \A r \in Items(msgs) : SaidOK(fd, r),
         \A m \in Map, p \in Player :
           gPlys'[m][p].sockid = gPlys[m][p].sockid \/ Meant(gPlys'[m][p].sockid, p)
  PROVE  Known' /\ Table'
<1>1. /\ Items(sent'[fd]) = Items(sent[fd]) \union Items(msgs)
      /\ \A f \in Fd \ {fd} : sent'[f] = sent[f]
      /\ \A f \in Fd : SaysMap(f) => SaysMap(f)'
  BY SayItems
<1>2. Apart
  BY <1>1 DEF Apart
<1>. QED
  BY <1>1, <1>2, PeerTable

LEMMA ReachTable ==
  ASSUME Inv, Inv', Known, Table, NEW fd \in Fd,
         Discard(fd) \/ ReachClient(fd) \/ ReachTool(fd)
  PROVE  Known' /\ Table'
<1>1. CASE Discard(fd) \/ ReachClient(fd)
  BY <1>1, SilentTable DEF Discard, ReachClient, servers
<1>2. CASE ReachTool(fd)
  <2>. DEFINE r == [type |-> "ACK_TOOL", to |-> Head(wq[fd]).arg]
              msgs == <<r>>
  <2>1. /\ Arrives(fd) /\ gPlys' = gPlys /\ certified' = certified
        /\ sent' = [sent EXCEPT ![fd] = Append(@, r)]
    BY <1>2 DEF ReachTool
  <2>2. SaidOK(fd, r)
    BY DEF SaidOK
  <2>. HIDE DEF r
  <2>3. msgs \in Seq({r}) /\ Items(msgs) = {r}
    BY ItemsOfOne
  <2>4. sent' = [sent EXCEPT ![fd] = @ \o msgs]
    <3>. DEFINE T == Said \union {r}
    <3>1. sent[fd] \in Seq(Said)
      BY DEF Inv, TypeOK
    <3>2. sent[fd] \in Seq(T) /\ r \in T
      BY <3>1, SeqMonotonic
    <3>. HIDE DEF T
    <3>3. Append(sent[fd], r) = sent[fd] \o msgs
      BY <3>2, AppendIsConcat
    <3>. QED
      BY <2>1, <3>3
  <2>. HIDE DEF msgs
  <2>. QED
    BY <2>1, <2>2, <2>3, <2>4, ArrivesApart, SaidTable
<1>. QED
  BY <1>1, <1>2

(* What is said about a session and the player it is meant for. *)
LEMMA AboutOK ==
  ASSUME NEW r \in Said, NEW sid, NEW p, About(sid, p, r), Meant(sid, p), NEW fd
  PROVE  SaidOK(fd, r)
<1>1. CASE r.type = "TO_SCK"
  BY <1>1 DEF SaidOK
<1>2. CASE r.type = "SET_SRV_ID" /\ r.sid = sid /\ r.pid = p
  BY <1>2 DEF SaidOK
<1>3. CASE /\ r.type = "TO" /\ r.to \in Map /\ r.what \in Agents
           /\ r.what \in WithSid => r.arg[1] = p /\ r.arg[2] = sid
  <2>1. r.what # "FIRST_PACKET2" /\ KindOf(r.what) = "SRV"
    BY <1>3 DEF Agents, KindOf, ForServer
  <2>2. KindOfPid(r.to) = "SRV"
    BY <1>3, Kinds
  <2>. QED
    BY <1>3, <2>1, <2>2 DEF SaidOK, PacketOK
<1>. QED
  BY <1>1, <1>2, <1>3 DEF About

LEMMA AboutOKNext ==
  ASSUME NEW r \in Said, NEW sid, NEW p, About(sid, p, r), Meant(sid, p)', NEW fd
  PROVE  SaidOK(fd, r)'
<1>1. CASE r.type = "TO_SCK"
  BY <1>1 DEF SaidOK
<1>2. CASE r.type = "SET_SRV_ID" /\ r.sid = sid /\ r.pid = p
  BY <1>2 DEF SaidOK, Meant, Live, get_sess
<1>3. CASE /\ r.type = "TO" /\ r.to \in Map /\ r.what \in Agents
           /\ r.what \in WithSid => r.arg[1] = p /\ r.arg[2] = sid
  <2>1. r.what # "FIRST_PACKET2" /\ KindOf(r.what) = "SRV"
    BY <1>3 DEF Agents, KindOf, ForServer
  <2>2. KindOfPid(r.to) = "SRV"
    BY <1>3, Kinds
  <2>3. r.what \in WithSid => Meant(r.arg[2], r.arg[1])'
    BY <1>3 DEF Meant, Live, get_sess
  <2>. QED
    BY <1>3, <2>1, <2>2, <2>3 DEF SaidOK, PacketOK
<1>. QED
  BY <1>1, <1>2, <1>3 DEF About

LEMMA AllAboutOK ==
  ASSUME NEW sid, NEW p, Meant(sid, p), NEW msgs \in Seq(AllAbout(sid, p)), NEW fd
  PROVE  \A r \in Items(msgs) : SaidOK(fd, r)
<1>1. \A r \in Items(msgs) : r \in AllAbout(sid, p)
  BY ItemsIn
<1>. QED
  BY <1>1, AboutOK DEF AllAbout

LEMMA HandleTable ==
  ASSUME Inv, Inv', Known, Table, NEW m \in Map, Handles1(m)
  PROVE  Known' /\ Table'
<1>. DEFINE fd == srvFd[m]
            h == Head(wq[fd])
<1>1. PICK type, p, sid :
           /\ ReachServer(m, type) /\ certified' = certified
           /\ Told(m, sid, p)
           /\ sid = None \/ (p \in Player /\ sid = gPlys[m][p].sockid)
           /\ SidsFrom(m, type)
  BY HandledShape DEF Inv, Shape
<1>2. fd \in Fd /\ Arrives(fd) /\ h.type = type
  BY <1>1 DEF ReachServer, Inv, TypeOK
<1>3. Meant(sid, p)
  BY <1>1 DEF Meant, Known, Places
<1>4. \A k \in Map, q \in Player :
        gPlys'[k][q].sockid = gPlys[k][q].sockid \/ Meant(gPlys'[k][q].sockid, q)
  <2>1. type \in WithSid => Meant(Gets(m)[2], Gets(m)[1])
    BY <1>2, ArrivesApart DEF QueuedOK, PacketOK, Gets
  <2>2. \A q : Meant(None, q)
    BY DEF Meant
  <2>. QED
    BY <1>1, <2>1, <2>2 DEF SidsFrom
<1>5. CASE sent' = sent
  <2>. HIDE DEF fd
  <2>. QED
    BY <1>1, <1>2, <1>4, <1>5, SilentTable
<1>6. ASSUME NEW msgs \in Seq(AllAbout(sid, p)), Say(m, msgs) PROVE Known' /\ Table'
  <2>1. \A r \in Items(msgs) : SaidOK(fd, r)
    BY <1>3, AllAboutOK
  <2>2. sent' = [sent EXCEPT ![fd] = @ \o msgs]
    BY <1>6 DEF Say
  <2>. HIDE DEF fd
  <2>. QED
    BY <1>1, <1>2, <1>4, <2>1, <2>2, ArrivesApart, SaidTable
<1>. QED
  BY <1>1, <1>5, <1>6 DEF Told

(* A connection is certified: the packet with which it asked is gone then, *)
(* and it is not certified as another player.                              *)
LEMMA CertifyTable ==
  ASSUME Inv, Inv', Known, Table, NEW m \in Map, NEW p \in Player, Certify(m, p)
  PROVE  Known' /\ Table'
<1>. DEFINE fd == srvFd[m]
            h == Head(wq[fd])
            a == h.arg
<1>0. /\ ReachServer(m, "FIRST_PACKET2")
      /\ certified' = certified \union {<<a[2], p>>}
      /\ \E msgs \in Seq(AllAbout(a[1], p)) : Say(m, msgs)
      /\ \A k \in Map, q \in Player : \/ gPlys'[k][q].sockid = gPlys[k][q].sockid
                                      \/ q = p /\ gPlys'[k][q].sockid = a[1]
  BY CertifiedShape DEF Inv, Gets
<1>1. /\ fd \in Fd /\ Arrives(fd) /\ h.type = "FIRST_PACKET2"
      /\ certified' = certified \union {<<a[2], p>>}
  BY <1>0 DEF ReachServer, Inv, TypeOK
<1>7. PICK msgs \in Seq(AllAbout(a[1], p)) : sent' = [sent EXCEPT ![fd] = @ \o msgs]
  BY <1>0 DEF Say
<1>. HIDE DEF fd
<1>2. /\ UNCHANGED <<made, sn, open, polled, out, exq, xpc, vSess, vPid2Sid, conn>>
      /\ \A f \in Fd : wq'[f] = wq[f] \/ (wq[f] # << >> /\ wq'[f] = Tail(wq[f]))
      /\ \A f \in Fd \ {fd} : wq'[f] = wq[f]
      /\ wq[fd] # << >> /\ wq'[fd] = Tail(wq[fd])
      /\ h.cmd = "PACKET" /\ h \in RoutedPackets \union NewConns /\ QueuedOK(h)
  BY <1>1, ArrivesApart
<1>3. a[1] \in SidOrNone /\ a[2] \in Nat
  BY <1>1, <1>2, RoutedFields DEF Carries
<1>4. Asked(a[1], a[2])
  BY <1>1, <1>2 DEF QueuedOK, PacketOK
<1>6. IsFirst(h, a[2])
  BY <1>1, <1>2 DEF IsFirst
<1>. DEFINE n0 == a[2]
            sid == a[1]
<1>. HIDE DEF h, a
<1>8. /\ Items(sent'[fd]) = Items(sent[fd]) \union Items(msgs)
      /\ \A f \in Fd \ {fd} : sent'[f] = sent[f]
      /\ \A f \in Fd : SaysMap(f) => SaysMap(f)'
  BY <1>1, <1>7, SayItems
<1>. HIDE DEF n0, sid
<1>9. Apart
  BY <1>1, <1>2, <1>8 DEF Apart
<1>10. ASSUME NEW x, x = sid PROVE Meant(x, p)'
  <2>1. x # None => x[1] <= sn /\ (Live(x) => conn[FdOf(x)] = n0 /\ vSess[FdOf(x)].mode = "CLI")
    BY <1>4, <1>10 DEF Asked, n0, sid
  <2>2. Live(x)' <=> Live(x)
    BY <1>2 DEF Live, get_sess, Closing, Head_is
  <2>3. <<n0, p>> \in certified'
    BY <1>1 DEF n0
  <2>. QED
    BY <1>2, <2>1, <2>2, <2>3, Kinds DEF Meant
<1>11. NewSaid
  <2>1. ASSUME NEW f, NEW c \in Items(msgs) PROVE SaidOK(f, c)'
    <3>1. c \in Said /\ About(sid, p, c)
      BY <1>7, ItemsIn DEF AllAbout, sid
    <3>2. ASSUME NEW x, x = sid PROVE SaidOK(f, c)'
      BY <1>10, <3>1, <3>2, AboutOKNext
    <3>. QED
      BY <3>2
  <2>2. \A f \in Fd : conn'[f] = conn[f]
    BY <1>2
  <2>. QED
    BY <1>8, <2>1, <2>2 DEF NewSaid
<1>12. NewSids
  <2>1. ASSUME NEW k \in Map, NEW q \in Player
        PROVE  \/ gPlys'[k][q].sockid = gPlys[k][q].sockid
               \/ gPlys'[k][q].sockid = sid /\ q = p
    BY <1>0 DEF sid
  <2>2. ASSUME NEW k \in Map, NEW q \in Player, gPlys'[k][q].sockid = sid, q = p
        PROVE  Meant(gPlys[k][q].sockid, q)'
    <3>1. ASSUME NEW x, x = gPlys'[k][q].sockid PROVE Meant(x, q)'
      BY <1>10, <2>2, <3>1
    <3>. QED
      BY <3>1 DEF Meant, Live, get_sess
  <2>. QED
    BY <1>2, <2>1, <2>2 DEF NewSids
<1>13. /\ Closes' /\ Places' /\ Table'
       /\ \A n \in Nat : FirstOnce(n)' /\ (Pending(n)' => Pending(n))
       /\ \A f \in Fd : Fresh(f)' => Fresh(f)
  BY <1>9, <1>11, <1>12, ApartTable
<1>. DEFINE Q == RoutedPackets \union NewConns
<1>14. wq[fd] \in Seq(Q)
  BY <1>1 DEF Inv, TypeOK
<1>. HIDE DEF Q
<1>15. n0 \in Nat /\ IsFirst(h, n0)
  BY <1>3, <1>6 DEF n0
<1>16. Has(wq[fd], n0) /\ FirstOnce(n0) /\ ~Has(wq'[fd], n0)
  <2>1. Has(wq[fd], n0) /\ (Single(wq[fd], n0) => ~Has(wq'[fd], n0))
    BY <1>2, <1>14, <1>15, FirstTail DEF h
  <2>2. FirstOnce(n0)
    BY <1>15 DEF Known, OnePlayer
  <2>3. Single(wq[fd], n0)
    BY <1>1, <2>2 DEF FirstOnce
  <2>. QED
    BY <2>1, <2>2, <2>3
<1>17. Pending(n0) /\ Uncertified(n0) /\ n0 <= made
  <2>1. Pending(n0)
    BY <1>1, <1>16 DEF Pending
  <2>. QED
    BY <1>15, <2>1 DEF Known, OnePlayer
<1>18. ASSUME NEW n, n = n0 PROVE ~Pending(n)'
  <2>1. /\ ~Has(exq, n) /\ \A f \in Fd : ~Has(out[f], n) /\ (f # fd => ~Has(wq[f], n))
    BY <1>1, <1>16, <1>18 DEF FirstOnce
  <2>2. \A f \in Fd : ~Has(wq'[f], n)
    BY <1>2, <1>16, <1>18, <2>1
  <2>. QED
    BY <1>2, <2>1, <2>2 DEF Pending
<1>19. Conns'
  <2>1. <<n0, p>> \in Nat \X Pid /\ <<n0, p>>[1] <= made
    BY <1>15, <1>17 DEF Pid
  <2>2. \A c \in certified' : c \in Nat \X Pid /\ c[1] <= made
    BY <1>1, <2>1 DEF Known, Conns, n0
  <2>. QED
    BY <1>2, <2>2 DEF Known, Conns
<1>20. \A n, q : <<n, q>> \in certified' => <<n, q>> \in certified \/ (n = n0 /\ q = p)
  BY <1>1 DEF n0
<1>21. OnePlayer'
  <2>1. ASSUME NEW n \in Nat, Pending(n)' PROVE Uncertified(n)' /\ n <= made'
    <3>1. n # n0 /\ Pending(n)
      BY <1>13, <1>18, <2>1
    <3>. QED
      BY <1>2, <1>20, <3>1 DEF Known, OnePlayer, Uncertified
  <2>2. ASSUME NEW f \in Fd, Fresh(f)'
        PROVE  Uncertified(conn[f])' /\ ~Pending(conn[f])'
    <3>1. Uncertified(conn[f]) /\ ~Pending(conn[f]) /\ conn[f] \in Nat
      BY <1>13, <2>2 DEF Known, OnePlayer, Inv, TypeOK
    <3>2. ASSUME NEW n, n = conn[f] PROVE Uncertified(n)' /\ ~Pending(n)'
      BY <1>13, <1>17, <1>20, <3>1, <3>2 DEF Uncertified
    <3>. QED
      BY <1>2, <3>2 DEF Uncertified, Pending
  <2>3. \A n \in Nat, q, s \in Player :
          <<n, q>> \in certified' /\ <<n, s>> \in certified' => q = s
    BY <1>17, <1>20 DEF Known, OnePlayer, Uncertified
  <2>. QED
    BY <1>13, <2>1, <2>2, <2>3 DEF OnePlayer
<1>. QED
  BY <1>13, <1>19, <1>21 DEF Known

(* A map server of its own accord. *)
LEMMA ServerTable ==
  ASSUME Inv, Inv', Known, Table, NEW m \in Map, Server(m)
  PROVE  Known' /\ Table'
<1>. DEFINE fd == srvFd[m]
<1>1. CASE SrvDrop(m)
  <2>1. Apart /\ UNCHANGED <<sent, gPlys, certified>>
    BY <1>1 DEF SrvDrop, worker, history, Apart, SaysMap
  <2>. QED
    BY <2>1, PeerTable
<1>2. ASSUME Talks(m)
      PROVE  /\ fd \in Fd /\ wq' = wq
             /\ UNCHANGED <<made, sn, open, polled, out, exq, xpc, vSess, vPid2Sid, conn, certified>>
  BY <1>2 DEF Talks, worker, history, Inv, TypeOK
<1>3. ASSUME NEW p \in Player, Chatter(m, p) PROVE Known' /\ Table'
  <2>1. PICK r \in {To(p, "NEWS", p), [type |-> "TO_ALL"],
                    [type |-> "TO_MANY", pids |-> {p}], [type |-> "QRY_TOOL"]} : Say(m, <<r>>)
    BY <1>3 DEF Chatter
  <2>. DEFINE msgs == <<r>>
  <2>2. Talks(m) /\ gPlys' = gPlys /\ sent' = [sent EXCEPT ![fd] = @ \o msgs]
    BY <1>3, <2>1 DEF Chatter, Say, Talks
  <2>3. SaidOK(fd, r)
    <3>1. PacketOK(p, "NEWS", p)
      BY ToPlayer DEF ForPlayer
    <3>. QED
      BY <2>1, <3>1 DEF SaidOK, To
  <2>4. msgs \in Seq({r}) /\ Items(msgs) = {r}
    BY ItemsOfOne
  <2>. HIDE DEF msgs, fd
  <2>. QED
    BY <1>2, <2>2, <2>3, <2>4, SaidTable
<1>4. ASSUME NEW p \in Player, MigrateBack(m, p) PROVE Known' /\ Table'
  <2>1. PICK msgs \in Seq(AllAbout(gPlys[m][p].sockid, p)) :
          sent' = [sent EXCEPT ![fd] = @ \o msgs]
    BY <1>4, MigrateBackShape DEF Say, Inv
  <2>2. Talks(m) /\ gPlys' = gPlys
    BY <1>4 DEF MigrateBack, Talks
  <2>3. \A r \in Items(msgs) : SaidOK(fd, r)
    BY AllAboutOK DEF Known, Places
  <2>. HIDE DEF fd
  <2>. QED
    BY <1>2, <2>1, <2>2, <2>3, SaidTable
<1>. QED
  BY <1>1, <1>3, <1>4 DEF Server

-----------------------------------------------------------------------------
(* The exchange thread. *)

(* What all its steps have in common. *)
Handled ==
  /\ UNCHANGED <<made, sn, polled, out, sent, gPlys, conn, certified>>
  /\ open' \subseteq open
  /\ exq # << >> /\ exq' \in {exq, Tail(exq)}
  /\ \A f \in Fd :
       \/ /\ vSess'[f].sid = vSess[f].sid /\ vSess'[f].mode = vSess[f].mode
          /\ vSess'[f].state \in {vSess[f].state, "ON"}
          /\ Closing(f) => Closing(f)'
       \/ vSess'[f] = NoSess /\ f \notin polled

LEMMA HandledSteady ==
  ASSUME Inv, Inv', Known, Handled
  PROVE  /\ Steady
         /\ exq \in Seq(Commands) /\ Head(exq) \in Commands /\ Head(exq) \in Items(exq)
         /\ CommandOK(Head(exq))
         /\ Items(exq') \subseteq Items(exq) /\ NoMore(exq, exq')
         /\ \A f \in Fd : /\ vSess'[f].sid = vSess[f].sid
                          /\ vSess'[f].pid = vSess[f].pid /\ vSess'[f].map = vSess[f].map
                          /\ f \in polled => (Closing(f)' => Closing(f))
                          => SessOK(f)'
<1>1. exq \in Seq(Commands) /\ sn <= sn' /\ made <= made'
  BY DEF Handled, Inv, TypeOK
<1>2. Head(exq) \in Items(exq) /\ Items(Tail(exq)) \subseteq Items(exq)
  BY <1>1, HeadIsItem DEF Handled
<1>3. Head(exq) \in Commands /\ CommandOK(Head(exq))
  BY <1>2, QueueTypes DEF Known, Places
<1>4. Items(exq') \subseteq Items(exq) /\ NoMore(exq, exq')
  BY <1>1, <1>2, FirstTail, NoMoreSame DEF Handled
<1>5. Steady
  BY <1>1, SteadyStep DEF Handled
<1>6. ASSUME NEW f \in Fd, vSess'[f].sid = vSess[f].sid,
             vSess'[f].pid = vSess[f].pid, vSess'[f].map = vSess[f].map,
             f \in polled => (Closing(f)' => Closing(f))
      PROVE  SessOK(f)'
  <2>1. TypeOK /\ TypeOK' /\ SessOK(f) /\ polled' = polled
    BY DEF Inv, Known, Places, Handled
  <2>. QED
    BY <1>5, <1>6, <2>1, SessKept
<1>. QED
  BY <1>1, <1>2, <1>3, <1>4, <1>5, <1>6

LEMMA HandledKnown ==
  ASSUME Inv, Inv', Known, Handled, Closes', NewQueued, NewSids,
         \A f \in Fd : SessOK(f)',
         \A f \in Fd : vSess[f].mode = "SRV" /\ f \in polled /\ vSess[f].map # None
                         => vSess'[f].map # None,
         \A f \in Fd : \A b \in Items(wq'[f]) :
           b.cmd \in NewCmds => b \in Items(wq[f]) \union Items(exq),
         \A f \in Fd : Closing(f) => Closing(f)' \/ vSess'[f] = NoSess,
         \A n \in Nat : FirstOnce(n)' /\ (Pending(n)' => Pending(n))
  PROVE  Known'
<1>1. Steady /\ Items(exq') \subseteq Items(exq)
  BY HandledSteady
<1>2. NewCommands
  BY <1>1 DEF NewCommands, Handled
<1>3. NewSaid
  BY DEF NewSaid, Handled
<1>4. ASSUME NEW f \in Fd PROVE MapFirst(f)'
  <2>1. MapFirst(f)
    BY DEF Known, Places
  <2>2. NoSess.mode # "SRV" \/ f \notin polled \/ vSess'[f].mode = vSess[f].mode
    BY DEF Handled
  <2>3. vSess'[f].mode = "SRV" /\ f \in polled' => vSess'[f].map # None \/ SaysMap(f)
    BY <2>1 DEF MapFirst, Handled
  <2>4. \A b \in Items(out'[f]) \union Items(exq') \union Items(wq'[f]) :
          b.cmd = "INCOME" => b \in Items(out[f]) \union Items(exq) \union Items(wq[f])
    BY <1>1 DEF Handled, NewCmds
  <2>5. SaysMap(f)' <=> SaysMap(f)
    BY DEF SaysMap, Handled
  <2>. QED
    BY <2>1, <2>3, <2>4, <2>5 DEF MapFirst
<1>5. Places'
  BY <1>1, <1>2, <1>3, <1>4, PlacesKept DEF Known, Inv
<1>6. Conns'
  BY DEF Handled, Known, Conns
<1>7. ASSUME NEW f \in Fd, Fresh(f)' PROVE Fresh(f) /\ conn'[f] = conn[f]
  <2>1. Waiting(f)' => Waiting(f)
    <3>1. Holds(exq', f) => Holds(exq, f)
      BY <1>1 DEF Holds
    <3>2. Holds(wq'[f], f) => Holds(wq[f], f) \/ Holds(exq, f)
      BY DEF Holds, IsNew
    <3>. QED
      BY <3>1, <3>2 DEF Waiting, Handled
  <2>2. CASE vSess'[f] = NoSess
    <3>1. vSess'[f].sid = None
      BY <2>2 DEF NoSess
    <3>. QED
      BY <1>7, <2>1, <3>1 DEF Fresh, Handled
  <2>3. CASE vSess'[f] # NoSess
    <3>1. /\ vSess'[f].sid = vSess[f].sid /\ vSess'[f].state \in {vSess[f].state, "ON"}
          /\ Closing(f) => Closing(f)'
      BY <2>3 DEF Handled
    <3>. QED
      BY <1>7, <2>1, <3>1 DEF Fresh, Handled
  <2>. QED
    BY <2>2, <2>3
<1>8. OnePlayer'
  <2>1. \A n \in Nat, p \in Player : <<n, p>> \in certified' => <<n, p>> \in certified
    BY DEF Handled
  <2>2. made <= made'
    BY DEF Handled, Inv, TypeOK
  <2>. QED
    BY <1>7, <2>1, <2>2, OneKept DEF Known, Inv
<1>. QED
  BY <1>5, <1>6, <1>8 DEF Known

(* One packet more for a session, or a command for a worker. *)
LEMMA OneQueued ==
  ASSUME Inv, NEW fd \in Fd, NEW r, wq' = [wq EXCEPT ![fd] = Append(@, r)]
  PROVE  /\ Items(wq'[fd]) = Items(wq[fd]) \union {r} /\ \A f \in Fd \ {fd} : wq'[f] = wq[f]
         /\ \A n : /\ Has(wq'[fd], n) <=> Has(wq[fd], n) \/ IsFirst(r, n)
                   /\ Single(wq[fd], n) /\ ~(IsFirst(r, n) /\ Has(wq[fd], n)) => Single(wq'[fd], n)
         /\ (\A n : ~IsFirst(r, n)) => \A f \in Fd : NoMore(wq[f], wq'[f])
<1>. DEFINE Q == RoutedPackets \union NewConns
<1>1. wq[fd] \in Seq(Q) /\ wq'[fd] = Append(wq[fd], r) /\ \A f \in Fd \ {fd} : wq'[f] = wq[f]
  BY DEF Inv, TypeOK
<1>. HIDE DEF Q
<1>2. ASSUME NEW n
      PROVE  /\ Items(wq'[fd]) = Items(wq[fd]) \union {r}
             /\ Has(wq'[fd], n) <=> Has(wq[fd], n) \/ IsFirst(r, n)
             /\ Single(wq[fd], n) /\ ~(IsFirst(r, n) /\ Has(wq[fd], n)) => Single(wq'[fd], n)
  <2>1. /\ Items(Append(wq[fd], r)) = Items(wq[fd]) \union {r}
        /\ Has(Append(wq[fd], r), n) <=> Has(wq[fd], n) \/ IsFirst(r, n)
        /\ Single(wq[fd], n) /\ ~(IsFirst(r, n) /\ Has(wq[fd], n)) => Single(Append(wq[fd], r), n)
    BY <1>1, FirstAppend
  <2>. QED
    BY <1>1, <2>1
<1>3. ASSUME \A n : ~IsFirst(r, n) PROVE \A f \in Fd : NoMore(wq[f], wq'[f])
  <2>1. NoMore(wq[fd], wq'[fd])
    BY <1>2, <1>3 DEF NoMore
  <2>. QED
    BY <1>1, <2>1, NoMoreSame
<1>. QED
  BY <1>1, <1>2, <1>3

(* A command handled in one step. *)
LEMMA HandlesIs ==
  ASSUME Inv, NEW cmd, Handles(cmd), xpc' = xpc,
         \A f \in Fd : /\ vSess'[f].sid = vSess[f].sid /\ vSess'[f].mode = vSess[f].mode
                       /\ vSess'[f].state \in {vSess[f].state, "ON"}
  PROVE  /\ Handled /\ xpc = "next" /\ Head(exq).cmd = cmd /\ exq' = Tail(exq)
         /\ \A f : ~Closing(f) /\ ~Closing(f)'
         /\ Closes'
<1>1. /\ xpc = "next" /\ exq # << >> /\ Head(exq).cmd = cmd /\ exq' = Tail(exq)
      /\ UNCHANGED <<made, sn, open, polled, out, sent, gPlys, conn, certified>>
  BY DEF Handles, Head_is, worker, servers, history
<1>2. \A f : ~Closing(f) /\ ~Closing(f)'
  BY <1>1 DEF Closing
<1>. QED
  BY <1>1, <1>2 DEF Handled, Closes

(* ... that writes no pid and queues no first packet. *)
LEMMA HandlesTable ==
  ASSUME Inv, Inv', Known, Table, NEW cmd, Handles(cmd), xpc' = xpc,
         \A f \in Fd : /\ vSess'[f].sid = vSess[f].sid /\ vSess'[f].mode = vSess[f].mode
                       /\ vSess'[f].pid = vSess[f].pid /\ vSess'[f].map = vSess[f].map
                       /\ vSess'[f].state \in {vSess[f].state, "ON"},
         \A p \in Player : vPid2Sid'[p] = vPid2Sid[p],
         NewQueued, NewSids,
         \A f \in Fd : \A b \in Items(wq'[f]) :
           b.cmd \in NewCmds => b \in Items(wq[f]) \union Items(exq),
         \A n \in Nat : FirstOnce(n)' /\ (Pending(n)' => Pending(n))
  PROVE  Known' /\ Table'
<1>1. /\ Handled /\ xpc = "next"
      /\ \A f : ~Closing(f) /\ ~Closing(f)'
      /\ Closes'
  BY HandlesIs
<1>2. \A f \in Fd : SessOK(f)'
  BY <1>1, HandledSteady
<1>3. Known'
  BY <1>1, <1>2, HandledKnown
<1>4. Table'
  BY <1>1, TableKept
<1>. QED
  BY <1>3, <1>4

LEMMA NothingFirst ==
  ASSUME Inv, Inv', Known, Handled, \A f \in Fd : NoMore(wq[f], wq'[f])
  PROVE  \A n \in Nat : FirstOnce(n)' /\ (Pending(n)' => Pending(n))
<1>1. NoMore(exq, exq') /\ \A f \in Fd : NoMore(out[f], out'[f])
  BY HandledSteady, NoMoreSame DEF Handled
<1>. QED
  BY <1>1, NoMoreOnce DEF Known, OnePlayer

LEMMA SameSids ==
  ASSUME vPid2Sid' = vPid2Sid, gPlys' = gPlys
  PROVE  NewSids
BY DEF NewSids


(* What the head carries goes on, if anywhere, to one queue: a first packet *)
(* stays in one place.                                                     *)
LEMMA FirstMoves ==
  ASSUME Inv, Known, exq # << >>, exq' = Tail(exq), out' = out,
         NEW fd \in Fd, NEW r, wq' = [wq EXCEPT ![fd] = Append(@, r)],
         \A n : IsFirst(r, n) => IsFirst(Head(exq), n)
  PROVE  \A n \in Nat : FirstOnce(n)' /\ (Pending(n)' => Pending(n))
<1>1. exq \in Seq(Commands)
  BY DEF Inv, TypeOK
<1>2. /\ NoMore(exq, exq')
      /\ \A n : IsFirst(Head(exq), n) => Has(exq, n) /\ (Single(exq, n) => ~Has(exq', n))
  BY <1>1, FirstTail
<1>3. /\ \A f \in Fd \ {fd} : wq'[f] = wq[f]
      /\ \A n : /\ Has(wq'[fd], n) <=> Has(wq[fd], n) \/ IsFirst(r, n)
                /\ Single(wq[fd], n) /\ ~(IsFirst(r, n) /\ Has(wq[fd], n)) => Single(wq'[fd], n)
  BY OneQueued
<1>4. SUFFICES ASSUME NEW n \in Nat PROVE FirstOnce(n)' /\ (Pending(n)' => Pending(n))
  OBVIOUS
<1>5. FirstOnce(n)
  BY DEF Known, OnePlayer
<1>6. (Has(exq', n) => Has(exq, n)) /\ Single(exq', n)
  BY <1>2, <1>5 DEF NoMore, FirstOnce
<1>7. CASE IsFirst(r, n)
  <2>1. Has(exq, n) /\ ~Has(exq', n)
    BY <1>2, <1>5, <1>7 DEF FirstOnce
  <2>2. \A f \in Fd : ~Has(out[f], n) /\ ~Has(wq[f], n)
    BY <1>5, <2>1 DEF FirstOnce
  <2>3. \A f \in Fd : Single(wq'[f], n) /\ (Has(wq'[f], n) => f = fd)
    BY <1>3, <1>5, <2>2 DEF FirstOnce
  <2>4. FirstOnce(n)'
    BY <1>5, <1>6, <2>1, <2>2, <2>3 DEF FirstOnce
  <2>. QED
    BY <2>1, <2>4 DEF Pending
<1>8. CASE ~IsFirst(r, n)
  <2>1. \A f \in Fd : (Has(wq'[f], n) => Has(wq[f], n)) /\ Single(wq'[f], n)
    BY <1>3, <1>5, <1>8 DEF FirstOnce
  <2>. QED
    BY <1>5, <1>6, <2>1 DEF FirstOnce, Pending
<1>. QED
  BY <1>7, <1>8

(* A command that goes on to one session. *)
LEMMA OneSent ==
  ASSUME Inv, Inv', Known, Table, NEW cmd, Handles(cmd),
         UNCHANGED <<vSess, xpc, vPid2Sid>>,
         NEW fd \in Fd, NEW r, wq' = [wq EXCEPT ![fd] = Append(@, r)], QueuedOK(r)',
         \A n : IsFirst(r, n) => IsFirst(Head(exq), n),
         r.cmd \in NewCmds => r \in Items(exq)
  PROVE  Known' /\ Table'
<1>1. /\ Items(wq'[fd]) = Items(wq[fd]) \union {r} /\ \A f \in Fd \ {fd} : wq'[f] = wq[f]
  BY OneQueued
<1>2. NewQueued
  BY <1>1 DEF NewQueued
<1>3. Handled /\ exq' = Tail(exq)
  BY HandlesIs
<1>4. \A n \in Nat : FirstOnce(n)' /\ (Pending(n)' => Pending(n))
  BY <1>3, FirstMoves DEF Handled
<1>5. NewSids
  BY <1>3, SameSids DEF Handled
<1>6. \A f \in Fd : \A b \in Items(wq'[f]) :
        b.cmd \in NewCmds => b \in Items(wq[f]) \union Items(exq)
  BY <1>1
<1>. QED
  BY <1>2, <1>4, <1>5, <1>6, HandlesTable

(* A command that is dropped. *)
LEMMA Dropped ==
  ASSUME Inv, Inv', Known, Table, NEW cmd, Handles(cmd),
         UNCHANGED <<vSess, xpc, vPid2Sid, wq>>
  PROVE  Known' /\ Table'
<1>1. Handled
  BY HandlesIs
<1>2. \A n \in Nat : FirstOnce(n)' /\ (Pending(n)' => Pending(n))
  BY <1>1, NoMoreSame, NothingFirst
<1>3. NewSids /\ NewQueued
  BY <1>1, SameSids DEF Handled, NewQueued
<1>. QED
  BY <1>2, <1>3, HandlesTable

LEMMA SidFromPid ==
  ASSUME Inv, Known, NEW pid, NEW sid, sid = sid_from_pid(pid), sid # None
  PROVE  /\ pid \in Pid /\ pid # None /\ sid = vPid2Sid[pid] /\ sid \in SidOrNone
         /\ Meant(sid, pid) /\ FdOf(sid) \in Fd
<1>1. pid \in Pid /\ sid = vPid2Sid[pid]
  BY DEF sid_from_pid
<1>2. pid # None
  BY <1>1, GateAssumption DEF Pid
<1>3. sid \in SidOrNone /\ Meant(sid, pid)
  BY <1>1 DEF Inv, TypeOK, Known, Places
<1>. QED
  BY <1>1, <1>2, <1>3, SidFd

LEMMA RouteTable ==
  ASSUME Inv, Inv', Known, Table, Route
  PROVE  Known' /\ Table'
<1>. DEFINE b == Head(exq)
            sid == sid_from_pid(b.to)
            r == Routed(sid, b.to, b.type, b.arg)
<1>1. /\ Handles("PACKET") /\ UNCHANGED <<vSess, xpc, vPid2Sid>>
      /\ wq' = IF sid = None THEN wq ELSE [wq EXCEPT ![FdOf(sid)] = Append(@, r)]
  BY DEF Route
<1>2. Handled /\ b.cmd = "PACKET"
  BY <1>1, HandlesIs
<1>3. Steady /\ b \in Commands /\ CommandOK(b)
  BY <1>2, HandledSteady
<1>4. CASE sid = None
  BY <1>1, <1>4, Dropped
<1>5. ASSUME sid # None, NEW s, s = sid, NEW c, c = r, NEW to, to = b.to
      PROVE  Known' /\ Table'
  <2>1. to \in Pid /\ to # None /\ s \in SidOrNone /\ Meant(s, to) /\ FdOf(s) \in Fd
    BY <1>5, SidFromPid
  <2>2. Carries(b.type, b.arg) /\ PacketOK(to, b.type, b.arg)
    BY <1>2, <1>3, <1>5, CommandFields DEF CommandOK
  <2>3. TypeOK /\ TypeOK'
    BY DEF Inv
  <2>4. Meant(s, to)'
    BY <1>3, <2>1, <2>3, MeantStays
  <2>5. ASSUME NEW type, NEW arg, type = b.type, arg = b.arg PROVE PacketOK(to, type, arg)'
    BY <1>3, <2>2, <2>3, <2>5, PacketStays
  <2>6. /\ c.cmd = "PACKET" /\ c.sid = s /\ c.to = to /\ c.type = b.type /\ c.arg = b.arg
    BY <1>5 DEF Routed
  <2>. HIDE DEF b, sid, r
  <2>7. PacketOK(to, c.type, c.arg)'
    BY <2>5, <2>6
  <2>8. QueuedOK(c)'
    BY <2>1, <2>4, <2>6, <2>7 DEF QueuedOK
  <2>9. \A n : IsFirst(c, n) => IsFirst(b, n)
    BY <1>2, <2>6 DEF IsFirst
  <2>10. c.cmd \notin NewCmds
    BY <2>6 DEF NewCmds
  <2>11. wq' = [wq EXCEPT ![FdOf(s)] = Append(@, c)]
    BY <1>1, <1>5
  <2>. QED
    BY <1>1, <2>1, <2>8, <2>9, <2>10, <2>11, OneSent DEF b
<1>. QED
  BY <1>4, <1>5

LEMMA ForwardTable ==
  ASSUME Inv, Inv', Known, Table, ForwardIncome \/ ForwardConnect
  PROVE  Known' /\ Table'
<1>1. ASSUME NEW b, b = Head(exq), NEW fd, fd = b.fd PROVE Known' /\ Table'
  <2>1. PICK cmd \in NewCmds : Handles(cmd)
    BY DEF ForwardIncome, ForwardConnect, NewCmds
  <2>2. UNCHANGED <<vSess, xpc, vPid2Sid>> /\ wq' = [wq EXCEPT ![fd] = Append(@, b)]
    BY <1>1 DEF ForwardIncome, ForwardConnect
  <2>3. Handled /\ b.cmd = cmd
    BY <1>1, <2>1, <2>2, HandlesIs
  <2>4. b \in Commands /\ b \in Items(exq) /\ CommandOK(b)
    BY <1>1, <2>3, HandledSteady
  <2>5. fd \in Fd
    BY <1>1, <2>1, <2>3, <2>4, CommandFields DEF NewCmds
  <2>6. b.cmd = "CONNECT" => <<conn'[b.fd], PidTool>> \in certified'
    BY <2>3, <2>4 DEF CommandOK, Handled
  <2>7. QueuedOK(b)'
    BY <2>1, <2>3, <2>6 DEF QueuedOK, NewCmds
  <2>. QED
    BY <1>1, <2>1, <2>2, <2>4, <2>5, <2>7, OneSent
<1>. QED
  BY <1>1

LEMMA SigninLateTable ==
  ASSUME Inv, Inv', Known, Table, SigninLate
  PROVE  Known' /\ Table'
BY Dropped DEF SigninLate


(* A server's signin writes its pid, which is no player's.                 *)
LEMMA SigninServerTable ==
  ASSUME Inv, Inv', Known, Table, SigninServer
  PROVE  Known' /\ Table'
<1>. DEFINE b == Head(exq)
<1>1. Handles("SIGNIN_SRV") /\ wq' = wq /\ xpc' = xpc
  BY DEF SigninServer
<1>2. CASE ~get_sess(b.sid)
  BY <1>1, <1>2, Dropped DEF SigninServer
<1>3. ASSUME get_sess(b.sid), NEW sid, sid = b.sid, NEW pid, pid = b.pid
      PROVE  Known' /\ Table'
  <2>1. /\ vSess' = [vSess EXCEPT ![FdOf(sid)].state = "ON"]
        /\ vPid2Sid' = [vPid2Sid EXCEPT ![pid] = sid]
    BY <1>3 DEF SigninServer, add_cli
  <2>2. \A f \in Fd : /\ vSess'[f].sid = vSess[f].sid /\ vSess'[f].mode = vSess[f].mode
                      /\ vSess'[f].pid = vSess[f].pid /\ vSess'[f].map = vSess[f].map
                      /\ vSess'[f].state \in {vSess[f].state, "ON"}
    BY <2>1 DEF Inv, TypeOK, Sess
  <2>3. Handled /\ b.cmd = "SIGNIN_SRV"
    BY <1>1, <2>2, HandlesIs
  <2>4. Steady /\ b \in Commands /\ CommandOK(b)
    BY <2>3, HandledSteady
  <2>5. sid \in SidOrNone /\ pid \in Map \union {PidTool} /\ Meant(sid, pid)
    BY <1>3, <2>3, <2>4, CommandFields DEF CommandOK
  <2>6. pid \notin Player
    BY <2>5, GateAssumption
  <2>7. \A p \in Pid : vPid2Sid'[p] = IF p = pid THEN sid ELSE vPid2Sid[p]
    BY <2>1 DEF Inv, TypeOK
  <2>8. \A p \in Player : vPid2Sid'[p] = vPid2Sid[p]
    BY <2>6, <2>7 DEF Pid
  <2>9. Meant(sid, pid)'
    BY <2>4, <2>5, MeantStays DEF Inv
  <2>10. NewSids
    <3>1. ASSUME NEW p \in Pid, p = pid PROVE Meant(vPid2Sid[p], p)'
      <4>1. vPid2Sid'[p] = sid
        BY <2>7, <3>1
      <4>. QED
        BY <2>9, <3>1, <4>1 DEF Meant, Live, get_sess
    <3>. QED
      BY <2>3, <2>7, <3>1 DEF NewSids, Handled
  <2>11. \A n \in Nat : FirstOnce(n)' /\ (Pending(n)' => Pending(n))
    BY <1>1, <2>3, NoMoreSame, NothingFirst
  <2>. QED
    BY <1>1, <2>2, <2>8, <2>10, <2>11, HandlesTable DEF NewQueued
<1>. QED
  BY <1>2, <1>3

(* Copies for players' sessions.                                           *)
LEMMA CopiesTable ==
  ASSUME Inv, Inv', Known, Table, NEW cmd, Handles(cmd),
         UNCHANGED <<vSess, xpc, vPid2Sid>>,
         NEW fds, Copies(fds, "NEWS"), \A f \in fds : f \in Fd => vSess[f].pid \in Player
  PROVE  Known' /\ Table'
<1>. DEFINE Q == RoutedPackets \union NewConns
            copy(f) == Routed(vSess[f].sid, vSess[f].pid, "NEWS", None)
<1>1. Handled
  BY HandlesIs
<1>2. Steady /\ TypeOK /\ TypeOK'
  BY <1>1, HandledSteady DEF Inv
<1>3. ASSUME NEW f \in Fd
      PROVE  \/ wq'[f] = wq[f]
             \/ vSess[f].pid \in Player /\ wq'[f] = Append(wq[f], copy(f))
  BY DEF Copies
<1>4. \A f \in Fd : wq[f] \in Seq(Q)
  BY DEF Inv, TypeOK
<1>. HIDE DEF Q
<1>5. ASSUME NEW f \in Fd, NEW c, c = copy(f), vSess[f].pid \in Player
      PROVE  QueuedOK(c)' /\ c.cmd \notin NewCmds /\ \A n : ~IsFirst(c, n)
  <2>1. /\ c.cmd = "PACKET" /\ c.sid = vSess[f].sid /\ c.to = vSess[f].pid /\ c.type = "NEWS"
        /\ c.arg = None
    BY <1>5 DEF Routed
  <2>. HIDE DEF copy
  <2>2. c.sid \in SidOrNone /\ c.to # None /\ Meant(c.sid, c.to)
    BY <1>2, <1>5, <2>1, SessFields, GateAssumption DEF Known, Places, SessOK
  <2>3. Meant(c.sid, c.to)'
    BY <1>2, <2>2, MeantStays
  <2>4. KindOfPid(c.to) = KindOf(c.type)
    BY <1>5, <2>1, Kinds, Kinds2 DEF ForPlayer
  <2>5. PacketOK(c.to, c.type, c.arg)'
    BY <2>1, <2>4 DEF PacketOK, WithSid
  <2>. QED
    BY <2>1, <2>2, <2>3, <2>5 DEF QueuedOK, NewCmds, IsFirst
<1>6. ASSUME NEW f \in Fd
      PROVE  /\ NoMore(wq[f], wq'[f])
             /\ \A c \in Items(wq'[f]) :
                  c \in Items(wq[f]) \/ (QueuedOK(c)' /\ c.cmd \notin NewCmds)
  <2>1. CASE wq'[f] = wq[f]
    BY <2>1, NoMoreSame
  <2>2. ASSUME vSess[f].pid \in Player, NEW c, c = copy(f), wq'[f] = Append(wq[f], c)
        PROVE  /\ NoMore(wq[f], wq'[f])
               /\ \A d \in Items(wq'[f]) :
                    d \in Items(wq[f]) \/ (QueuedOK(d)' /\ d.cmd \notin NewCmds)
    <3>1. QueuedOK(c)' /\ c.cmd \notin NewCmds /\ \A n : ~IsFirst(c, n)
      BY <1>5, <2>2
    <3>. HIDE DEF copy
    <3>2. \A n : /\ Items(Append(wq[f], c)) = Items(wq[f]) \union {c}
                 /\ Has(Append(wq[f], c), n) <=> Has(wq[f], n) \/ IsFirst(c, n)
                 /\ Single(wq[f], n) /\ ~(IsFirst(c, n) /\ Has(wq[f], n))
                      => Single(Append(wq[f], c), n)
      BY <1>4, FirstAppend
    <3>. QED
      BY <2>2, <3>1, <3>2 DEF NoMore
  <2>. QED
    BY <1>3, <2>1, <2>2
<1>7. NewQueued /\ NewSids
  BY <1>1, <1>6, SameSids DEF NewQueued, Handled
<1>8. \A n \in Nat : FirstOnce(n)' /\ (Pending(n)' => Pending(n))
  BY <1>1, <1>6, NothingFirst
<1>. QED
  BY <1>6, <1>7, <1>8, HandlesTable

(* A client session with a map is a player's. *)
LEMMA ClientSess ==
  ASSUME Inv, Known, NEW fd \in Fd, vSess[fd].pid # None, vSess[fd].mode = "CLI", ~Closing(fd)
  PROVE  vSess[fd].pid \in Player /\ <<conn[fd], vSess[fd].pid>> \in certified
<1>1. vSess[fd].sid # None /\ Meant(vSess[fd].sid, vSess[fd].pid)
  BY DEF Known, Places, SessOK
<1>2. FdOf(vSess[fd].sid) = fd
  BY <1>1 DEF Inv, OwnSid
<1>3. Live(vSess[fd].sid)
  BY <1>1, <1>2 DEF Live, get_sess
<1>4. KindOfPid(vSess[fd].pid) = "CLI" /\ <<conn[fd], vSess[fd].pid>> \in certified
  BY <1>1, <1>2, <1>3 DEF Meant
<1>. QED
  BY <1>4 DEF KindOfPid

LEMMA BroadcastTable ==
  ASSUME Inv, Inv', Known, Table, SendAllCli \/ SendMulCli
  PROVE  Known' /\ Table'
<1>. DEFINE b == Head(exq)
<1>1. CASE SendAllCli
  <2>. DEFINE fds == {fd \in Fd : /\ vSess[fd].map = b.map
                                  /\ vSess[fd].state = "ON" /\ vSess[fd].mode = "CLI"}
  <2>1. Handles("SEND_ALL") /\ Copies(fds, "NEWS") /\ UNCHANGED <<vSess, xpc, vPid2Sid>>
    BY <1>1 DEF SendAllCli
  <2>2. Handled /\ b.cmd = "SEND_ALL" /\ \A f : ~Closing(f)
    BY <2>1, HandlesIs
  <2>3. b.map # None
    BY <2>2, HandledSteady DEF CommandOK
  <2>4. ASSUME NEW f \in fds PROVE vSess[f].pid \in Player
    <3>1. f \in Fd /\ vSess[f].map # None /\ vSess[f].mode = "CLI"
      BY <2>3, <2>4
    <3>2. vSess[f].pid # None
      BY <3>1 DEF Known, Places, SessOK
    <3>. QED
      BY <2>2, <3>1, <3>2, ClientSess
  <2>. HIDE DEF fds
  <2>. QED
    BY <2>1, <2>4, CopiesTable
<1>2. CASE SendMulCli
  <2>. DEFINE sids == {s \in {sid_from_pid(p) : p \in b.pids} : get_sess(s)}
              fds == {FdOf(sid) : sid \in sids}
  <2>1. Handles("SEND_MUL") /\ Copies(fds, "NEWS") /\ UNCHANGED <<vSess, xpc, vPid2Sid>>
    BY <1>2 DEF SendMulCli
  <2>2. Handled /\ xpc = "next" /\ b.cmd = "SEND_MUL" /\ \A f : ~Closing(f)
    BY <2>1, HandlesIs
  <2>3. b.pids \subseteq Player
    BY <2>2, HandledSteady DEF Commands, NewConns, Packets
  <2>4. ASSUME NEW f \in fds, f \in Fd PROVE vSess[f].pid \in Player
    <3>1. PICK p \in b.pids : get_sess(sid_from_pid(p)) /\ f = FdOf(sid_from_pid(p))
      BY <2>4
    <3>2. p \in Player /\ sid_from_pid(p) # None
      BY <2>3, <3>1 DEF get_sess
    <3>3. vPid2Sid[p] # None /\ f = FdOf(vPid2Sid[p])
      BY <3>1, <3>2, SidFromPid
    <3>4. Of(p, f)
      BY <2>2, <3>3 DEF Of
    <3>. QED
      BY <2>2, <2>4, <3>2, <3>4 DEF Table
  <2>. HIDE DEF fds
  <2>. QED
    BY <2>1, <2>4, CopiesTable
<1>. QED
  BY <1>1, <1>2


-----------------------------------------------------------------------------
(* The steps inside a command. *)

(* Sessions live on while they keep their sids and none is closed. *)
LEMMA StaysLive ==
  ASSUME NEW sid \in SidOrNone, Live(sid), vSess'[FdOf(sid)].sid = vSess[FdOf(sid)].sid,
         ~Closing(FdOf(sid))'
  PROVE  Live(sid)'
BY DEF Live, get_sess

LEMMA TableSids ==
  ASSUME Inv, Table, NEW p \in Player, NEW sid, sid = vPid2Sid[p], sid # None
  PROVE  Live(sid) /\ sid \in SidOrNone /\ FdOf(sid) \in Fd
<1>1. sid \in SidOrNone
  BY DEF Inv, TypeOK, Pid
<1>. QED
  BY <1>1, SidFd DEF Table

(* What the table becomes, when its pairs are of this kind. *)
LEMMA TableIs ==
  ASSUME \A p \in Player :
           /\ \A sid : sid = vPid2Sid'[p] /\ sid # None => Live(sid)'
           /\ \A fd \in Fd : ~Closing(fd)' => (vSess'[fd].pid = p <=> Of(p, fd)')
  PROVE  Table'
<1>1. ASSUME NEW p \in Player, vPid2Sid'[p] # None PROVE Live(vPid2Sid[p])'
  <2>1. ASSUME NEW sid, sid = vPid2Sid'[p] PROVE Live(vPid2Sid[p])'
    <3>1. Live(sid)'
      BY <1>1, <2>1
    <3>. QED
      BY <2>1, <3>1 DEF Live, get_sess
  <2>. QED
    BY <2>1
<1>. QED
  BY <1>1 DEF Table

(* The session that has the player loses it: nobody has the player then. *)
LEMMA SigninKickTable ==
  ASSUME Inv, Inv', Known, Table, SigninKick
  PROVE  Known' /\ Table'
<1>. SUFFICES ASSUME NEW b, b = Head(exq), NEW pid, pid = b.pid,
                     NEW tsid, tsid = sid_from_pid(pid), NEW tfd, tfd = FdOf(tsid)
              PROVE  Known' /\ Table'
  OBVIOUS
<1>1. /\ UNCHANGED <<made, sn, open, polled, out, sent, gPlys, conn, certified, exq, vPid2Sid>>
      /\ exq # << >> /\ b.cmd = "SIGNIN_CLI" /\ get_sess(b.sid)
      /\ xpc = "next" /\ xpc' = "assign"
  BY DEF SigninKick, InSignin, Head_is, worker, servers, history
<1>2. \A f : ~Closing(f) /\ ~Closing(f)'
  BY <1>1 DEF Closing
<1>3. b \in Commands
  BY <1>1, HeadType DEF Head_is, Inv
<1>4. pid \in Player /\ pid # None /\ pid \in Pid /\ tsid = vPid2Sid[pid]
  BY <1>1, <1>3, CommandFields, GateAssumption DEF Pid, sid_from_pid
<1>5. get_sess(tsid) <=> tsid # None
  BY <1>4, TableSids DEF Live, get_sess
<1>6. CASE tsid # None
  <2>1. tsid \in SidOrNone /\ tfd \in Fd /\ Live(tsid) /\ Meant(tsid, pid)
    BY <1>4, <1>6, TableSids DEF Known, Places
  <2>2. vSess[tfd].mode = "CLI"
    BY <1>4, <1>6, <2>1, Kinds DEF Meant
  <2>. DEFINE r == Routed(tsid, pid, "DUPLICATE", pid)
  <2>3. /\ vSess' = [vSess EXCEPT ![tfd].pid = None, ![tfd].map = None]
        /\ wq' = [wq EXCEPT ![tfd] = Append(@, r)]
    BY <1>5, <1>6 DEF SigninKick, make_packet_fix
  <2>4. /\ \A f \in Fd : /\ vSess'[f].sid = vSess[f].sid /\ vSess'[f].mode = vSess[f].mode
                         /\ vSess'[f].state = vSess[f].state
        /\ \A f \in Fd \ {tfd} : vSess'[f] = vSess[f]
        /\ vSess'[tfd].pid = None /\ vSess'[tfd].map = None
    <3>1. /\ vSess'[tfd].sid = vSess[tfd].sid /\ vSess'[tfd].mode = vSess[tfd].mode
          /\ vSess'[tfd].state = vSess[tfd].state
          /\ vSess'[tfd].pid = None /\ vSess'[tfd].map = None
          /\ \A f \in Fd \ {tfd} : vSess'[f] = vSess[f]
      BY <2>1, <2>3 DEF Inv, TypeOK, Sess
    <3>2. ASSUME NEW f \in Fd
          PROVE  /\ vSess'[f].sid = vSess[f].sid /\ vSess'[f].mode = vSess[f].mode
                 /\ vSess'[f].state = vSess[f].state
      <4>1. CASE f = tfd
        BY <3>1, <4>1
      <4>2. CASE f # tfd
        BY <3>1, <4>2
      <4>. QED
        BY <4>1, <4>2
    <3>. QED
      BY <3>1, <3>2
  <2>5. Handled
    BY <1>1, <1>2, <2>4 DEF Handled
  <2>6. Steady
    BY <2>5, HandledSteady
  <2>7. Meant(tsid, pid)'
    BY <2>1, <2>6, MeantStays DEF Inv
  <2>8. QueuedOK(r)' /\ r.cmd \notin NewCmds /\ \A n : ~IsFirst(r, n)
    <3>1. KindOfPid(pid) = KindOf("DUPLICATE")
      BY <1>4, Kinds, Kinds2 DEF ForPlayer
    <3>2. PacketOK(pid, "DUPLICATE", pid)'
      BY <3>1 DEF PacketOK, WithSid
    <3>3. r.cmd = "PACKET" /\ r.sid = tsid /\ r.to = pid /\ r.type = "DUPLICATE" /\ r.arg = pid
      BY DEF Routed
    <3>. HIDE DEF r
    <3>4. PacketOK(r.to, r.type, r.arg)'
      BY <3>2, <3>3
    <3>. QED
      BY <1>4, <2>7, <3>3, <3>4 DEF QueuedOK, NewCmds, IsFirst
  <2>. HIDE DEF r
  <2>9. /\ Items(wq'[tfd]) = Items(wq[tfd]) \union {r} /\ \A f \in Fd \ {tfd} : wq'[f] = wq[f]
        /\ \A f \in Fd : NoMore(wq[f], wq'[f])
    BY <2>1, <2>3, <2>8, OneQueued
  <2>10. NewQueued /\ NewSids
    BY <1>1, <2>8, <2>9, SameSids DEF NewQueued
  <2>11. \A n \in Nat : FirstOnce(n)' /\ (Pending(n)' => Pending(n))
    BY <2>5, <2>9, NothingFirst
  <2>12. \A f \in Fd : SessOK(f)'
    <3>1. SessOK(tfd)'
      BY <1>1, <1>2, <2>1, <2>4 DEF SessOK, Known, Places
    <3>2. \A f \in Fd \ {tfd} : SessOK(f)'
      BY <1>2, <2>4, <2>5, HandledSteady
    <3>. QED
      BY <3>1, <3>2
  <2>13. Known'
    <3>1. Closes'
      BY <1>1 DEF Closes
    <3>2. \A f \in Fd : vSess[f].mode = "SRV" /\ f \in polled /\ vSess[f].map # None
                          => vSess'[f].map # None
      BY <2>2, <2>4
    <3>3. \A f \in Fd : \A c \in Items(wq'[f]) :
            c.cmd \in NewCmds => c \in Items(wq[f]) \union Items(exq)
      BY <2>8, <2>9
    <3>. QED
      BY <1>2, <2>5, <2>10, <2>11, <2>12, <3>1, <3>2, <3>3, HandledKnown
  <2>14. Table'
    <3>1. \A p \in Player : \A sid : sid = vPid2Sid'[p] /\ sid # None => Live(sid)'
      BY <1>1, <1>2, <2>4, TableSids, StaysLive
    <3>2. vSess[tfd].pid = pid
      BY <1>1, <1>2, <1>4, <1>6, <2>1 DEF Table, Of
    <3>3. ASSUME NEW p \in Player, NEW f \in Fd PROVE vSess'[f].pid = p <=> Of(p, f)'
      <4>1. vSess[f].pid = p <=> vPid2Sid[p] # None /\ f = FdOf(vPid2Sid[p])
        BY <1>1, <1>2 DEF Table, Of
      <4>2. Of(p, f)' <=> p # pid /\ vPid2Sid[p] # None /\ f = FdOf(vPid2Sid[p])
        BY <1>1 DEF Of
      <4>3. p # None
        BY GateAssumption
      <4>. QED
        BY <1>4, <2>4, <3>2, <4>1, <4>2, <4>3
    <3>. QED
      BY <3>1, <3>3, TableIs
  <2>. QED
    BY <2>13, <2>14
<1>7. CASE tsid = None
  <2>1. vSess' = vSess /\ wq' = wq
    BY <1>5, <1>7 DEF SigninKick
  <2>2. Handled
    BY <1>1, <1>2, <2>1 DEF Handled
  <2>3. NewQueued /\ NewSids
    BY <1>1, <2>1, SameSids DEF NewQueued
  <2>4. \A n \in Nat : FirstOnce(n)' /\ (Pending(n)' => Pending(n))
    BY <2>1, <2>2, NoMoreSame, NothingFirst
  <2>5. \A f \in Fd : SessOK(f)'
    BY <1>2, <2>1, <2>2, HandledSteady
  <2>6. Known'
    <3>1. Closes'
      BY <1>1 DEF Closes
    <3>. QED
      BY <1>2, <2>1, <2>2, <2>3, <2>4, <2>5, <3>1, HandledKnown
  <2>7. Table'
    <3>1. \A p \in Player : \A sid : sid = vPid2Sid'[p] /\ sid # None => Live(sid)'
      BY <1>1, <1>2, <2>1, TableSids, StaysLive
    <3>2. ASSUME NEW p \in Player, NEW f \in Fd PROVE vSess'[f].pid = p <=> Of(p, f)'
      <4>1. vSess[f].pid = p <=> vPid2Sid[p] # None /\ f = FdOf(vPid2Sid[p])
        BY <1>1, <1>2 DEF Table, Of
      <4>2. Of(p, f)' <=> p # pid /\ vPid2Sid[p] # None /\ f = FdOf(vPid2Sid[p])
        BY <1>1 DEF Of
      <4>. QED
        BY <1>4, <1>7, <2>1, <4>1, <4>2
    <3>. QED
      BY <3>1, <3>2, TableIs
  <2>. QED
    BY <2>6, <2>7
<1>. QED
  BY <1>6, <1>7


(* A step that queues nothing and leaves the servers and connections. *)
LEMMA QuietKnown ==
  ASSUME Inv, Inv', Known, Handled, Closes', wq' = wq, NewSids,
         \A f \in Fd : SessOK(f)',
         \A f \in Fd : vSess[f].mode = "SRV" /\ f \in polled /\ vSess[f].map # None
                         => vSess'[f].map # None,
         \A f \in Fd : Closing(f) => Closing(f)' \/ vSess'[f] = NoSess
  PROVE  Known'
<1>1. \A n \in Nat : FirstOnce(n)' /\ (Pending(n)' => Pending(n))
  BY NoMoreSame, NothingFirst
<1>2. NewQueued
  BY DEF NewQueued
<1>. QED
  BY <1>1, <1>2, HandledKnown

(* The new session gets the player: it has been certified as no other. *)
LEMMA SigninAssignTable ==
  ASSUME Inv, Inv', Known, Table, SigninAssign
  PROVE  Known' /\ Table'
<1>. SUFFICES ASSUME NEW b, b = Head(exq), NEW pid, pid = b.pid, NEW map, map = b.map,
                     NEW sid, sid = b.sid, NEW fd, fd = FdOf(sid)
              PROVE  Known' /\ Table'
  OBVIOUS
<1>1. /\ UNCHANGED <<made, sn, open, polled, out, sent, gPlys, conn, certified, exq, vPid2Sid, wq>>
      /\ exq # << >> /\ b.cmd = "SIGNIN_CLI"
      /\ xpc = "assign" /\ xpc' = "on"
      /\ vSess' = [vSess EXCEPT ![fd].map = map, ![fd].pid = pid]
  BY DEF SigninAssign, InSignin, Head_is, worker, servers, history
<1>2. \A f : ~Closing(f) /\ ~Closing(f)'
  BY <1>1 DEF Closing
<1>3. b \in Commands /\ get_sess(sid) /\ sid # None
  BY <1>1, HeadType DEF Head_is, Inv, SigninStays, get_sess
<1>4. pid \in Player /\ pid # None /\ map # None /\ sid \in SidOrNone /\ fd \in Fd
  BY <1>1, <1>3, CommandFields, SidFd, GateAssumption
<1>5. /\ \A f \in Fd : /\ vSess'[f].sid = vSess[f].sid /\ vSess'[f].mode = vSess[f].mode
                       /\ vSess'[f].state = vSess[f].state
      /\ \A f \in Fd \ {fd} : vSess'[f] = vSess[f]
      /\ vSess'[fd].pid = pid /\ vSess'[fd].map = map
  <2>1. /\ vSess'[fd].sid = vSess[fd].sid /\ vSess'[fd].mode = vSess[fd].mode
        /\ vSess'[fd].state = vSess[fd].state
        /\ vSess'[fd].pid = pid /\ vSess'[fd].map = map
        /\ \A f \in Fd \ {fd} : vSess'[f] = vSess[f]
    BY <1>1, <1>4 DEF Inv, TypeOK, Sess
  <2>2. ASSUME NEW f \in Fd
        PROVE  /\ vSess'[f].sid = vSess[f].sid /\ vSess'[f].mode = vSess[f].mode
               /\ vSess'[f].state = vSess[f].state
    <3>1. CASE f = fd
      BY <2>1, <3>1
    <3>2. CASE f # fd
      BY <2>1, <3>2
    <3>. QED
      BY <3>1, <3>2
  <2>. QED
    BY <2>1, <2>2
<1>6. Handled
  BY <1>1, <1>2, <1>5 DEF Handled
<1>7. Steady /\ Meant(sid, pid)
  BY <1>1, <1>6, HandledSteady DEF CommandOK
<1>8. Live(sid) /\ vSess[fd].sid = sid
  BY <1>2, <1>3 DEF Live, get_sess
<1>9. <<conn[fd], pid>> \in certified /\ vSess[fd].mode = "CLI"
  BY <1>3, <1>4, <1>7, <1>8, Kinds DEF Meant
<1>10. SessOK(fd)'
  <2>1. Meant(sid, pid)'
    BY <1>4, <1>7, MeantStays DEF Inv
  <2>2. vSess'[fd].sid = sid
    BY <1>4, <1>5, <1>8
  <2>3. Meant(vSess[fd].sid, vSess[fd].pid)'
    BY <1>5, <2>1, <2>2 DEF Meant, Live, get_sess
  <2>. QED
    BY <1>2, <1>3, <1>4, <1>5, <2>2, <2>3 DEF SessOK
<1>11. \A f \in Fd : SessOK(f)'
  <2>1. \A f \in Fd \ {fd} : SessOK(f)'
    BY <1>2, <1>5, <1>6, HandledSteady
  <2>. QED
    BY <1>10, <2>1
<1>12. Known'
  <2>1. Closes' /\ NewSids
    BY <1>1, SameSids DEF Closes
  <2>2. \A f \in Fd : vSess[f].map # None => vSess'[f].map # None
    BY <1>4, <1>5
  <2>. QED
    BY <1>1, <1>2, <1>6, <1>11, <2>1, <2>2, QuietKnown
<1>13. Table'
  <2>1. \A p \in Player : \A x : x = vPid2Sid'[p] /\ x # None => Live(x)'
    BY <1>1, <1>2, <1>5, TableSids, StaysLive
  <2>2. \A p \in Player : vSess[fd].pid = p => p = pid
    <3>1. ASSUME NEW p \in Player, vSess[fd].pid = p PROVE <<conn[fd], p>> \in certified
      BY <1>2, <1>4, <1>9, <3>1, ClientSess, GateAssumption
    <3>. QED
      BY <1>4, <1>9, <3>1 DEF Known, OnePlayer, Inv, TypeOK
  <2>3. ASSUME NEW p \in Player, NEW f \in Fd PROVE vSess'[f].pid = p <=> Of(p, f)'
    <3>1. vSess[f].pid = p <=> p # pid /\ vPid2Sid[p] # None /\ f = FdOf(vPid2Sid[p])
      BY <1>1, <1>2 DEF Table, Of
    <3>2. Of(p, f)' <=> IF p = pid THEN f = fd ELSE vPid2Sid[p] # None /\ f = FdOf(vPid2Sid[p])
      BY <1>1 DEF Of
    <3>. QED
      BY <1>4, <1>5, <2>2, <3>1, <3>2
  <2>. QED
    BY <2>1, <2>3, TableIs
<1>. QED
  BY <1>12, <1>13

(* The table is told. *)
LEMMA SigninOnTable ==
  ASSUME Inv, Inv', Known, Table, SigninOn
  PROVE  Known' /\ Table'
<1>. SUFFICES ASSUME NEW b, b = Head(exq), NEW pid, pid = b.pid,
                     NEW sid, sid = b.sid, NEW fd, fd = FdOf(sid)
              PROVE  Known' /\ Table'
  OBVIOUS
<1>1. /\ UNCHANGED <<made, sn, open, polled, out, sent, gPlys, conn, certified, wq>>
      /\ exq # << >> /\ exq' = Tail(exq) /\ b.cmd = "SIGNIN_CLI"
      /\ xpc = "on" /\ xpc' = "next"
      /\ vSess' = [vSess EXCEPT ![fd].state = "ON"]
      /\ vPid2Sid' = [vPid2Sid EXCEPT ![pid] = sid]
  BY DEF SigninOn, InSignin, Head_is, worker, servers, history, add_cli
<1>2. \A f : ~Closing(f) /\ ~Closing(f)'
  BY <1>1 DEF Closing
<1>3. b \in Commands /\ get_sess(sid) /\ sid # None
  BY <1>1, HeadType DEF Head_is, Inv, SigninStays, get_sess
<1>4. pid \in Player /\ sid \in SidOrNone /\ fd \in Fd
  BY <1>1, <1>3, CommandFields, SidFd
<1>5. \A f \in Fd : /\ vSess'[f].sid = vSess[f].sid /\ vSess'[f].mode = vSess[f].mode
                    /\ vSess'[f].pid = vSess[f].pid /\ vSess'[f].map = vSess[f].map
                    /\ vSess'[f].state \in {vSess[f].state, "ON"}
  BY <1>1 DEF Inv, TypeOK, Sess
<1>6. \A p \in Pid : vPid2Sid'[p] = IF p = pid THEN sid ELSE vPid2Sid[p]
  BY <1>1 DEF Inv, TypeOK
<1>7. Handled
  BY <1>1, <1>2, <1>5 DEF Handled
<1>8. Steady /\ Meant(sid, pid)
  BY <1>1, <1>7, HandledSteady DEF CommandOK
<1>9. NewSids
  <2>1. Meant(sid, pid)'
    BY <1>4, <1>8, MeantStays DEF Inv
  <2>2. ASSUME NEW p \in Pid, p = pid PROVE Meant(vPid2Sid[p], p)'
    <3>1. vPid2Sid'[p] = sid
      BY <1>6, <2>2
    <3>. QED
      BY <2>1, <2>2, <3>1 DEF Meant, Live, get_sess
  <2>. QED
    BY <1>1, <1>6, <2>2 DEF NewSids
<1>10. \A f \in Fd : SessOK(f)'
  BY <1>2, <1>5, <1>7, HandledSteady
<1>11. Known'
  <2>1. Closes'
    BY <1>1 DEF Closes
  <2>. QED
    BY <1>1, <1>2, <1>5, <1>7, <1>9, <1>10, <2>1, QuietKnown
<1>12. Table'
  <2>1. Live(sid)
    BY <1>2, <1>3 DEF Live
  <2>2. \A p \in Player : \A x : x = vPid2Sid'[p] /\ x # None => Live(x)'
    <3>1. Live(sid)'
      BY <1>2, <1>4, <1>5, <2>1, StaysLive
    <3>2. \A p \in Player : \A x : x = vPid2Sid[p] /\ x # None => Live(x)'
      BY <1>2, <1>5, TableSids, StaysLive
    <3>. QED
      BY <1>6, <3>1, <3>2 DEF Pid
  <2>3. ASSUME NEW p \in Player, NEW f \in Fd PROVE vSess'[f].pid = p <=> Of(p, f)'
    <3>1. vSess[f].pid = p <=> IF p = pid THEN f = fd
                               ELSE vPid2Sid[p] # None /\ f = FdOf(vPid2Sid[p])
      BY <1>1, <1>2 DEF Table, Of
    <3>2. Of(p, f)' <=> vPid2Sid'[p] # None /\ f = FdOf(vPid2Sid'[p])
      BY <1>1 DEF Of
    <3>3. vPid2Sid'[p] = IF p = pid THEN sid ELSE vPid2Sid[p]
      BY <1>6 DEF Pid
    <3>. QED
      BY <1>3, <1>5, <3>1, <3>2, <3>3
  <2>. QED
    BY <2>2, <2>3, TableIs
<1>. QED
  BY <1>11, <1>12

(* A session is closed: its player goes from the table with it. *)
LEMMA SignoutCloseTable ==
  ASSUME Inv, Inv', Known, Table, SignoutClose
  PROVE  Known' /\ Table'
<1>. SUFFICES ASSUME NEW b, b = Head(exq), NEW sid, sid = b.sid, NEW fd, fd = FdOf(sid)
              PROVE  Known' /\ Table'
  OBVIOUS
<1>1. /\ UNCHANGED <<made, sn, polled, out, sent, gPlys, conn, certified, wq, vSess>>
      /\ exq # << >> /\ b.cmd = "SIGNOUT" /\ xpc = "next"
  BY DEF SignoutClose, Head_is, servers, history
<1>2. \A f : ~Closing(f)
  BY <1>1 DEF Closing
<1>3. CASE ~get_sess(sid)
  <2>1. /\ exq' = Tail(exq) /\ open' = open /\ xpc' = xpc /\ vPid2Sid' = vPid2Sid
    BY <1>3 DEF SignoutClose
  <2>2. \A f : ~Closing(f)'
    BY <1>1, <2>1 DEF Closing
  <2>3. Handled
    BY <1>1, <1>2, <2>1 DEF Handled
  <2>4. \A f \in Fd : SessOK(f)'
    BY <1>1, <2>2, <2>3, HandledSteady
  <2>5. Closes' /\ NewSids
    BY <1>1, <2>1, SameSids DEF Closes
  <2>6. Known'
    BY <1>1, <1>2, <2>3, <2>4, <2>5, QuietKnown
  <2>7. Table'
    BY <1>1, <1>2, <2>1, <2>2, TableKept
  <2>. QED
    BY <2>6, <2>7
<1>4. ASSUME get_sess(sid), NEW pid, pid = vSess[fd].pid PROVE Known' /\ Table'
  <2>1. /\ exq' = exq /\ open' \subseteq open /\ xpc' = "wipe"
        /\ vPid2Sid' = IF pid = None THEN vPid2Sid ELSE [vPid2Sid EXCEPT ![pid] = None]
    BY <1>4 DEF SignoutClose, rem_cli
  <2>2. b \in Commands /\ b \in Items(exq) /\ sid # None
    <3>1. exq \in Seq(Commands)
      BY DEF Inv, TypeOK
    <3>. QED
      BY <1>1, <1>4, <3>1, HeadIsItem, QueueTypes DEF get_sess
  <2>3. sid \in SidOrNone /\ fd \in Fd /\ fd \notin polled
    BY <1>1, <1>4, <2>2, CommandFields, SidFd DEF Inv, Signouts, LetGo
  <2>4. \A f : Closing(f)' <=> f = fd
    BY <1>1, <2>1 DEF Closing, Head_is
  <2>5. \A p \in Pid : vPid2Sid'[p] = IF p = pid THEN None ELSE vPid2Sid[p]
    BY <2>1, GateAssumption DEF Inv, TypeOK, Pid
  <2>6. Handled
    BY <1>1, <1>2, <2>1 DEF Handled
  <2>7. \A f \in Fd : SessOK(f)'
    BY <1>1, <2>3, <2>4, <2>6, HandledSteady
  <2>8. Closes'
    BY <1>1, <1>4, <2>1 DEF Closes, Head_is, get_sess
  <2>9. NewSids
    <3>1. ASSUME NEW p \in Pid, vPid2Sid'[p] = None PROVE Meant(vPid2Sid[p], p)'
      BY <3>1 DEF Meant
    <3>. QED
      BY <1>1, <2>5, <3>1 DEF NewSids
  <2>10. Known'
    BY <1>1, <1>2, <2>6, <2>7, <2>8, <2>9, QuietKnown
  <2>11. \A p \in Player, f \in Fd :
           vSess[f].pid = p <=> vPid2Sid[p] # None /\ f = FdOf(vPid2Sid[p])
    BY <1>1, <1>2 DEF Table, Of
  <2>12. \A p \in Player : \A x : x = vPid2Sid'[p] /\ x # None => Live(x)'
    <3>1. ASSUME NEW p \in Player, NEW x, x = vPid2Sid'[p], x # None PROVE Live(x)'
      <4>1. p # pid /\ x = vPid2Sid[p]
        BY <2>5, <3>1 DEF Pid
      <4>2. Live(x) /\ x \in SidOrNone /\ FdOf(x) \in Fd
        BY <3>1, <4>1, TableSids
      <4>3. FdOf(x) # fd
        BY <1>4, <2>3, <2>11, <3>1, <4>1
      <4>. QED
        BY <1>1, <2>4, <4>2, <4>3, StaysLive
    <3>. QED
      BY <3>1
  <2>13. ASSUME NEW p \in Player, NEW f \in Fd, ~Closing(f)' PROVE vSess'[f].pid = p <=> Of(p, f)'
    <3>1. f # fd /\ vSess'[f].pid = vSess[f].pid
      BY <1>1, <2>4, <2>13
    <3>2. Of(p, f)' <=> vPid2Sid'[p] # None /\ f = FdOf(vPid2Sid'[p])
      BY <2>1 DEF Of
    <3>3. vPid2Sid'[p] = IF p = pid THEN None ELSE vPid2Sid[p]
      BY <2>5 DEF Pid
    <3>4. p = pid => fd = FdOf(vPid2Sid[p])
      BY <1>4, <2>3, <2>11
    <3>. QED
      BY <2>11, <3>1, <3>2, <3>3, <3>4
  <2>14. Table'
    BY <2>12, <2>13, TableIs
  <2>. QED
    BY <2>10, <2>14
<1>. QED
  BY <1>3, <1>4

(* And wiped. *)
LEMMA SignoutWipeTable ==
  ASSUME Inv, Inv', Known, Table, SignoutWipe
  PROVE  Known' /\ Table'
<1>. SUFFICES ASSUME NEW b, b = Head(exq), NEW sid, sid = b.sid, NEW fd, fd = FdOf(sid)
              PROVE  Known' /\ Table'
  OBVIOUS
<1>1. /\ UNCHANGED <<made, sn, open, polled, out, sent, gPlys, conn, certified, wq, vPid2Sid>>
      /\ exq # << >> /\ exq' = Tail(exq) /\ b.cmd = "SIGNOUT"
      /\ xpc = "wipe" /\ xpc' = "next"
      /\ vSess' = [vSess EXCEPT ![fd] = NoSess]
  BY DEF SignoutWipe, Head_is, worker, servers, history
<1>2. \A f : (Closing(f) <=> f = fd) /\ ~Closing(f)'
  BY <1>1 DEF Closing, Head_is
<1>3. sid # None /\ sid \in SidOrNone /\ fd \in Fd
  <2>1. get_sess(sid) /\ b \in Commands
    BY <1>1, HeadType DEF Known, Closes, Head_is, Inv
  <2>. QED
    BY <1>1, <2>1, CommandFields, SidFd DEF get_sess
<1>4. vSess'[fd] = NoSess /\ \A f \in Fd \ {fd} : vSess'[f] = vSess[f]
  BY <1>1, <1>3 DEF Inv, TypeOK
<1>5. fd \notin polled
  BY <1>2, <1>3 DEF Known, Places, SessOK
<1>6. Handled
  BY <1>1, <1>2, <1>4, <1>5 DEF Handled
<1>7. \A f \in Fd : SessOK(f)'
  <2>1. SessOK(fd)'
    BY <1>1, <1>4, <1>5 DEF SessOK, NoSess
  <2>2. \A f \in Fd \ {fd} : SessOK(f)'
    BY <1>2, <1>4, <1>6, HandledSteady
  <2>. QED
    BY <2>1, <2>2
<1>8. Known'
  <2>1. Closes' /\ NewSids
    BY <1>1, SameSids DEF Closes
  <2>2. \A f \in Fd : Closing(f) => vSess'[f] = NoSess
    BY <1>2, <1>4
  <2>3. \A f \in Fd : f \in polled => vSess'[f] = vSess[f]
    BY <1>4, <1>5
  <2>. QED
    BY <1>1, <1>6, <1>7, <2>1, <2>2, <2>3, QuietKnown
<1>9. \A p \in Player : \A x : x = vPid2Sid[p] /\ x # None =>
        Live(x) /\ x \in SidOrNone /\ FdOf(x) \in Fd /\ FdOf(x) # fd
  <2>1. ASSUME NEW p \in Player, NEW x, x = vPid2Sid[p], x # None
        PROVE  Live(x) /\ x \in SidOrNone /\ FdOf(x) \in Fd
    BY <2>1, TableSids
  <2>. QED
    BY <1>2, <2>1 DEF Live
<1>10. \A p \in Player : \A x : x = vPid2Sid'[p] /\ x # None => Live(x)'
  BY <1>1, <1>2, <1>4, <1>9, StaysLive
<1>11. ASSUME NEW p \in Player, NEW f \in Fd PROVE vSess'[f].pid = p <=> Of(p, f)'
  <2>1. Of(p, f)' <=> vPid2Sid[p] # None /\ f = FdOf(vPid2Sid[p])
    BY <1>1 DEF Of
  <2>2. CASE f = fd
    <3>1. vSess'[f].pid # p
      BY <1>4, <2>2, GateAssumption DEF NoSess
    <3>. QED
      BY <1>9, <2>1, <2>2, <3>1
  <2>3. CASE f # fd
    <3>1. vSess[f].pid = p <=> vPid2Sid[p] # None /\ f = FdOf(vPid2Sid[p])
      BY <1>1, <1>2, <2>3 DEF Table, Of
    <3>. QED
      BY <1>4, <2>1, <2>3, <3>1
  <2>. QED
    BY <2>2, <2>3
<1>12. Table'
  BY <1>10, <1>11, TableIs
<1>. QED
  BY <1>8, <1>12


LEMMA ExchangeTable ==
  ASSUME Inv, Inv', Known, Table, Exchange
  PROVE  Known' /\ Table'
BY RouteTable, ForwardTable, SigninServerTable, SigninLateTable, SigninKickTable,
   SigninAssignTable, SigninOnTable, SignoutCloseTable, SignoutWipeTable, BroadcastTable
   DEF Exchange

-----------------------------------------------------------------------------
LEMMA NextTable ==
  ASSUME Inv, Inv', Known, Table, [Next]_vars
  PROVE  Known' /\ Table'
<1>1. ASSUME NEW fd \in Fd, Worker(fd) PROVE Known' /\ Table'
  BY <1>1, FlushTable, DoIncomeTable, DoConnectTable, ShakeTable, SetMapIdTable,
     ServerTurnTable, ToolPacketTable, GoneTable DEF Worker
<1>2. ASSUME NEW fd \in Fd, Peer(fd) PROVE Known' /\ Table'
  <2>1. ASSUME NEW m \in Map, Accept(fd, "CLI", m) \/ Accept(fd, "SRV", m)
        PROVE  Known' /\ Table'
    BY <2>1, AcceptTable
  <2>2. ASSUME NEW m \in Map, FirstPacket(fd, m) PROVE Known' /\ Table'
    BY <2>2, FirstPacketTable
  <2>3. CASE start_connect(fd)
    BY <2>3, ConnectTable
  <2>4. CASE ClientPacket(fd)
    BY <2>4, ClientPacketTable
  <2>5. CASE ClientBreak(fd) \/ \E eof \in BOOLEAN : ToolBreak(fd, eof)
    BY <2>5, GoneTable
  <2>6. ASSUME NEW n \in 1..Cardinality(Player), NEW to \in [1..n -> Player],
               ClientToPlayers(fd, to)
        PROVE  Known' /\ Table'
    <3>1. n \in Nat
      OBVIOUS
    <3>. QED
      BY <2>6, <3>1, ToPlayersTable
  <2>. QED
    BY <1>2, <2>1, <2>2, <2>3, <2>4, <2>5, <2>6 DEF Peer
<1>3. ASSUME NEW fd \in Fd, Discard(fd) \/ ReachClient(fd) \/ ReachTool(fd)
      PROVE  Known' /\ Table'
  BY <1>3, ReachTable
<1>4. CASE Exchange
  BY <1>4, ExchangeTable
<1>5. ASSUME NEW m \in Map, Handle(m) PROVE Known' /\ Table'
  BY <1>5, HandleTable, CertifyTable DEF Handle, Handles1
<1>6. ASSUME NEW m \in Map, Server(m) PROVE Known' /\ Table'
  BY <1>6, ServerTable
<1>7. CASE UNCHANGED vars
  <2>1. Apart /\ certified' = certified /\ sent' = sent /\ gPlys' = gPlys
    BY <1>7 DEF vars, worker, servers, history, Apart, SaysMap
  <2>. QED
    BY <2>1, PeerTable
<1>. QED
  BY <1>1, <1>2, <1>3, <1>4, <1>5, <1>6, <1>7 DEF Next

LEMMA InitTable == Init => Known /\ Table
<1>. SUFFICES ASSUME Init PROVE Known /\ Table
  OBVIOUS
<1>1. /\ exq = << >> /\ Items(exq) = {}
      /\ \A fd \in Fd : /\ out[fd] = << >> /\ wq[fd] = << >> /\ sent[fd] = << >>
                        /\ Items(out[fd]) = {} /\ Items(wq[fd]) = {} /\ Items(sent[fd]) = {}
      /\ polled = {} /\ open = {} /\ certified = {} /\ made = 0 /\ xpc = "next"
  BY ItemsOfOne DEF Init
<1>2. \A fd \in Fd : /\ vSess[fd].sid = None /\ vSess[fd].pid = None /\ vSess[fd].map = None
                     /\ vSess[fd].mode = None /\ conn[fd] = 0
  BY DEF Init, NoSess
<1>3. /\ \A p \in Pid : vPid2Sid[p] = None
      /\ \A m \in Map, p \in Player : gPlys[m][p].sockid = None
  BY DEF Init, Loaded, NoPly
<1>4. \A fd \in Fd : SessOK(fd) /\ MapFirst(fd)
  BY <1>1, <1>2 DEF SessOK, MapFirst
<1>5. Places
  BY <1>1, <1>3, <1>4 DEF Places, Meant
<1>6. Closes /\ Conns
  BY <1>1, <1>2 DEF Closes, Conns
<1>7. \A n : ~Has(exq, n) /\ Single(exq, n)
             /\ \A f \in Fd : /\ ~Has(out[f], n) /\ Single(out[f], n)
                              /\ ~Has(wq[f], n) /\ Single(wq[f], n)
  BY <1>1, NoFirst DEF Has
<1>8. OnePlayer
  BY <1>1, <1>7 DEF OnePlayer, FirstOnce, Pending, Uncertified
<1>9. Table
  BY <1>1, <1>2, <1>3, GateAssumption DEF Table, Of, Pid
<1>. QED
  BY <1>5, <1>6, <1>8, <1>9 DEF Known

(* A queued packet for the session that is polled is for its pid's kind,   *)
(* and its connection has been certified as that pid.                      *)
LEMMA QueuedFor ==
  ASSUME Inv, Known, NEW fd \in polled, NEW i \in DOMAIN wq[fd], NEW b, b = wq[fd][i],
         b.cmd = "PACKET", b.sid = vSess[fd].sid
  PROVE  /\ <<conn[fd], b.to>> \in certified
         /\ vSess[fd].mode = KindOf(b.type)
<1>1. /\ fd \in Fd /\ b.sid # None /\ FdOf(b.sid) = fd /\ Live(b.sid)
  BY PolledSess
<1>2. b \in Items(wq[fd])
  BY DEF Items
<1>3. b.to # None /\ Meant(b.sid, b.to) /\ PacketOK(b.to, b.type, b.arg)
  BY <1>1, <1>2 DEF Known, Places, QueuedOK
<1>4. <<conn[fd], b.to>> \in certified /\ vSess[fd].mode = KindOfPid(b.to)
  BY <1>1, <1>3 DEF Meant
<1>. QED
  BY <1>3, <1>4 DEF PacketOK

LEMMA AlwaysKnown == Spec => [](Inv /\ Known /\ Table)
<1>1. Init => Inv /\ Known /\ Table
  BY InitHolds, InitTable
<1>2. (Inv /\ Known /\ Table) /\ [Next]_vars => (Inv /\ Known /\ Table)'
  BY NextKeeps, NextTable
<1>. QED
  BY <1>1, <1>2, PTL DEF Spec

(* Between two commands of the exchange thread, vPid2Sid names for each    *)
(* player the one live client session that has the player's pid, however   *)
(* takeovers, late signins and workers that break sessions interleave.     *)
THEOREM TableMatches == Spec => []TableMatchesSessions
<1>1. Inv /\ Known /\ Table => TableMatchesSessions
  <2>. SUFFICES ASSUME Inv, Known, Table, xpc = "next", NEW p \in Player, NEW sid, sid = vPid2Sid[p]
                PROVE  /\ sid # None => get_sess(sid) /\ vSess[FdOf(sid)].mode = "CLI"
                       /\ \A fd \in Fd : vSess[fd].pid = p <=> sid # None /\ fd = FdOf(sid)
    BY DEF TableMatchesSessions
  <2>1. \A fd : ~Closing(fd)
    BY DEF Closing
  <2>2. \A fd \in Fd : vSess[fd].pid = p <=> sid # None /\ fd = FdOf(sid)
    BY <2>1 DEF Table, Of
  <2>3. Meant(sid, p)
    BY DEF Known, Places, Pid
  <2>4. sid # None => Live(sid)
    BY DEF Table
  <2>. QED
    BY <2>2, <2>3, <2>4, Kinds DEF Meant, Live
<1>. QED
  BY <1>1, AlwaysKnown, PTL

(* What reaches a peer for a pid reaches a connection that was certified   *)
(* as that pid, and a session that has a pid belongs to such a connection: *)
(* the next connection on a descriptor inherits nothing from the last.     *)
THEOREM CertifiedOnly == Spec => []OnlyToCertified
<1>1. Inv /\ Known /\ Table => OnlyToCertified
  BY PolledSess, QueuedFor DEF OnlyToCertified
<1>. QED
  BY <1>1, AlwaysKnown, PTL

(* A packet for a map server never reaches a client or the tool server,    *)
(* nor one of theirs another kind of peer.                                 *)
THEOREM RightKinds == Spec => []RightKind
<1>1. Inv /\ Known /\ Table => RightKind
  BY QueuedFor DEF RightKind
<1>. QED
  BY <1>1, AlwaysKnown, PTL
=============================================================================
