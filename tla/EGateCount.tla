----------------------------- MODULE EGateCount ------------------------------
(***************************************************************************)
(* For any descriptors, players, maps and number of connections, as long   *)
(* as the tool server accepts none: the gate's counters say what its table *)
(* and its sessions do, and pass the check of status() (CountsAgree).      *)
(*                                                                         *)
(* gCountSck counts the connections that have been announced to their      *)
(* worker and not wiped yet, gCountSrv the sessions of map servers whose   *)
(* signin has been handled, gCountPly the players in the table.  Servers   *)
(* and players are on sessions of their own, so that their sum is at most  *)
(* gCountSck.  The exchange thread counts a server in and out once, and in *)
(* this order, because one worker writes both commands to one queue.       *)
(***************************************************************************)
EXTENDS EGateTable

(* No connection is the tool server's. *)
NoTool == \A c \in certified : c[2] # PidTool

(* A server's signin comes after no signin or signout of the same session. *)
Signs == {"SIGNIN_SRV", "SIGNOUT"}
Spoils(a, b) == a.cmd \in Signs /\ b.cmd = "SIGNIN_SRV" /\ a.sid = b.sid
Ordered(q) == \A i, j \in DOMAIN q : i < j => ~Spoils(q[i], q[j])
InTurn ==
  /\ Ordered(exq)
  /\ \A fd \in Fd : /\ Ordered(out[fd])
                    /\ \A a \in Items(exq), b \in Items(out[fd]) : ~Spoils(a, b)
                    /\ \A b \in Items(out[fd]) : b.cmd \in Signs => FdOf(b.sid) = fd

(* It finds the pid that the worker has written. *)
SigninOK(b) ==
  b.cmd = "SIGNIN_SRV" =>
    b.pid \in Map /\ (get_sess(b.sid) => vSess[FdOf(b.sid)].pid = b.pid)
SigninsOK ==
  /\ \A b \in Items(exq) : SigninOK(b)
  /\ \A fd \in Fd : \A b \in Items(out[fd]) : SigninOK(b)

(* A map server says which map it is once, before it has a pid. *)
OnlyFirst(q) == \A i \in DOMAIN q : q[i].type = "SET_MAP_ID" => i = 1
MapOnce(fd) ==
  /\ OnlyFirst(sent[fd])
  /\ SaysMap(fd) =>
       /\ \/ Closing(fd)
          \/ /\ vSess[fd].pid = None
             /\ vSess[fd].sid = None \/ vSess[fd].mode = "SRV"
       /\ \A b \in Items(out[fd]) \union Items(exq) \union Items(wq[fd]) :
            b.cmd = "INCOME" /\ b.fd = fd => b.mode = "SRV"

Ready == NoTool /\ InTurn /\ SigninsOK /\ \A fd \in Fd : MapOnce(fd)

(* What the counters count. *)
Signing(fd) ==
  \E b \in Items(exq) \union Items(out[fd]) : b.cmd = "SIGNIN_SRV" /\ b.sid = vSess[fd].sid
Announced == {fd \in Fd : vSess[fd].sid # None \/ Holds(wq[fd], fd)}
ServersOn == {fd \in Fd : vSess[fd].pid \in Map /\ ~Closing(fd) /\ ~Signing(fd)}
PlayersOn ==
  {p \in Player : vPid2Sid[p] # None /\ ~(xpc \in {"assign", "on"} /\ p = Head(exq).pid)}

Counts(n, S) == IsFiniteSet(S) /\ n = Cardinality(S)
Counted ==
  Counts(gCountSck, Announced) /\ Counts(gCountSrv, ServersOn) /\ Counts(gCountPly, PlayersOn)

-----------------------------------------------------------------------------
(* Queues. *)

LEMMA OrderedConcat ==
  ASSUME NEW S, NEW q \in Seq(S), NEW r \in Seq(S), Ordered(q), Ordered(r),
         \A a \in Items(q), b \in Items(r) : ~Spoils(a, b)
  PROVE  Ordered(q \o r)
<1>1. /\ DOMAIN q = 1..Len(q) /\ DOMAIN r = 1..Len(r) /\ DOMAIN (q \o r) = 1..Len(q) + Len(r)
      /\ Len(q) \in Nat /\ Len(r) \in Nat
      /\ \A i \in 1..Len(q) + Len(r) :
           (q \o r)[i] = IF i <= Len(q) THEN q[i] ELSE r[i - Len(q)]
  BY ConcatProperties, LenProperties
<1>2. SUFFICES ASSUME NEW i \in DOMAIN (q \o r), NEW j \in DOMAIN (q \o r), i < j
               PROVE  ~Spoils((q \o r)[i], (q \o r)[j])
  BY DEF Ordered
<1>3. CASE j <= Len(q)
  <2>1. /\ i \in DOMAIN q /\ j \in DOMAIN q
        /\ (q \o r)[i] = q[i] /\ (q \o r)[j] = q[j]
    BY <1>1, <1>2, <1>3
  <2>. QED
    BY <1>2, <2>1 DEF Ordered
<1>4. CASE i > Len(q)
  <2>1. /\ i - Len(q) \in DOMAIN r /\ j - Len(q) \in DOMAIN r /\ i - Len(q) < j - Len(q)
        /\ (q \o r)[i] = r[i - Len(q)] /\ (q \o r)[j] = r[j - Len(q)]
    BY <1>1, <1>2, <1>4
  <2>. QED
    BY <2>1 DEF Ordered
<1>5. CASE ~(j <= Len(q)) /\ ~(i > Len(q))
  <2>1. /\ i \in DOMAIN q /\ j - Len(q) \in DOMAIN r
        /\ (q \o r)[i] = q[i] /\ (q \o r)[j] = r[j - Len(q)]
    BY <1>1, <1>2, <1>5
  <2>2. (q \o r)[i] \in Items(q) /\ (q \o r)[j] \in Items(r)
    BY <2>1 DEF Items
  <2>. QED
    BY <2>2
<1>. QED
  BY <1>3, <1>4, <1>5

LEMMA OrderedTail ==
  ASSUME NEW S, NEW q \in Seq(S), q # << >>, Ordered(q)
  PROVE  Ordered(Tail(q)) /\ \A b \in Items(Tail(q)) : ~Spoils(Head(q), b)
<1>1. /\ Len(q) \in Nat /\ Len(q) > 0 /\ DOMAIN q = 1..Len(q) /\ Head(q) = q[1]
      /\ DOMAIN Tail(q) = 1..Len(q) - 1
      /\ \A i \in 1..Len(q) - 1 : Tail(q)[i] = q[i + 1]
  BY HeadTailProperties, LenProperties, EmptySeq
<1>2. ASSUME NEW i \in DOMAIN Tail(q)
      PROVE  i + 1 \in DOMAIN q /\ Tail(q)[i] = q[i + 1] /\ i \in Int /\ 1 < i + 1
  BY <1>1
<1>3. ASSUME NEW i \in DOMAIN Tail(q), NEW j \in DOMAIN Tail(q), i < j
      PROVE  ~Spoils(Tail(q)[i], Tail(q)[j])
  <2>1. i + 1 < j + 1
    BY <1>2, <1>3
  <2>. QED
    BY <1>2, <2>1 DEF Ordered
<1>4. ASSUME NEW i \in DOMAIN Tail(q) PROVE ~Spoils(Head(q), Tail(q)[i])
  <2>1. 1 \in DOMAIN q
    BY <1>1
  <2>. QED
    BY <1>1, <1>2, <2>1 DEF Ordered
<1>. QED
  BY <1>3, <1>4 DEF Ordered, Items

LEMMA OrderedNone ==
  ASSUME NEW q, \A b \in Items(q) : b.cmd # "SIGNIN_SRV"
  PROVE  Ordered(q)
BY DEF Ordered, Items, Spoils

LEMMA OrderedOne ==
  ASSUME NEW b
  PROVE  Ordered(<<b>>)
BY DEF Ordered

(* SET_MAP_ID is only ever at the head: it is gone when it has been read,  *)
(* and what is said later is something else.                               *)
LEMMA FirstRead ==
  ASSUME NEW S, NEW q \in Seq(S), q # << >>, OnlyFirst(q)
  PROVE  OnlyFirst(Tail(q)) /\ \A r \in Items(Tail(q)) : r.type # "SET_MAP_ID"
<1>1. /\ Len(q) \in Nat /\ Len(q) > 0 /\ DOMAIN q = 1..Len(q)
      /\ DOMAIN Tail(q) = 1..Len(q) - 1
      /\ \A i \in 1..Len(q) - 1 : Tail(q)[i] = q[i + 1]
  BY HeadTailProperties, LenProperties, EmptySeq
<1>2. ASSUME NEW i \in DOMAIN Tail(q) PROVE Tail(q)[i].type # "SET_MAP_ID"
  <2>1. i + 1 \in DOMAIN q /\ Tail(q)[i] = q[i + 1] /\ i + 1 # 1
    BY <1>1
  <2>. QED
    BY <2>1 DEF OnlyFirst
<1>. QED
  BY <1>2 DEF OnlyFirst, Items

LEMMA FirstSaid ==
  ASSUME NEW S, NEW q \in Seq(S), NEW r \in Seq(S), OnlyFirst(q),
         \A x \in Items(r) : x.type # "SET_MAP_ID"
  PROVE  /\ OnlyFirst(q \o r)
         /\ q \o r # << >> /\ Head(q \o r).type = "SET_MAP_ID"
              => q # << >> /\ Head(q).type = "SET_MAP_ID"
<1>1. /\ DOMAIN q = 1..Len(q) /\ DOMAIN r = 1..Len(r) /\ DOMAIN (q \o r) = 1..Len(q) + Len(r)
      /\ Len(q) \in Nat /\ Len(r) \in Nat
      /\ \A i \in 1..Len(q) + Len(r) :
           (q \o r)[i] = IF i <= Len(q) THEN q[i] ELSE r[i - Len(q)]
  BY ConcatProperties, LenProperties
<1>2. ASSUME NEW i \in DOMAIN (q \o r), (q \o r)[i].type = "SET_MAP_ID" PROVE i \in DOMAIN q
  <2>1. CASE i <= Len(q)
    BY <1>1, <2>1
  <2>2. CASE ~(i <= Len(q))
    <3>1. i - Len(q) \in DOMAIN r /\ (q \o r)[i] = r[i - Len(q)]
      BY <1>1, <2>2
    <3>2. (q \o r)[i] \in Items(r)
      BY <3>1 DEF Items
    <3>. QED
      BY <1>2, <3>2
  <2>. QED
    BY <2>1, <2>2
<1>3. OnlyFirst(q \o r)
  <2>1. ASSUME NEW i \in DOMAIN (q \o r), (q \o r)[i].type = "SET_MAP_ID" PROVE i = 1
    <3>1. i \in DOMAIN q /\ (q \o r)[i] = q[i]
      BY <1>1, <1>2, <2>1
    <3>. QED
      BY <2>1, <3>1 DEF OnlyFirst
  <2>. QED
    BY <2>1 DEF OnlyFirst
<1>4. ASSUME q \o r # << >>, Head(q \o r).type = "SET_MAP_ID"
      PROVE  q # << >> /\ Head(q).type = "SET_MAP_ID"
  <2>1. q \o r \in Seq(S)
    BY ConcatProperties
  <2>2. 1 \in DOMAIN (q \o r) /\ Head(q \o r) = (q \o r)[1]
    BY <1>4, <2>1, HeadTailProperties, LenProperties, EmptySeq
  <2>3. 1 \in DOMAIN q
    BY <1>2, <1>4, <2>2
  <2>4. q # << >>
    BY <2>3
  <2>. QED
    BY <1>4, <2>4, HeadConcat
<1>. QED
  BY <1>3, <1>4

-----------------------------------------------------------------------------
(* What a step has to show. *)

(* Nobody is certified as the tool server, which is therefore not polled,  *)
(* and of which no command speaks.                                         *)
LEMMA NoConnect ==
  ASSUME Known, NoTool
  PROVE  /\ \A b \in Items(exq) : b.cmd # "CONNECT"
         /\ \A fd \in Fd : \A b \in Items(wq[fd]) : b.cmd # "CONNECT"
BY DEF Known, Places, CommandOK, QueuedOK, NoTool

(* Sessions stay, are wiped or begin, and those of servers keep their pid. *)
ServersStay ==
  \A fd \in Fd : \/ /\ vSess'[fd].sid = vSess[fd].sid
                    /\ vSess[fd].pid \in Map => vSess'[fd].pid = vSess[fd].pid
                 \/ vSess'[fd].sid = None
                 \/ vSess'[fd].sid = <<sn + 1, fd>>

LEMMA SigninStaysOK ==
  ASSUME Inv, ServersStay, NEW b \in Commands, CommandOK(b), SigninOK(b)
  PROVE  SigninOK(b)'
<1>. DEFINE sid == b.sid
            fd == FdOf(sid)
<1>1. SUFFICES ASSUME b.cmd = "SIGNIN_SRV", sid # None, vSess'[fd].sid = sid
               PROVE  vSess'[fd].pid = b.pid
  BY DEF SigninOK, get_sess
<1>2. sid \in SidOrNone /\ Meant(sid, b.pid) /\ sn \in Nat
  BY <1>1, CommandFields DEF CommandOK, Inv, TypeOK
<1>3. fd \in Fd /\ sid[1] \in Nat /\ sid[1] <= sn
  BY <1>1, <1>2, SidFd DEF Meant
<1>. HIDE DEF sid, fd
<1>4. sid # <<sn + 1, fd>>
  BY <1>2, <1>3
<1>5. /\ vSess'[fd].sid = vSess[fd].sid
      /\ vSess[fd].pid \in Map => vSess'[fd].pid = vSess[fd].pid
  BY <1>1, <1>3, <1>4 DEF ServersStay
<1>6. get_sess(sid)
  BY <1>1, <1>5 DEF get_sess, fd
<1>7. b.pid \in Map /\ vSess[fd].pid = b.pid
  BY <1>1, <1>6 DEF SigninOK, sid, fd
<1>. QED
  BY <1>5, <1>7

LEMMA SigninsKept ==
  ASSUME Inv, Known, SigninsOK, ServersStay,
         \A b \in Items(exq') : \/ b \in Items(exq)
                                \/ \E fd \in Fd : b \in Items(out[fd])
                                \/ SigninOK(b)',
         \A fd \in Fd : \A b \in Items(out'[fd]) : b \in Items(out[fd]) \/ SigninOK(b)'
  PROVE  SigninsOK'
<1>1. \A b \in Items(exq) : SigninOK(b)'
  BY QueueTypes, SigninStaysOK DEF Known, Places, SigninsOK
<1>2. \A fd \in Fd : \A b \in Items(out[fd]) : SigninOK(b)'
  BY QueueTypes, SigninStaysOK DEF Known, Places, SigninsOK
<1>. QED
  BY <1>1, <1>2 DEF SigninsOK

LEMMA MapOnceKept ==
  ASSUME NEW fd \in Fd, MapOnce(fd), OnlyFirst(sent'[fd]), SaysMap(fd)' => SaysMap(fd),
         SaysMap(fd) => \/ vSess'[fd] = NoSess
                        \/ Closing(fd) /\ Closing(fd)'
                        \/ /\ ~Closing(fd)
                           /\ vSess'[fd].pid = vSess[fd].pid /\ vSess'[fd].sid = vSess[fd].sid
                           /\ vSess'[fd].mode = vSess[fd].mode,
         \A b \in Items(out'[fd]) \union Items(exq') \union Items(wq'[fd]) :
           b.cmd = "INCOME" /\ b.fd = fd =>
             b \in Items(out[fd]) \union Items(exq) \union Items(wq[fd])
  PROVE  MapOnce(fd)'
<1>1. SUFFICES ASSUME SaysMap(fd)'
               PROVE  /\ \/ Closing(fd)'
                         \/ /\ vSess'[fd].pid = None
                            /\ vSess'[fd].sid = None \/ vSess'[fd].mode = "SRV"
                      /\ \A b \in Items(out'[fd]) \union Items(exq') \union Items(wq'[fd]) :
                           b.cmd = "INCOME" /\ b.fd = fd => b.mode = "SRV"
  BY DEF MapOnce
<1>2. NoSess.pid = None /\ NoSess.sid = None
  BY DEF NoSess
<1>3. \A b \in Items(out'[fd]) \union Items(exq') \union Items(wq'[fd]) :
        b.cmd = "INCOME" /\ b.fd = fd => b.mode = "SRV"
  BY <1>1 DEF MapOnce
<1>4. \/ Closing(fd)'
      \/ /\ vSess'[fd].pid = None
         /\ vSess'[fd].sid = None \/ vSess'[fd].mode = "SRV"
  BY <1>1, <1>2 DEF MapOnce
<1>. QED
  BY <1>3, <1>4

LEMMA CountedKept ==
  ASSUME Counted, UNCHANGED counts, Announced' = Announced, ServersOn' = ServersOn,
         PlayersOn' = PlayersOn
  PROVE  Counted'
BY DEF Counted, Counts, counts

LEMMA CountsMore ==
  ASSUME NEW n, NEW S, Counts(n, S), NEW x, x \notin S
  PROVE  Counts(n + 1, S \union {x})
BY FS_AddElement DEF Counts

LEMMA CountsLess ==
  ASSUME NEW n, NEW S, Counts(n, S), NEW x, x \in S
  PROVE  Counts(n - 1, S \ {x})
BY FS_RemoveElement DEF Counts

(* A session with a server's pid has a sid of its descriptor. *)
LEMMA ServerSid ==
  ASSUME Inv, Known, NEW fd \in Fd, vSess[fd].pid \in Map
  PROVE  /\ vSess[fd].sid # None /\ FdOf(vSess[fd].sid) = fd
         /\ ~Closing(fd) => vSess[fd].mode = "SRV"
<1>1. vSess[fd].pid # None
  BY GateAssumption
<1>2. vSess[fd].sid # None /\ Meant(vSess[fd].sid, vSess[fd].pid)
  BY <1>1 DEF Known, Places, SessOK
<1>3. FdOf(vSess[fd].sid) = fd
  BY <1>2 DEF Inv, OwnSid
<1>4. ~Closing(fd) => vSess[fd].mode = KindOfPid(vSess[fd].pid)
  BY <1>2, <1>3 DEF Meant, Live, get_sess
<1>. QED
  BY <1>2, <1>3, <1>4, Kinds

-----------------------------------------------------------------------------
(* A worker's turn, except the one that signs a server in. *)

LEMMA TurnCounts ==
  ASSUME Inv, Inv', Known, Ready, Counted, NEW fd \in Fd, TurnOf(fd), UNCHANGED counts,
         NEW S, NEW msgs \in Seq(S), out' = [out EXCEPT ![fd] = @ \o msgs],
         \A b \in Items(msgs) : /\ b.cmd \notin NewCmds /\ b.cmd # "SIGNIN_SRV"
                                /\ b.cmd = "SIGNOUT" => b.sid = vSess[fd].sid,
         vSess'[fd].pid = vSess[fd].pid,
         sent'[fd] = sent[fd] \/ (sent[fd] # << >> /\ sent'[fd] = Tail(sent[fd]))
  PROVE  Ready' /\ Counted'
<1>0. /\ UNCHANGED <<exq, xpc, wq, vPid2Sid, certified>>
      /\ \A f \in Fd \ {fd} : vSess'[f] = vSess[f] /\ sent'[f] = sent[f]
      /\ vSess'[fd].sid = vSess[fd].sid /\ vSess'[fd].mode = vSess[fd].mode /\ fd \in polled
  BY DEF TurnOf
<1>1. Items(out'[fd]) = Items(out[fd]) \union Items(msgs) /\ \A f \in Fd \ {fd} : out'[f] = out[f]
  BY EmitItems DEF Inv
<1>2. \A f \in Fd : Closing(f)' <=> Closing(f)
  BY <1>0 DEF Closing, Head_is
<1>3. ~Closing(fd) /\ FdOf(vSess[fd].sid) = fd
  BY <1>0, PolledSess DEF Known
<1>4. NoTool'
  BY <1>0 DEF Ready, NoTool
<1>5. Ordered(out'[fd])
  <2>. DEFINE T == Commands \union S
  <2>1. out[fd] \in Seq(Commands) /\ out'[fd] = out[fd] \o msgs
    BY DEF Inv, TypeOK
  <2>2. out[fd] \in Seq(T) /\ msgs \in Seq(T)
    BY <2>1, SeqMonotonic
  <2>. HIDE DEF T
  <2>3. Ordered(msgs) /\ Ordered(out[fd])
    BY OrderedNone DEF Ready, InTurn
  <2>4. \A a \in Items(out[fd]), b \in Items(msgs) : ~Spoils(a, b)
    BY DEF Spoils
  <2>. QED
    BY <2>1, <2>2, <2>3, <2>4, OrderedConcat
<1>6. InTurn'
  BY <1>0, <1>1, <1>3, <1>5 DEF Ready, InTurn, Spoils, Signs
<1>7. SigninsOK'
  <2>1. ServersStay
    BY <1>0 DEF ServersStay
  <2>2. \A b \in Items(msgs) : SigninOK(b)'
    BY DEF SigninOK
  <2>. QED
    BY <1>0, <1>1, <2>1, <2>2, SigninsKept DEF Ready
<1>8. ASSUME NEW f \in Fd PROVE MapOnce(f)'
  <2>1. MapOnce(f)
    BY DEF Ready
  <2>2. OnlyFirst(sent'[f]) /\ (SaysMap(f)' => SaysMap(f))
    <3>1. CASE sent'[f] = sent[f]
      BY <2>1, <3>1 DEF MapOnce, SaysMap
    <3>2. CASE f = fd /\ sent[fd] # << >> /\ sent'[fd] = Tail(sent[fd])
      <4>1. sent[fd] \in Seq(Said) /\ sent'[fd] \in Seq(Said)
        BY DEF Inv, TypeOK
      <4>2. OnlyFirst(sent'[fd]) /\ \A r \in Items(sent'[fd]) : r.type # "SET_MAP_ID"
        BY <2>1, <3>2, <4>1, FirstRead DEF MapOnce
      <4>3. ~SaysMap(fd)'
        BY <4>1, <4>2, HeadIsItem DEF SaysMap
      <4>. QED
        BY <3>2, <4>2, <4>3
    <3>. QED
      BY <1>0, <3>1, <3>2
  <2>3. \A b \in Items(out'[f]) \union Items(exq') \union Items(wq'[f]) :
          b.cmd = "INCOME" => b \in Items(out[f]) \union Items(exq) \union Items(wq[f])
    BY <1>0, <1>1 DEF NewCmds
  <2>4. vSess'[f].pid = vSess[f].pid /\ vSess'[f].sid = vSess[f].sid
        /\ vSess'[f].mode = vSess[f].mode
    BY <1>0
  <2>. QED
    BY <1>2, <2>1, <2>2, <2>3, <2>4, MapOnceKept
<1>9. ServersOn' = ServersOn
  <2>1. ASSUME NEW f \in Fd PROVE Signing(f)' <=> Signing(f)
    <3>1. vSess'[f].sid = vSess[f].sid
      BY <1>0
    <3>. QED
      BY <1>0, <1>1, <3>1 DEF Signing
  <2>2. \A f \in Fd : vSess'[f].pid = vSess[f].pid
    BY <1>0
  <2>. QED
    BY <1>2, <2>1, <2>2 DEF ServersOn
<1>10. Announced' = Announced
  <2>1. \A f \in Fd : vSess'[f].sid = vSess[f].sid
    BY <1>0
  <2>. QED
    BY <1>0, <2>1 DEF Announced
<1>11. PlayersOn' = PlayersOn
  BY <1>0 DEF PlayersOn
<1>. QED
  BY <1>4, <1>6, <1>7, <1>8, <1>9, <1>10, <1>11, CountedKept DEF Ready

(* One that says b and writes no pid, *)
LEMMA SpeakCounts ==
  ASSUME Inv, Inv', Known, Ready, Counted, NEW fd \in Fd, NEW mode, Turn(fd, mode),
         polled' = polled, \A f \in Fd \ {fd} : vSess'[f] = vSess[f],
         vSess'[fd].sid = vSess[fd].sid, vSess'[fd].mode = vSess[fd].mode,
         vSess'[fd].pid = vSess[fd].pid,
         sent' = sent \/ (sent[fd] # << >> /\ sent' = [sent EXCEPT ![fd] = Tail(@)]),
         NEW b, Emit(fd, <<b>>), b.cmd \notin NewCmds \union Signs
  PROVE  Ready' /\ Counted'
<1>. DEFINE msgs == <<b>>
<1>1. TurnOf(fd)
  BY TurnIs
<1>2. msgs \in Seq({b}) /\ Items(msgs) = {b} /\ out' = [out EXCEPT ![fd] = @ \o msgs]
  BY ItemsOfOne DEF Emit
<1>. HIDE DEF msgs
<1>3. \A c \in Items(msgs) : /\ c.cmd \notin NewCmds /\ c.cmd # "SIGNIN_SRV"
                             /\ c.cmd = "SIGNOUT" => c.sid = vSess[fd].sid
  BY <1>2 DEF Signs
<1>4. sent'[fd] = sent[fd] \/ (sent[fd] # << >> /\ sent'[fd] = Tail(sent[fd]))
  BY DEF Inv, TypeOK
<1>5. UNCHANGED counts
  BY DEF Turn
<1>. QED
  BY <1>1, <1>2, <1>3, <1>4, <1>5, TurnCounts

(* one that says nothing, *)
LEMMA QuietCounts ==
  ASSUME Inv, Inv', Known, Ready, Counted, NEW fd \in Fd, TurnOf(fd), UNCHANGED counts,
         out' = out, vSess'[fd].pid = vSess[fd].pid,
         sent'[fd] = sent[fd] \/ (sent[fd] # << >> /\ sent'[fd] = Tail(sent[fd]))
  PROVE  Ready' /\ Counted'
<1>. DEFINE msgs == << >>
<1>1. msgs \in Seq(Commands) /\ Items(msgs) = {}
  BY ItemsOfOne
<1>2. out \in [Fd -> Seq(Commands)] /\ out[fd] \in Seq(Commands)
  BY DEF Inv, TypeOK
<1>3. out' = [out EXCEPT ![fd] = @ \o msgs]
  BY <1>2, ConcatEmptySeq
<1>. HIDE DEF msgs
<1>. QED
  BY <1>1, <1>3, TurnCounts

(* and one that ends the session. *)
LEMMA BreakCounts ==
  ASSUME Inv, Inv', Known, Ready, Counted, NEW fd \in Fd, NEW mode, Turn(fd, mode),
         break_sess(fd), sent' = sent
  PROVE  Ready' /\ Counted'
<1>. DEFINE s == vSess[fd]
            close == Packet(s.map, "MSG_CLOSE", s.pid)
            quit == Signout(s.sid)
            first == <<quit>>
            news == IF s.mode = "CLI" /\ s.pid # None THEN <<close>> ELSE << >>
            S == {quit, close}
            msgs == first \o news
<1>1. /\ out' = [out EXCEPT ![fd] = @ \o msgs]
      /\ polled' = polled \ {fd}
      /\ vSess' = [vSess EXCEPT ![fd].state = "BREAK"]
  BY DEF break_sess, Emit
<1>2. /\ vSess'[fd].sid = s.sid /\ vSess'[fd].pid = s.pid /\ vSess'[fd].mode = s.mode
      /\ \A f \in Fd \ {fd} : vSess'[f] = vSess[f]
  BY <1>1 DEF Inv, TypeOK, Sess
<1>3. TurnOf(fd) /\ UNCHANGED counts
  BY <1>1, <1>2, TurnIs DEF Turn
<1>4. close.cmd = "PACKET" /\ quit.cmd = "SIGNOUT" /\ quit.sid = s.sid
  BY DEF Packet, Signout
<1>5. Items(first) = {quit} /\ Items(news) \subseteq {close}
  BY ItemsOfOne
<1>. HIDE DEF close, quit
<1>6. first \in Seq(S) /\ news \in Seq(S)
  <2>1. <<close>> \in Seq(S) /\ <<quit>> \in Seq(S) /\ << >> \in Seq(S)
    OBVIOUS
  <2>. QED
    BY <2>1
<1>. HIDE DEF first, news, S
<1>7. msgs \in Seq(S) /\ Items(msgs) \subseteq {quit, close}
  BY <1>5, <1>6, ItemsConcat, ConcatProperties
<1>. HIDE DEF msgs
<1>8. \A b \in Items(msgs) : /\ b.cmd \notin NewCmds /\ b.cmd # "SIGNIN_SRV"
                             /\ b.cmd = "SIGNOUT" => b.sid = s.sid
  BY <1>4, <1>7 DEF NewCmds
<1>. HIDE DEF s
<1>. QED
  BY <1>1, <1>2, <1>3, <1>7, <1>8, TurnCounts DEF s

LEMMA ClientTurnCounts ==
  ASSUME Inv, Inv', Known, Ready, Counted, NEW fd \in Fd, NEW m,
         FirstPacket(fd, m) \/ ClientPacket(fd)
  PROVE  Ready' /\ Counted'
<1>. DEFINE s == vSess[fd]
<1>1. Turn(fd, "CLI") /\ sent' = sent
  BY DEF FirstPacket, ClientPacket
<1>2. CASE break_sess(fd)
  BY <1>1, <1>2, BreakCounts
<1>3. CASE FirstPacket(fd, m) /\ ~break_sess(fd)
  <2>. DEFINE b == Packet(m, "FIRST_PACKET2", <<s.sid, conn[fd]>>)
  <2>1. /\ vSess' = [vSess EXCEPT ![fd].state = "LOGIN"] /\ polled' = polled
        /\ Emit(fd, <<b>>)
    BY <1>3 DEF FirstPacket
  <2>2. /\ vSess'[fd].sid = s.sid /\ vSess'[fd].pid = s.pid /\ vSess'[fd].mode = s.mode
        /\ \A f \in Fd \ {fd} : vSess'[f] = vSess[f]
    BY <2>1 DEF Inv, TypeOK, Sess
  <2>3. b.cmd \notin NewCmds \union Signs
    BY DEF Packet, NewCmds, Signs
  <2>. HIDE DEF b
  <2>. QED
    BY <1>1, <2>1, <2>2, <2>3, SpeakCounts
<1>4. CASE ClientPacket(fd) /\ ~break_sess(fd)
  <2>. DEFINE b == Packet(s.map, "REQUEST", s.pid)
  <2>1. Emit(fd, <<b>>) /\ vSess' = vSess /\ polled' = polled
    BY <1>4 DEF ClientPacket
  <2>2. b.cmd \notin NewCmds \union Signs
    BY DEF Packet, NewCmds, Signs
  <2>. HIDE DEF b
  <2>. QED
    BY <1>1, <2>1, <2>2, SpeakCounts
<1>. QED
  BY <1>2, <1>3, <1>4

LEMMA ToPlayersCounts ==
  ASSUME Inv, Inv', Known, Ready, Counted, NEW fd \in Fd, NEW n \in Nat,
         NEW to \in [1..n -> Player], ClientToPlayers(fd, to)
  PROVE  Ready' /\ Counted'
<1>. DEFINE pid == vSess[fd].pid
            S == {Packet(p, "P2P", pid) : p \in Player}
            msgs == [i \in DOMAIN to |-> Packet(to[i], "P2P", pid)]
<1>1. /\ Turn(fd, "CLI") /\ sent' = sent /\ vSess' = vSess /\ polled' = polled
      /\ out' = [out EXCEPT ![fd] = @ \o msgs]
  BY DEF ClientToPlayers, Emit
<1>2. msgs \in [1..n -> S]
  OBVIOUS
<1>3. msgs \in Seq(S) /\ Items(msgs) \subseteq S
  BY <1>2 DEF Items
<1>4. \A b \in S : b.cmd = "PACKET"
  BY DEF Packet
<1>5. TurnOf(fd) /\ UNCHANGED counts
  BY <1>1, TurnIs DEF Turn
<1>. HIDE DEF msgs, S
<1>6. \A b \in Items(msgs) : /\ b.cmd \notin NewCmds /\ b.cmd # "SIGNIN_SRV"
                             /\ b.cmd = "SIGNOUT" => b.sid = vSess[fd].sid
  BY <1>3, <1>4 DEF NewCmds
<1>. QED
  BY <1>1, <1>3, <1>5, <1>6, TurnCounts

LEMMA GoneCounts ==
  ASSUME Inv, Inv', Known, Ready, Counted, NEW fd \in Fd,
         ClientBreak(fd) \/ SrvGone(fd) \/ \E eof \in BOOLEAN : ToolBreak(fd, eof)
  PROVE  Ready' /\ Counted'
<1>1. break_sess(fd) /\ sent' = sent /\ \E mode : Turn(fd, mode)
  BY DEF ClientBreak, SrvGone, ToolBreak
<1>. QED
  BY <1>1, BreakCounts

LEMMA ServerTurnCounts ==
  ASSUME Inv, Inv', Known, Ready, Counted, NEW fd \in Fd,
         \/ SetSrvId(fd) \/ ServerPacket(fd) \/ ServerToAll(fd) \/ ServerToMany(fd)
         \/ AskTool(fd) \/ ServerToSock(fd) \/ ToolPacket(fd) \/ Shake(fd)
  PROVE  Ready' /\ Counted'
<1>. DEFINE r == Head(sent[fd])
            s == vSess[fd]
<1>1. ASSUME NEW b, Emit(fd, <<b>>), b.cmd \notin NewCmds \union Signs, vSess' = vSess,
             (\E type : Reads(fd, type)) \/ ToolPacket(fd)
      PROVE  Ready' /\ Counted'
  <2>1. PICK mode : Turn(fd, mode)
    BY <1>1 DEF Reads, ToolPacket
  <2>2. /\ polled' = polled
        /\ sent[fd] # << >> /\ sent' = [sent EXCEPT ![fd] = Tail(@)]
    BY <1>1 DEF Reads, ToolPacket
  <2>. QED
    BY <1>1, <2>1, <2>2, SpeakCounts
<1>2. CASE SetSrvId(fd)
  <2>. DEFINE b == SigninCli(r.sid, r.pid, r.map)
  <2>1. Emit(fd, <<b>>) /\ b.cmd \notin NewCmds \union Signs
    BY <1>2 DEF SetSrvId, SigninCli, NewCmds, Signs
  <2>. QED
    BY <1>1, <1>2, <2>1 DEF SetSrvId
<1>3. CASE ServerPacket(fd)
  <2>. DEFINE b == Packet(r.to, r.what, r.arg)
  <2>1. Emit(fd, <<b>>) /\ b.cmd \notin NewCmds \union Signs
    BY <1>3 DEF ServerPacket, Packet, NewCmds, Signs
  <2>. QED
    BY <1>1, <1>3, <2>1 DEF ServerPacket
<1>4. CASE ServerToAll(fd)
  <2>. DEFINE b == SendAll(s.map)
  <2>1. Emit(fd, <<b>>) /\ b.cmd \notin NewCmds \union Signs
    BY <1>4 DEF ServerToAll, SendAll, NewCmds, Signs
  <2>. QED
    BY <1>1, <1>4, <2>1 DEF ServerToAll
<1>5. CASE ServerToMany(fd)
  <2>. DEFINE b == SendMul(r.pids)
  <2>1. Emit(fd, <<b>>) /\ b.cmd \notin NewCmds \union Signs
    BY <1>5 DEF ServerToMany, SendMul, NewCmds, Signs
  <2>. QED
    BY <1>1, <1>5, <2>1 DEF ServerToMany
<1>6. CASE AskTool(fd)
  <2>. DEFINE b == Packet(PidTool, "QRY_TOOL", s.map)
  <2>1. Emit(fd, <<b>>) /\ b.cmd \notin NewCmds \union Signs
    BY <1>6 DEF AskTool, Packet, NewCmds, Signs
  <2>. QED
    BY <1>1, <1>6, <2>1 DEF AskTool
<1>7. CASE ToolPacket(fd)
  <2>. DEFINE b == Packet(r.to, "ACK_TOOL", None)
  <2>1. Emit(fd, <<b>>) /\ b.cmd \notin NewCmds \union Signs /\ vSess' = vSess
    BY <1>7 DEF ToolPacket, Packet, NewCmds, Signs
  <2>. QED
    BY <1>1, <1>7, <2>1
<1>8. CASE ServerToSock(fd)
  <2>1. /\ Reads(fd, "TO_SCK") /\ vSess' = vSess /\ out' = out
        /\ Turn(fd, "SRV") /\ polled' = polled
        /\ sent[fd] # << >> /\ sent' = [sent EXCEPT ![fd] = Tail(@)]
    BY <1>8 DEF ServerToSock, Reads
  <2>2. TurnOf(fd) /\ UNCHANGED counts
    BY <2>1, TurnIs DEF Turn
  <2>3. sent'[fd] = Tail(sent[fd])
    BY <2>1 DEF Inv, TypeOK
  <2>. QED
    BY <2>1, <2>2, <2>3, QuietCounts
<1>9. CASE Shake(fd)
  <2>1. /\ fd \in polled /\ polled' = polled /\ sent' = sent /\ out' = out
        /\ UNCHANGED <<made, sn, open, exq, xpc, wq, vPid2Sid, gPlys, conn, certified>>
        /\ vSess' = [vSess EXCEPT ![fd].state = "NEW"] /\ UNCHANGED counts
    BY <1>9 DEF Shake, worker, servers, history
  <2>2. /\ vSess'[fd].sid = s.sid /\ vSess'[fd].pid = s.pid /\ vSess'[fd].mode = s.mode
        /\ \A f \in Fd \ {fd} : vSess'[f] = vSess[f]
    BY <2>1 DEF Inv, TypeOK, Sess
  <2>3. TurnOf(fd)
    BY <2>1, <2>2 DEF TurnOf
  <2>. QED
    BY <2>1, <2>2, <2>3, QuietCounts
<1>. QED
  BY <1>2, <1>3, <1>4, <1>5, <1>6, <1>7, <1>8, <1>9

(* A map server says which map it is: its session has no pid yet, and no   *)
(* signin or signout of it is on its way.                                  *)
LEMMA SetMapIdCounts ==
  ASSUME Inv, Inv', Known, Ready, Counted, NEW fd \in Fd, SetMapId(fd)
  PROVE  Ready' /\ Counted'
<1>. SUFFICES ASSUME NEW sid, sid = vSess[fd].sid, NEW m, m = Head(sent[fd]).map,
                     NEW b, b = SigninSrv(sid, m), NEW msgs, msgs = <<b>>
              PROVE  Ready' /\ Counted'
  OBVIOUS
<1>1. /\ Turn(fd, "SRV") /\ polled' = polled /\ SaysMap(fd) /\ UNCHANGED counts
      /\ sent[fd] # << >> /\ sent' = [sent EXCEPT ![fd] = Tail(@)]
      /\ vSess' = [vSess EXCEPT ![fd].map = m, ![fd].pid = m, ![fd].state = "ON"]
      /\ out' = [out EXCEPT ![fd] = @ \o msgs] /\ out[fd] = << >>
  BY DEF SetMapId, Emit, Reads, Turn, SaysMap
<1>2. /\ vSess'[fd].sid = sid /\ vSess'[fd].pid = m /\ vSess'[fd].mode = vSess[fd].mode
      /\ \A f \in Fd \ {fd} : vSess'[f] = vSess[f]
  BY <1>1 DEF Inv, TypeOK, Sess
<1>3. TurnOf(fd) /\ fd \in polled
  BY <1>1, <1>2, TurnIs DEF Turn
<1>4. /\ UNCHANGED <<exq, xpc, wq, vPid2Sid, certified>>
      /\ \A f \in Fd \ {fd} : sent'[f] = sent[f]
      /\ \A f \in Fd : Closing(f)' <=> Closing(f)
  BY <1>3 DEF TurnOf, Closing, Head_is
<1>5. ~Closing(fd) /\ sid # None /\ FdOf(sid) = fd /\ get_sess(sid)
  BY <1>3, PolledSess DEF get_sess
<1>6. sent[fd] \in Seq(Said) /\ sent'[fd] = Tail(sent[fd]) /\ sent'[fd] \in Seq(Said)
  BY <1>1 DEF Inv, TypeOK
<1>7. Head(sent[fd]) \in Said /\ Head(sent[fd]).type = "SET_MAP_ID"
  BY <1>1, <1>6, HeadIsItem, ItemsIn DEF SaysMap
<1>8. m \in Map
  BY <1>7, SaidFields
<1>9. vSess[fd].pid = None /\ None \notin Map
  BY <1>1, <1>5, GateAssumption DEF Ready, MapOnce
<1>10. /\ msgs \in Seq({b}) /\ Items(msgs) = {b} /\ Items(out[fd]) = {}
       /\ b.cmd = "SIGNIN_SRV" /\ b.sid = sid /\ b.pid = m /\ Ordered(msgs)
  BY <1>1, ItemsOfOne, OrderedOne DEF SigninSrv
<1>11. /\ Items(out'[fd]) = {b} /\ \A f \in Fd \ {fd} : out'[f] = out[f]
  BY <1>1, <1>10, EmitItems DEF Inv
<1>12. Ordered(out'[fd])
  <2>. DEFINE T == Commands \union {b}
  <2>1. out[fd] \in Seq(Commands) /\ out'[fd] = out[fd] \o msgs
    BY <1>1 DEF Inv, TypeOK
  <2>2. out[fd] \in Seq(T) /\ msgs \in Seq(T)
    BY <2>1, <1>10, SeqMonotonic
  <2>. HIDE DEF T
  <2>. QED
    BY <1>10, <2>1, <2>2, OrderedNone, OrderedConcat
<1>13. InTurn'
  <2>1. ASSUME NEW a \in Items(exq), Spoils(a, b) PROVE FALSE
    <3>1. a.sid = sid /\ a.cmd \in Signs
      BY <1>10, <2>1 DEF Spoils
    <3>2. CASE a.cmd = "SIGNOUT"
      BY <1>3, <1>5, <2>1, <3>1, <3>2 DEF Inv, Signouts, LetGo
    <3>3. CASE a.cmd = "SIGNIN_SRV"
      BY <1>5, <1>9, <2>1, <3>1, <3>3 DEF Ready, SigninsOK, SigninOK
    <3>. QED
      BY <3>1, <3>2, <3>3 DEF Signs
  <2>. QED
    BY <1>4, <1>5, <1>10, <1>11, <1>12, <2>1 DEF Ready, InTurn
<1>14. NoTool'
  BY <1>4 DEF Ready, NoTool
<1>15. SigninsOK'
  <2>1. ServersStay
    BY <1>2, <1>9 DEF ServersStay
  <2>2. SigninOK(b)'
    BY <1>2, <1>5, <1>8, <1>10 DEF SigninOK
  <2>. QED
    BY <1>4, <1>11, <2>1, <2>2, SigninsKept DEF Ready
<1>16. ASSUME NEW f \in Fd PROVE MapOnce(f)'
  <2>1. CASE f = fd
    <3>1. OnlyFirst(sent'[fd]) /\ \A r \in Items(sent'[fd]) : r.type # "SET_MAP_ID"
      BY <1>1, <1>6, FirstRead DEF Ready, MapOnce
    <3>2. ~SaysMap(fd)'
      BY <1>6, <3>1, HeadIsItem DEF SaysMap
    <3>. QED
      BY <2>1, <3>1, <3>2 DEF MapOnce
  <2>2. CASE f # fd
    <3>1. MapOnce(f) /\ OnlyFirst(sent'[f]) /\ (SaysMap(f)' => SaysMap(f))
      BY <1>4, <2>2 DEF Ready, MapOnce, SaysMap
    <3>2. vSess'[f] = vSess[f] /\ (Closing(f)' <=> Closing(f))
      BY <1>2, <1>4, <2>2
    <3>3. \A c \in Items(out'[f]) \union Items(exq') \union Items(wq'[f]) :
            c \in Items(out[f]) \union Items(exq) \union Items(wq[f])
      BY <1>4, <1>11, <2>2
    <3>. QED
      BY <3>1, <3>2, <3>3, MapOnceKept
  <2>. QED
    BY <2>1, <2>2
<1>17. ServersOn' = ServersOn
  <2>1. Signing(fd)'
    BY <1>2, <1>10, <1>11 DEF Signing
  <2>2. ASSUME NEW f \in Fd \ {fd} PROVE Signing(f)' <=> Signing(f)
    <3>1. vSess'[f].sid = vSess[f].sid
      BY <1>2
    <3>. QED
      BY <1>4, <1>11, <3>1 DEF Signing
  <2>3. \A f \in Fd \ {fd} : vSess'[f].pid = vSess[f].pid
    BY <1>2
  <2>. QED
    BY <1>4, <1>9, <2>1, <2>2, <2>3 DEF ServersOn
<1>18. Announced' = Announced
  <2>1. \A f \in Fd : vSess'[f].sid = vSess[f].sid
    BY <1>2
  <2>. QED
    BY <1>4, <2>1 DEF Announced
<1>19. PlayersOn' = PlayersOn
  BY <1>4 DEF PlayersOn
<1>. QED
  BY <1>1, <1>13, <1>14, <1>15, <1>16, <1>17, <1>18, <1>19, CountedKept DEF Ready

-----------------------------------------------------------------------------
(* Connections. *)

(* A turn's commands come after what its worker has written before; those  *)
(* of other workers are about other sessions.                              *)
LEMMA FlushCounts ==
  ASSUME Inv, Inv', Known, Ready, Counted, NEW fd \in Fd, Flush(fd)
  PROVE  Ready' /\ Counted'
<1>1. /\ UNCHANGED <<vSess, xpc, wq, vPid2Sid, sent, certified>> /\ UNCHANGED counts
      /\ exq' = exq \o out[fd] /\ out' = [out EXCEPT ![fd] = << >>]
  BY DEF Flush, servers, history
<1>2. /\ exq \in Seq(Commands) /\ out[fd] \in Seq(Commands)
      /\ out'[fd] = << >> /\ \A f \in Fd \ {fd} : out'[f] = out[f]
  BY <1>1 DEF Inv, TypeOK
<1>3. Items(exq') = Items(exq) \union Items(out[fd]) /\ Items(out'[fd]) = {}
  BY <1>1, <1>2, ItemsConcat, ItemsOfOne
<1>4. /\ \A f \in Fd : Closing(f)' <=> Closing(f)
      /\ xpc \in {"assign", "on"} => Head(exq') = Head(exq)
  BY <1>1, <1>2, HeadKept DEF Known
<1>5. NoTool'
  BY <1>1 DEF Ready, NoTool
<1>6. InTurn'
  <2>1. Ordered(exq')
    BY <1>1, <1>2, OrderedConcat DEF Ready, InTurn
  <2>2. Ordered(out'[fd])
    BY <1>3, OrderedNone
  <2>3. ASSUME NEW f \in Fd \ {fd}, NEW a \in Items(out[fd]), NEW b \in Items(out[f]), Spoils(a, b)
        PROVE  FALSE
    BY <2>3 DEF Spoils, Signs, Ready, InTurn
  <2>4. \A f \in Fd : /\ \A a \in Items(exq'), b \in Items(out'[f]) : ~Spoils(a, b)
                      /\ \A b \in Items(out'[f]) : b.cmd \in Signs => FdOf(b.sid) = f
    BY <1>2, <1>3, <2>3 DEF Ready, InTurn
  <2>. QED
    BY <1>2, <2>1, <2>2, <2>4 DEF Ready, InTurn
<1>7. SigninsOK'
  <2>1. ServersStay
    BY <1>1 DEF ServersStay
  <2>. QED
    BY <1>2, <1>3, <2>1, SigninsKept DEF Ready
<1>8. ASSUME NEW f \in Fd PROVE MapOnce(f)'
  <2>1. MapOnce(f) /\ OnlyFirst(sent'[f]) /\ (SaysMap(f)' => SaysMap(f))
    BY <1>1 DEF Ready, MapOnce, SaysMap
  <2>2. vSess'[f] = vSess[f] /\ (Closing(f)' <=> Closing(f))
    BY <1>1, <1>4
  <2>3. \A c \in Items(out'[f]) \union Items(exq') \union Items(wq'[f]) :
          c.cmd = "INCOME" /\ c.fd = f => c \in Items(out[f]) \union Items(exq) \union Items(wq[f])
    BY <1>1, <1>2, <1>3 DEF Inv, OwnQueue, NewCmds
  <2>. QED
    BY <2>1, <2>2, <2>3, MapOnceKept
<1>9. ServersOn' = ServersOn
  <2>1. ASSUME NEW f \in Fd, vSess[f].pid \in Map PROVE Signing(f)' <=> Signing(f)
    <3>1. FdOf(vSess[f].sid) = f /\ vSess'[f].sid = vSess[f].sid
      BY <1>1, <2>1, ServerSid
    <3>2. ASSUME NEW b \in Items(out[fd]), b.cmd = "SIGNIN_SRV", b.sid = vSess[f].sid
          PROVE  f = fd
      BY <3>1, <3>2 DEF Ready, InTurn, Signs
    <3>. QED
      BY <1>2, <1>3, <3>1, <3>2 DEF Signing
  <2>2. \A f \in Fd : vSess'[f].pid = vSess[f].pid
    BY <1>1
  <2>. QED
    BY <1>4, <2>1, <2>2 DEF ServersOn
<1>10. Announced' = Announced
  BY <1>1 DEF Announced
<1>11. PlayersOn' = PlayersOn
  BY <1>1, <1>4 DEF PlayersOn
<1>. QED
  BY <1>1, <1>5, <1>6, <1>7, <1>8, <1>9, <1>10, <1>11, CountedKept DEF Ready

LEMMA AcceptCounts ==
  ASSUME Inv, Inv', Known, Ready, Counted, NEW fd \in Fd, NEW mode \in {"CLI", "SRV"},
         NEW m \in Map, Accept(fd, mode, m)
  PROVE  Ready' /\ Counted'
<1>. SUFFICES ASSUME NEW b, b = Income(fd, mode), NEW msgs, msgs = <<b>>,
                     NEW id, id = [type |-> "SET_MAP_ID", map |-> m]
              PROVE  Ready' /\ Counted'
  OBVIOUS
<1>1. /\ UNCHANGED <<sn, vSess, exq, xpc, wq, vPid2Sid>> /\ UNCHANGED counts
      /\ fd \notin open
      /\ out' = [out EXCEPT ![fd] = @ \o msgs]
  BY DEF Accept, Emit
<1>2. /\ mode = "SRV" => sent' = [sent EXCEPT ![fd] = <<id>>]
      /\ mode = "CLI" => sent' = [sent EXCEPT ![fd] = << >>]
      /\ certified' = IF mode = "SRV" THEN certified \union {<<made + 1, m>>} ELSE certified
  BY DEF Accept
<1>3. b.cmd = "INCOME" /\ b.fd = fd /\ b.mode = mode
  BY DEF Income
<1>4. msgs \in Seq({b}) /\ Items(msgs) = {b} /\ Ordered(msgs)
  BY ItemsOfOne, OrderedOne
<1>5. OnlyFirst(<<id>>) /\ OnlyFirst(<< >>)
  BY DEF OnlyFirst
<1>6. /\ Items(out'[fd]) = Items(out[fd]) \union {b} /\ \A f \in Fd \ {fd} : out'[f] = out[f]
  BY <1>1, <1>4, EmitItems DEF Inv
<1>7. /\ \A f \in Fd \ {fd} : sent'[f] = sent[f]
      /\ mode = "SRV" => sent'[fd] = <<id>>
      /\ mode = "CLI" => sent'[fd] = << >>
  BY <1>1, <1>2 DEF Inv, TypeOK
<1>8. \A f \in Fd : Closing(f)' <=> Closing(f)
  BY <1>1 DEF Closing, Head_is
<1>9. NoTool'
  BY <1>2, GateAssumption DEF Ready, NoTool
<1>10. InTurn'
  <2>. DEFINE T == Commands \union {b}
  <2>1. out[fd] \in Seq(Commands) /\ out'[fd] = out[fd] \o msgs
    BY <1>1 DEF Inv, TypeOK
  <2>2. out[fd] \in Seq(T) /\ msgs \in Seq(T)
    BY <2>1, <1>4, SeqMonotonic
  <2>. HIDE DEF T
  <2>3. \A a : ~Spoils(a, b)
    BY <1>3 DEF Spoils
  <2>4. Ordered(out'[fd])
    <3>1. Ordered(out[fd]) /\ \A a \in Items(out[fd]), c \in Items(msgs) : ~Spoils(a, c)
      BY <1>4, <2>3 DEF Ready, InTurn
    <3>. QED
      BY <1>4, <2>1, <2>2, <3>1, OrderedConcat
  <2>. QED
    BY <1>1, <1>3, <1>6, <2>3, <2>4 DEF Ready, InTurn, Signs
<1>11. SigninsOK'
  <2>1. ServersStay
    BY <1>1 DEF ServersStay
  <2>2. SigninOK(b)'
    BY <1>3 DEF SigninOK
  <2>. QED
    BY <1>1, <1>6, <2>1, <2>2, SigninsKept DEF Ready
<1>12. ASSUME NEW f \in Fd PROVE MapOnce(f)'
  <2>1. CASE f # fd
    <3>1. MapOnce(f) /\ OnlyFirst(sent'[f]) /\ (SaysMap(f)' => SaysMap(f))
      BY <1>7, <2>1 DEF Ready, MapOnce, SaysMap
    <3>2. vSess'[f] = vSess[f] /\ (Closing(f)' <=> Closing(f))
      BY <1>1, <1>8
    <3>3. \A c \in Items(out'[f]) \union Items(exq') \union Items(wq'[f]) :
            c \in Items(out[f]) \union Items(exq) \union Items(wq[f])
      BY <1>1, <1>6, <2>1
    <3>. QED
      BY <3>1, <3>2, <3>3, MapOnceKept
  <2>2. CASE f = fd
    <3>1. OnlyFirst(sent'[fd])
      BY <1>5, <1>7
    <3>2. SaysMap(fd)' => mode = "SRV"
      BY <1>7 DEF SaysMap
    <3>3. Closing(fd)' \/ (vSess'[fd].pid = None /\ vSess'[fd].sid = None)
      BY <1>1, <1>8 DEF Inv, WaitingWiped, NoSess
    <3>4. \A c \in Items(out[fd]) \union Items(exq) \union Items(wq[fd]) :
            c.cmd = "INCOME" => c.fd # fd
      BY <1>1, ConnectOpen DEF NewCmds
    <3>. QED
      BY <1>1, <1>3, <1>6, <2>2, <3>1, <3>2, <3>3, <3>4 DEF MapOnce
  <2>. QED
    BY <2>1, <2>2
<1>13. ServersOn' = ServersOn
  <2>1. ASSUME NEW f \in Fd PROVE Signing(f)' <=> Signing(f)
    <3>1. vSess'[f].sid = vSess[f].sid
      BY <1>1
    <3>. QED
      BY <1>1, <1>3, <1>6, <3>1 DEF Signing
  <2>2. \A f \in Fd : vSess'[f].pid = vSess[f].pid
    BY <1>1
  <2>. QED
    BY <1>8, <2>1, <2>2 DEF ServersOn
<1>14. Announced' = Announced
  BY <1>1 DEF Announced
<1>15. PlayersOn' = PlayersOn
  BY <1>1 DEF PlayersOn
<1>. QED
  BY <1>1, <1>9, <1>10, <1>11, <1>12, <1>13, <1>14, <1>15, CountedKept DEF Ready

(* The session begins with the sid that do_cmd makes. *)
LEMMA DoIncomeCounts ==
  ASSUME Inv, Inv', Known, Ready, Counted, NEW fd \in Fd, DoIncome(fd)
  PROVE  Ready' /\ Counted'
<1>. SUFFICES ASSUME NEW h, h = Head(wq[fd]) PROVE Ready' /\ Counted'
  OBVIOUS
<1>1. /\ UNCHANGED <<out, exq, xpc, vPid2Sid, sent, certified>> /\ UNCHANGED counts
      /\ sn' = sn + 1
      /\ wq[fd] # << >> /\ h.cmd = "INCOME" /\ wq' = [wq EXCEPT ![fd] = Tail(@)]
  BY DEF DoIncome, NextIs, Took, servers, history
<1>2. /\ wq'[fd] = Tail(wq[fd]) /\ \A f \in Fd \ {fd} : wq'[f] = wq[f]
      /\ h \in Items(wq[fd]) /\ Items(wq'[fd]) \subseteq Items(wq[fd])
      /\ IsNew(h, fd) => ~Holds(wq'[fd], fd)
  <2>. DEFINE Q == RoutedPackets \union NewConns
  <2>1. wq[fd] \in Seq(Q) /\ wq'[fd] = Tail(wq[fd]) /\ \A f \in Fd \ {fd} : wq'[f] = wq[f]
    BY <1>1 DEF Inv, TypeOK
  <2>. HIDE DEF Q
  <2>2. Once(wq[fd], fd)
    BY DEF Inv, WaitsOnce
  <2>. QED
    BY <1>1, <2>1, <2>2, HeadIsItem, OnceTail
<1>3. h.fd = fd /\ Holds(wq[fd], fd) /\ ~Holds(wq'[fd], fd)
  BY <1>1, <1>2 DEF Inv, OwnQueue, Holds, IsNew, NewCmds
<1>4. vSess[fd] = NoSess
  BY <1>3 DEF Inv, WaitingWiped
<1>5. /\ vSess'[fd].sid = <<sn + 1, fd>> /\ vSess'[fd].pid = None /\ vSess'[fd].mode = h.mode
      /\ \A f \in Fd \ {fd} : vSess'[f] = vSess[f]
  BY <1>4 DEF DoIncome, Inv, TypeOK, Sess, NoSess
<1>6. /\ \A f \in Fd : Closing(f)' <=> Closing(f)
      /\ <<sn + 1, fd>> # None /\ None \notin Map /\ vSess[fd].pid = None
  <2>0. sn + 1 \in Nat
    BY DEF Inv, TypeOK
  <2>1. <<sn + 1, fd>> \in Nat \X Fd
    BY <2>0
  <2>. QED
    BY <1>1, <1>4, <2>1, GateAssumption DEF Closing, Head_is, NoSess
<1>7. NoTool'
  BY <1>1 DEF Ready, NoTool
<1>8. InTurn'
  BY <1>1 DEF Ready, InTurn
<1>9. SigninsOK'
  <2>1. ServersStay
    BY <1>5 DEF ServersStay
  <2>. QED
    BY <1>1, <2>1, SigninsKept DEF Ready
<1>10. ASSUME NEW f \in Fd PROVE MapOnce(f)'
  <2>0. MapOnce(f) /\ OnlyFirst(sent'[f]) /\ (SaysMap(f)' <=> SaysMap(f))
    BY <1>1 DEF Ready, MapOnce, SaysMap
  <2>1. CASE f # fd
    <3>1. vSess'[f] = vSess[f] /\ (Closing(f)' <=> Closing(f))
      BY <1>5, <1>6, <2>1
    <3>2. \A c \in Items(out'[f]) \union Items(exq') \union Items(wq'[f]) :
            c \in Items(out[f]) \union Items(exq) \union Items(wq[f])
      BY <1>1, <1>2, <2>1
    <3>. QED
      BY <2>0, <3>1, <3>2, MapOnceKept
  <2>2. CASE f = fd
    <3>1. SaysMap(fd) => vSess'[fd].mode = "SRV"
      BY <1>1, <1>2, <1>3, <1>5, <2>0, <2>2 DEF MapOnce
    <3>. QED
      BY <1>1, <1>2, <1>5, <2>0, <2>2, <3>1 DEF MapOnce
  <2>. QED
    BY <2>1, <2>2
<1>11. ServersOn' = ServersOn
  <2>1. ASSUME NEW f \in Fd \ {fd} PROVE Signing(f)' <=> Signing(f)
    <3>1. vSess'[f].sid = vSess[f].sid
      BY <1>5
    <3>. QED
      BY <1>1, <3>1 DEF Signing
  <2>2. \A f \in Fd : vSess'[f].pid = vSess[f].pid
    BY <1>5, <1>6
  <2>. QED
    BY <1>6, <2>1, <2>2 DEF ServersOn
<1>12. Announced' = Announced
  BY <1>2, <1>3, <1>5, <1>6 DEF Announced
<1>13. PlayersOn' = PlayersOn
  BY <1>1 DEF PlayersOn
<1>. QED
  BY <1>1, <1>7, <1>8, <1>9, <1>10, <1>11, <1>12, <1>13, CountedKept DEF Ready

-----------------------------------------------------------------------------
(* Peers and map servers: they take packets and say what is not which map  *)
(* they are.                                                               *)
Takes(f) ==
  \/ wq'[f] = wq[f]
  \/ wq[f] # << >> /\ wq'[f] = Tail(wq[f]) /\ Head(wq[f]).cmd = "PACKET"
Players == \A c \in certified' : c \in certified \/ c[2] \in Player

LEMMA PeerCounts ==
  ASSUME Inv, Inv', Known, Ready, Counted, UNCHANGED <<out, exq, xpc, vSess, vPid2Sid>>,
         UNCHANGED counts, Players, \A f \in Fd : Takes(f),
         \A f \in Fd : OnlyFirst(sent'[f]) /\ (SaysMap(f)' => SaysMap(f))
  PROVE  Ready' /\ Counted'
<1>1. ASSUME NEW f \in Fd
      PROVE  /\ Items(wq'[f]) \subseteq Items(wq[f])
             /\ Holds(wq'[f], f) <=> Holds(wq[f], f)
  <2>. DEFINE Q == RoutedPackets \union NewConns
  <2>1. wq[f] \in Seq(Q)
    BY DEF Inv, TypeOK
  <2>. HIDE DEF Q
  <2>2. wq[f] # << >> => Items(wq[f]) = {Head(wq[f])} \union Items(Tail(wq[f]))
    BY <2>1, ItemsTail
  <2>. QED
    BY <2>2 DEF Takes, Holds, IsNew, NewCmds
<1>2. \A f \in Fd : Closing(f)' <=> Closing(f)
  BY DEF Closing, Head_is
<1>3. NoTool'
  BY GateAssumption DEF Ready, NoTool, Players
<1>4. InTurn'
  BY DEF Ready, InTurn
<1>5. SigninsOK'
  <2>1. ServersStay
    BY DEF ServersStay
  <2>. QED
    BY <2>1, SigninsKept DEF Ready
<1>6. \A f \in Fd : MapOnce(f)'
  BY <1>1, <1>2, MapOnceKept DEF Ready
<1>7. ServersOn' = ServersOn
  BY <1>2 DEF ServersOn, Signing
<1>8. Announced' = Announced
  BY <1>1 DEF Announced
<1>9. PlayersOn' = PlayersOn
  BY DEF PlayersOn
<1>. QED
  BY <1>3, <1>4, <1>5, <1>6, <1>7, <1>8, <1>9, CountedKept DEF Ready

LEMMA SilentCounts ==
  ASSUME Inv, Inv', Known, Ready, Counted, UNCHANGED <<out, exq, xpc, vSess, vPid2Sid>>,
         UNCHANGED counts, Players, \A f \in Fd : Takes(f), sent' = sent
  PROVE  Ready' /\ Counted'
<1>1. \A f \in Fd : OnlyFirst(sent'[f]) /\ (SaysMap(f)' => SaysMap(f))
  BY DEF SaysMap, Ready, MapOnce
<1>. QED
  BY <1>1, PeerCounts

LEMMA SaidCounts ==
  ASSUME Inv, Inv', Known, Ready, Counted, UNCHANGED <<out, exq, xpc, vSess, vPid2Sid>>,
         UNCHANGED counts, Players, \A f \in Fd : Takes(f),
         NEW fd \in Fd, NEW S, NEW msgs \in Seq(S), sent' = [sent EXCEPT ![fd] = @ \o msgs],
         \A r \in Items(msgs) : r.type # "SET_MAP_ID"
  PROVE  Ready' /\ Counted'
<1>. DEFINE T == Said \union S
<1>1. /\ sent[fd] \in Seq(Said) /\ sent'[fd] = sent[fd] \o msgs
      /\ \A f \in Fd \ {fd} : sent'[f] = sent[f]
  BY DEF Inv, TypeOK
<1>2. sent[fd] \in Seq(T) /\ msgs \in Seq(T)
  BY <1>1, SeqMonotonic
<1>. HIDE DEF T
<1>3. \A f \in Fd : OnlyFirst(sent[f])
  BY DEF Ready, MapOnce
<1>4. OnlyFirst(sent'[fd]) /\ (SaysMap(fd)' => SaysMap(fd))
  BY <1>1, <1>2, <1>3, FirstSaid DEF SaysMap
<1>5. \A f \in Fd : OnlyFirst(sent'[f]) /\ (SaysMap(f)' => SaysMap(f))
  BY <1>1, <1>3, <1>4 DEF SaysMap
<1>. QED
  BY <1>5, PeerCounts

LEMMA ArrivesTakes ==
  ASSUME Inv, Known, NEW fd \in Fd, Arrives(fd)
  PROVE  /\ UNCHANGED <<out, exq, xpc, vSess, vPid2Sid>> /\ UNCHANGED counts
         /\ \A f \in Fd : Takes(f)
BY ArrivesApart DEF Arrives, Takes

LEMMA ReachCounts ==
  ASSUME Inv, Inv', Known, Ready, Counted, NEW fd \in Fd,
         Discard(fd) \/ ReachClient(fd) \/ ReachTool(fd)
  PROVE  Ready' /\ Counted'
<1>1. Arrives(fd) /\ certified' = certified
  BY DEF Discard, ReachClient, ReachTool
<1>2. Players
  BY <1>1 DEF Players
<1>3. CASE Discard(fd) \/ ReachClient(fd)
  BY <1>1, <1>2, <1>3, ArrivesTakes, SilentCounts DEF Discard, ReachClient, servers
<1>4. ASSUME ReachTool(fd), NEW r, r = [type |-> "ACK_TOOL", to |-> Head(wq[fd]).arg],
             NEW msgs, msgs = <<r>>
      PROVE  Ready' /\ Counted'
  <2>1. sent' = [sent EXCEPT ![fd] = Append(@, r)] /\ r.type # "SET_MAP_ID"
    BY <1>4 DEF ReachTool
  <2>2. msgs \in Seq({r}) /\ Items(msgs) = {r}
    BY <1>4, ItemsOfOne
  <2>3. sent' = [sent EXCEPT ![fd] = @ \o msgs]
    <3>. DEFINE T == Said \union {r}
    <3>1. sent[fd] \in Seq(Said)
      BY DEF Inv, TypeOK
    <3>2. sent[fd] \in Seq(T) /\ r \in T
      BY <3>1, SeqMonotonic
    <3>. HIDE DEF T
    <3>3. Append(sent[fd], r) = sent[fd] \o msgs
      BY <1>4, <3>2, AppendIsConcat
    <3>. QED
      BY <2>1, <3>3
  <2>. QED
    BY <1>1, <1>2, <2>1, <2>2, <2>3, ArrivesTakes, SaidCounts
<1>. QED
  BY <1>3, <1>4

LEMMA HandleCounts ==
  ASSUME Inv, Inv', Known, Ready, Counted, NEW m \in Map, Handle(m)
  PROVE  Ready' /\ Counted'
<1>. SUFFICES ASSUME NEW fd, fd = srvFd[m] PROVE Ready' /\ Counted'
  OBVIOUS
<1>1. PICK type, p, sid : /\ ReachServer(m, type) /\ Told(m, sid, p) /\ Players
  <2>1. ASSUME NEW p \in Player, Certify(m, p)
        PROVE  \E type, sid : ReachServer(m, type) /\ Told(m, sid, p) /\ Players
    <3>1. /\ ReachServer(m, "FIRST_PACKET2") /\ Told(m, Gets(m)[1], p)
          /\ certified' = certified \union {<<Gets(m)[2], p>>}
      BY <2>1, CertifiedShape DEF Inv, Told
    <3>2. Players
      BY <3>1 DEF Players
    <3>. QED
      BY <3>1, <3>2
  <2>2. CASE Handles1(m)
    BY <2>2, HandledShape DEF Inv, Shape, Players
  <2>. QED
    BY <2>1, <2>2 DEF Handle, Handles1
<1>2. fd \in Fd /\ Arrives(fd)
  BY <1>1 DEF ReachServer, Inv, TypeOK
<1>3. CASE sent' = sent
  BY <1>1, <1>2, <1>3, ArrivesTakes, SilentCounts
<1>4. ASSUME NEW msgs \in Seq(AllAbout(sid, p)), Say(m, msgs) PROVE Ready' /\ Counted'
  <2>1. sent' = [sent EXCEPT ![fd] = @ \o msgs]
    BY <1>4 DEF Say
  <2>2. \A r \in Items(msgs) : r.type # "SET_MAP_ID"
    BY ItemsIn DEF AllAbout, About
  <2>. QED
    BY <1>1, <1>2, <2>1, <2>2, ArrivesTakes, SaidCounts
<1>. QED
  BY <1>1, <1>3, <1>4 DEF Told

LEMMA ServerCounts ==
  ASSUME Inv, Inv', Known, Ready, Counted, NEW m \in Map, Server(m)
  PROVE  Ready' /\ Counted'
<1>. SUFFICES ASSUME NEW fd, fd = srvFd[m] PROVE Ready' /\ Counted'
  OBVIOUS
<1>1. CASE SrvDrop(m)
  <2>1. /\ UNCHANGED <<out, exq, xpc, vSess, vPid2Sid, sent, wq, certified>> /\ UNCHANGED counts
    BY <1>1 DEF SrvDrop, worker, history
  <2>. QED
    BY <2>1, SilentCounts DEF Players, Takes
<1>2. ASSUME Talks(m)
      PROVE  /\ fd \in Fd /\ UNCHANGED <<out, exq, xpc, vSess, vPid2Sid>> /\ UNCHANGED counts
             /\ Players /\ \A f \in Fd : Takes(f)
  BY <1>2 DEF Talks, worker, history, Inv, TypeOK, Players, Takes
<1>3. ASSUME NEW p \in Player, Chatter(m, p) PROVE Ready' /\ Counted'
  <2>1. PICK r \in {To(p, "NEWS", p), [type |-> "TO_ALL"],
                    [type |-> "TO_MANY", pids |-> {p}], [type |-> "QRY_TOOL"]} : Say(m, <<r>>)
    BY <1>3 DEF Chatter
  <2>. DEFINE msgs == <<r>>
  <2>2. Talks(m) /\ sent' = [sent EXCEPT ![fd] = @ \o msgs]
    BY <1>3, <2>1 DEF Chatter, Say
  <2>3. r.type # "SET_MAP_ID"
    BY <2>1 DEF To
  <2>4. msgs \in Seq({r}) /\ Items(msgs) = {r}
    BY ItemsOfOne
  <2>. HIDE DEF msgs
  <2>. QED
    BY <1>2, <2>2, <2>3, <2>4, SaidCounts
<1>4. ASSUME NEW p \in Player, MigrateBack(m, p) PROVE Ready' /\ Counted'
  <2>1. PICK msgs \in Seq(AllAbout(gPlys[m][p].sockid, p)) :
          sent' = [sent EXCEPT ![fd] = @ \o msgs]
    BY <1>4, MigrateBackShape DEF Say, Inv
  <2>2. Talks(m)
    BY <1>4 DEF MigrateBack
  <2>3. \A r \in Items(msgs) : r.type # "SET_MAP_ID"
    BY ItemsIn DEF AllAbout, About
  <2>. QED
    BY <1>2, <2>1, <2>2, <2>3, SaidCounts
<1>. QED
  BY <1>1, <1>3, <1>4 DEF Server

-----------------------------------------------------------------------------
(* The exchange thread. *)

LEMMA HandledReady ==
  ASSUME Inv, Inv', Known, Ready, Handled, ServersStay,
         \A f \in Fd : SaysMap(f) => \/ vSess'[f] = NoSess
                                     \/ Closing(f) /\ Closing(f)'
                                     \/ /\ ~Closing(f)
                                        /\ vSess'[f].pid = vSess[f].pid
                                        /\ vSess'[f].sid = vSess[f].sid
                                        /\ vSess'[f].mode = vSess[f].mode,
         \A f \in Fd : \A b \in Items(wq'[f]) :
           b.cmd \in NewCmds => b \in Items(wq[f]) \union Items(exq)
  PROVE  Ready'
<1>1. UNCHANGED <<out, sent, certified>> /\ exq # << >> /\ exq' \in {exq, Tail(exq)}
  BY DEF Handled
<1>2. exq \in Seq(Commands) /\ Items(exq') \subseteq Items(exq)
  BY HandledSteady
<1>3. NoTool'
  BY <1>1 DEF Ready, NoTool
<1>4. InTurn'
  <2>1. Ordered(exq')
    BY <1>1, <1>2, OrderedTail DEF Ready, InTurn
  <2>. QED
    BY <1>1, <1>2, <2>1 DEF Ready, InTurn
<1>5. SigninsOK'
  BY <1>1, <1>2, SigninsKept DEF Ready
<1>6. ASSUME NEW f \in Fd PROVE MapOnce(f)'
  <2>1. MapOnce(f) /\ OnlyFirst(sent'[f]) /\ (SaysMap(f)' => SaysMap(f))
    BY <1>1 DEF Ready, MapOnce, SaysMap
  <2>2. \A b \in Items(out'[f]) \union Items(exq') \union Items(wq'[f]) :
          b.cmd = "INCOME" => b \in Items(out[f]) \union Items(exq) \union Items(wq[f])
    BY <1>1, <1>2 DEF NewCmds
  <2>. QED
    BY <2>1, <2>2, MapOnceKept
<1>. QED
  BY <1>3, <1>4, <1>5, <1>6 DEF Ready

(* No server's signin is handled, and no server is signed out. *)
LEMMA ServersKept ==
  ASSUME Inv, Known, Handled,
         \/ exq' = exq
         \/ Head(exq).cmd # "SIGNIN_SRV"
         \/ ~get_sess(Head(exq).sid),
         \A f \in Fd : \/ /\ vSess'[f].sid = vSess[f].sid
                          /\ vSess'[f].pid \in Map <=> vSess[f].pid \in Map
                          /\ vSess[f].pid \in Map => (Closing(f)' <=> Closing(f))
                       \/ Closing(f) /\ vSess'[f] = NoSess
  PROVE  ServersOn' = ServersOn
<1>1. out' = out /\ exq \in Seq(Commands) /\ exq # << >> /\ exq' \in {exq, Tail(exq)}
  BY DEF Handled, Inv, TypeOK
<1>2. Items(exq) = {Head(exq)} \union Items(Tail(exq))
  BY <1>1, ItemsTail
<1>3. NoSess.pid \notin Map
  BY GateAssumption DEF NoSess
<1>4. ASSUME NEW f \in Fd, vSess[f].pid \in Map, vSess'[f].sid = vSess[f].sid
      PROVE  Signing(f)' <=> Signing(f)
  <2>1. get_sess(vSess[f].sid)
    BY <1>4, ServerSid DEF get_sess
  <2>2. Head(exq).cmd = "SIGNIN_SRV" /\ Head(exq).sid = vSess[f].sid => exq' = exq
    BY <2>1
  <2>. QED
    BY <1>1, <1>2, <1>4, <2>2 DEF Signing
<1>. QED
  BY <1>3, <1>4 DEF ServersOn

(* A step that routes packets, if anything. *)
LEMMA HandlesCounts ==
  ASSUME Inv, Inv', Known, Ready, Counted, NEW cmd, Handles(cmd),
         cmd = "SIGNIN_SRV" => ~get_sess(Head(exq).sid),
         UNCHANGED <<vSess, xpc, vPid2Sid>>, UNCHANGED counts,
         \A f \in Fd : \A b \in Items(wq'[f]) : b.cmd \in NewCmds => b \in Items(wq[f]),
         \A f \in Fd : Items(wq[f]) \subseteq Items(wq'[f])
  PROVE  Ready' /\ Counted'
<1>1. /\ Handled /\ xpc = "next" /\ Head(exq).cmd = cmd
      /\ \A f : ~Closing(f) /\ ~Closing(f)'
  BY HandlesIs
<1>2. Ready'
  <2>1. ServersStay
    BY DEF ServersStay
  <2>. QED
    BY <1>1, <2>1, HandledReady
<1>3. ServersOn' = ServersOn
  BY <1>1, ServersKept
<1>4. Announced' = Announced
  BY DEF Announced, Holds, IsNew
<1>5. PlayersOn' = PlayersOn
  BY <1>1 DEF PlayersOn
<1>. QED
  BY <1>2, <1>3, <1>4, <1>5, CountedKept

LEMMA Appended ==
  ASSUME Inv, NEW f \in Fd, NEW r
  PROVE  Items(Append(wq[f], r)) = Items(wq[f]) \union {r}
<1>. DEFINE Q == RoutedPackets \union NewConns
<1>1. wq[f] \in Seq(Q)
  BY DEF Inv, TypeOK
<1>. HIDE DEF Q
<1>. QED
  BY <1>1, OneMoreItem

LEMMA RouteCounts ==
  ASSUME Inv, Inv', Known, Ready, Counted, Route
  PROVE  Ready' /\ Counted'
<1>. SUFFICES ASSUME NEW b, b = Head(exq), NEW sid, sid = sid_from_pid(b.to),
                     NEW r, r = Routed(sid, b.to, b.type, b.arg)
              PROVE  Ready' /\ Counted'
  OBVIOUS
<1>1. /\ Handles("PACKET") /\ UNCHANGED <<vSess, xpc, vPid2Sid>> /\ UNCHANGED counts
      /\ wq' = IF sid = None THEN wq ELSE [wq EXCEPT ![FdOf(sid)] = Append(@, r)]
  BY DEF Route
<1>2. r.cmd \notin NewCmds
  BY DEF Routed, NewCmds
<1>3. ASSUME NEW f \in Fd PROVE Items(wq[f]) \subseteq Items(wq'[f])
                                /\ Items(wq'[f]) \subseteq Items(wq[f]) \union {r}
  <2>1. Items(Append(wq[f], r)) = Items(wq[f]) \union {r}
    BY Appended
  <2>2. wq'[f] \in {wq[f], Append(wq[f], r)}
    BY <1>1 DEF Inv, TypeOK
  <2>. QED
    BY <2>1, <2>2
<1>. QED
  BY <1>1, <1>2, <1>3, HandlesCounts

LEMMA CopiesCounts ==
  ASSUME Inv, Inv', Known, Ready, Counted, NEW cmd, cmd # "SIGNIN_SRV", Handles(cmd),
         UNCHANGED <<vSess, xpc, vPid2Sid>>, UNCHANGED counts, NEW fds, NEW type, Copies(fds, type)
  PROVE  Ready' /\ Counted'
<1>1. ASSUME NEW f \in Fd, NEW r, r = Routed(vSess[f].sid, vSess[f].pid, type, None)
      PROVE  /\ Items(wq[f]) \subseteq Items(wq'[f])
             /\ \A b \in Items(wq'[f]) : b.cmd \in NewCmds => b \in Items(wq[f])
  <2>1. r.cmd \notin NewCmds
    BY <1>1 DEF Routed, NewCmds
  <2>2. Items(Append(wq[f], r)) = Items(wq[f]) \union {r}
    BY Appended
  <2>3. wq'[f] \in {wq[f], Append(wq[f], r)}
    BY <1>1 DEF Copies
  <2>. QED
    BY <2>1, <2>2, <2>3
<1>. QED
  BY <1>1, HandlesCounts

LEMMA BroadcastCounts ==
  ASSUME Inv, Inv', Known, Ready, Counted, SendAllCli \/ SendMulCli
  PROVE  Ready' /\ Counted'
<1>1. CASE SendAllCli
  BY <1>1, CopiesCounts DEF SendAllCli
<1>2. CASE SendMulCli
  BY <1>2, CopiesCounts DEF SendMulCli
<1>. QED
  BY <1>1, <1>2

LEMMA LateCounts ==
  ASSUME Inv, Inv', Known, Ready, Counted, SigninLate
  PROVE  Ready' /\ Counted'
BY HandlesCounts DEF SigninLate

LEMMA ForwardCounts ==
  ASSUME Inv, Inv', Known, Ready, Counted, ForwardIncome \/ ForwardConnect
  PROVE  Ready' /\ Counted'
<1>. SUFFICES ASSUME NEW b, b = Head(exq), NEW fd, fd = b.fd PROVE Ready' /\ Counted'
  OBVIOUS
<1>1. CASE ForwardConnect
  <2>1. exq \in Seq(Commands) /\ exq # << >> /\ b.cmd = "CONNECT"
    BY <1>1 DEF ForwardConnect, Handles, Head_is, Inv, TypeOK
  <2>2. b \in Items(exq)
    BY <2>1, HeadIsItem
  <2>. QED
    BY <2>1, <2>2, NoConnect DEF Ready
<1>2. CASE ForwardIncome
  <2>1. /\ Handles("INCOME") /\ UNCHANGED <<vSess, xpc, vPid2Sid, gCountSrv, gCountPly>>
        /\ gCountSck' = gCountSck + 1 /\ wq' = [wq EXCEPT ![fd] = Append(@, b)]
    BY <1>2 DEF ForwardIncome
  <2>2. /\ Handled /\ xpc = "next" /\ b.cmd = "INCOME"
        /\ \A f : ~Closing(f) /\ ~Closing(f)'
    BY <2>1, HandlesIs
  <2>3. b \in Items(exq) /\ b \in Commands
    BY <2>2, HandledSteady
  <2>4. fd \in Fd /\ Waiting(fd) /\ Holds(exq, fd) /\ IsNew(b, fd)
    BY <2>2, <2>3, ConnectOpen DEF NewCmds, Holds, IsNew
  <2>5. vSess[fd].sid = None /\ ~Holds(wq[fd], fd)
    BY <2>2, <2>4 DEF Inv, WaitingWiped, WaitsOnce, NoSess
  <2>6. Items(wq'[fd]) = Items(wq[fd]) \union {b} /\ \A f \in Fd \ {fd} : wq'[f] = wq[f]
    <3>. DEFINE Q == RoutedPackets \union NewConns
    <3>1. wq \in [Fd -> Seq(Q)]
      BY DEF Inv, TypeOK
    <3>. HIDE DEF Q
    <3>2. Items(Append(wq[fd], b)) = Items(wq[fd]) \union {b}
      BY <2>4, <3>1, OneMoreItem
    <3>. QED
      BY <2>1, <2>4, <3>1, <3>2
  <2>7. Ready'
    <3>1. ServersStay
      BY <2>1 DEF ServersStay
    <3>. QED
      BY <2>1, <2>2, <2>3, <2>6, <3>1, HandledReady
  <2>8. ServersOn' = ServersOn
    BY <2>1, <2>2, ServersKept
  <2>9. PlayersOn' = PlayersOn
    BY <2>1, <2>2 DEF PlayersOn
  <2>10. Announced' = Announced \union {fd} /\ fd \notin Announced
    <3>1. Holds(wq'[fd], fd)
      BY <2>4, <2>6 DEF Holds
    <3>. QED
      BY <2>1, <2>4, <2>5, <2>6, <3>1 DEF Announced
  <2>11. Counts(gCountSck', Announced')
    BY <2>1, <2>10, CountsMore DEF Counted
  <2>. QED
    BY <2>1, <2>7, <2>8, <2>9, <2>11 DEF Counted
<1>. QED
  BY <1>1, <1>2

(* A server's signin is handled: the session has had its pid since the     *)
(* worker wrote it, and nothing more of it is on its way.                  *)
LEMMA SigninServerCounts ==
  ASSUME Inv, Inv', Known, Ready, Counted, SigninServer
  PROVE  Ready' /\ Counted'
<1>. SUFFICES ASSUME NEW b, b = Head(exq), NEW sid, sid = b.sid, NEW pid, pid = b.pid,
                     NEW fd, fd = FdOf(sid)
              PROVE  Ready' /\ Counted'
  OBVIOUS
<1>1. Handles("SIGNIN_SRV") /\ UNCHANGED <<xpc, wq, gCountSck, gCountPly>>
  BY DEF SigninServer
<1>2. CASE ~get_sess(sid)
  <2>1. UNCHANGED <<vSess, vPid2Sid>> /\ UNCHANGED counts
    BY <1>1, <1>2 DEF SigninServer, counts
  <2>. QED
    BY <1>1, <1>2, <2>1, HandlesCounts
<1>3. CASE get_sess(sid)
  <2>1. /\ vSess' = [vSess EXCEPT ![fd].state = "ON"]
        /\ vPid2Sid' = [vPid2Sid EXCEPT ![pid] = sid]
        /\ gCountSrv' = gCountSrv + 1
    BY <1>3 DEF SigninServer, add_cli
  <2>2. \A f \in Fd : /\ vSess'[f].sid = vSess[f].sid /\ vSess'[f].mode = vSess[f].mode
                      /\ vSess'[f].pid = vSess[f].pid
                      /\ vSess'[f].state \in {vSess[f].state, "ON"}
    BY <2>1 DEF Inv, TypeOK, Sess
  <2>3. /\ Handled /\ xpc = "next" /\ b.cmd = "SIGNIN_SRV" /\ exq' = Tail(exq) /\ exq # << >>
        /\ \A f : ~Closing(f) /\ ~Closing(f)'
    BY <1>1, <2>2, HandlesIs DEF Handled
  <2>4. exq \in Seq(Commands) /\ b \in Commands /\ b \in Items(exq) /\ out' = out
    BY <2>3, HandledSteady DEF Handled
  <2>5. sid \in SidOrNone /\ sid # None /\ fd \in Fd
    BY <1>3, <2>3, <2>4, CommandFields, SidFd DEF get_sess
  <2>6. pid \in Map /\ vSess[fd].pid = pid /\ vSess[fd].sid = sid
    BY <1>3, <2>3, <2>4 DEF Ready, SigninsOK, SigninOK, get_sess
  <2>7. Ready'
    <3>1. ServersStay
      BY <2>2 DEF ServersStay
    <3>. QED
      BY <1>1, <2>2, <2>3, <3>1, HandledReady
  <2>8. /\ Items(exq) = {b} \union Items(Tail(exq))
        /\ \A c \in Items(Tail(exq)) : ~Spoils(b, c)
        /\ \A c \in Items(out[fd]) : ~Spoils(b, c)
    BY <2>3, <2>4, <2>5, ItemsTail, OrderedTail DEF Ready, InTurn
  <2>9. Signing(fd) /\ ~Signing(fd)'
    <3>1. \A c : c.cmd = "SIGNIN_SRV" /\ c.sid = sid => Spoils(b, c)
      BY <2>3 DEF Spoils, Signs
    <3>2. vSess'[fd].sid = sid
      BY <2>2, <2>5, <2>6
    <3>. QED
      BY <2>3, <2>4, <2>6, <2>8, <3>1, <3>2 DEF Signing
  <2>10. ASSUME NEW f \in Fd \ {fd}, vSess[f].pid \in Map PROVE Signing(f)' <=> Signing(f)
    <3>1. vSess[f].sid # sid /\ vSess'[f].sid = vSess[f].sid
      BY <2>2, <2>10, ServerSid
    <3>. QED
      BY <2>3, <2>4, <2>8, <3>1 DEF Signing
  <2>11. ServersOn' = ServersOn \union {fd} /\ fd \notin ServersOn
    BY <2>2, <2>3, <2>5, <2>6, <2>9, <2>10 DEF ServersOn
  <2>12. Announced' = Announced
    BY <1>1, <2>2 DEF Announced
  <2>13. PlayersOn' = PlayersOn
    <3>0. pid \notin Player
      BY <2>6, GateAssumption
    <3>1. \A p \in Player : vPid2Sid'[p] = vPid2Sid[p]
      BY <2>1, <3>0 DEF Inv, TypeOK, Pid
    <3>. QED
      BY <1>1, <2>3, <3>1 DEF PlayersOn
  <2>14. Counts(gCountSrv', ServersOn')
    BY <2>1, <2>11, CountsMore DEF Counted
  <2>. QED
    BY <1>1, <2>7, <2>12, <2>13, <2>14 DEF Counted
<1>. QED
  BY <1>2, <1>3

(* A player is taken from the table's session, in fact if not yet in name. *)
LEMMA SigninKickCounts ==
  ASSUME Inv, Inv', Known, Table, Ready, Counted, SigninKick
  PROVE  Ready' /\ Counted'
<1>. SUFFICES ASSUME NEW b, b = Head(exq), NEW pid, pid = b.pid,
                     NEW tsid, tsid = sid_from_pid(pid), NEW tfd, tfd = FdOf(tsid)
              PROVE  Ready' /\ Counted'
  OBVIOUS
<1>1. /\ UNCHANGED <<made, sn, open, polled, out, sent, gPlys, conn, certified, exq, vPid2Sid,
                     gCountSck, gCountSrv>>
      /\ exq # << >> /\ b.cmd = "SIGNIN_CLI"
      /\ xpc = "next" /\ xpc' = "assign"
  BY DEF SigninKick, InSignin, Head_is, worker, servers, history
<1>2. \A f : ~Closing(f) /\ ~Closing(f)'
  BY <1>1 DEF Closing
<1>3. b \in Commands
  BY <1>1, HeadType DEF Head_is, Inv
<1>4. pid \in Player /\ pid # None /\ pid \in Pid /\ tsid = vPid2Sid[pid]
  BY <1>1, <1>3, CommandFields, GateAssumption DEF Pid, sid_from_pid
<1>5. get_sess(tsid) <=> tsid # None
  BY <1>4, TableSids DEF Live, get_sess
<1>6. PlayersOn = {p \in Player : vPid2Sid[p] # None} /\ PlayersOn' = PlayersOn \ {pid}
  BY <1>1 DEF PlayersOn
<1>7. CASE tsid # None
  <2>1. tsid \in SidOrNone /\ tfd \in Fd /\ Live(tsid) /\ Meant(tsid, pid)
    BY <1>4, <1>7, TableSids DEF Known, Places
  <2>2. vSess[tfd].mode = "CLI" /\ vSess[tfd].sid = tsid
    BY <1>4, <1>7, <2>1, Kinds DEF Meant, Live, get_sess
  <2>3. vSess[tfd].pid = pid
    BY <1>1, <1>2, <1>4, <1>7, <2>1 DEF Table, Of
  <2>. DEFINE r == Routed(tsid, pid, "DUPLICATE", pid)
  <2>4. /\ vSess' = [vSess EXCEPT ![tfd].pid = None, ![tfd].map = None]
        /\ wq' = [wq EXCEPT ![tfd] = Append(@, r)] /\ gCountPly' = gCountPly - 1
    BY <1>5, <1>7 DEF SigninKick, make_packet_fix
  <2>5. /\ vSess'[tfd].sid = vSess[tfd].sid /\ vSess'[tfd].mode = vSess[tfd].mode
        /\ vSess'[tfd].state = vSess[tfd].state /\ vSess'[tfd].pid = None
        /\ \A f \in Fd \ {tfd} : vSess'[f] = vSess[f]
    BY <2>1, <2>4 DEF Inv, TypeOK, Sess
  <2>6. \A f \in Fd : /\ vSess'[f].sid = vSess[f].sid /\ vSess'[f].mode = vSess[f].mode
                      /\ vSess'[f].state = vSess[f].state
    BY <2>5
  <2>7. Handled
    BY <1>1, <1>2, <2>6 DEF Handled
  <2>8. r.cmd \notin NewCmds
    BY DEF Routed, NewCmds
  <2>. HIDE DEF r
  <2>9. Items(wq'[tfd]) = Items(wq[tfd]) \union {r} /\ \A f \in Fd \ {tfd} : wq'[f] = wq[f]
    BY <2>1, <2>4, OneQueued
  <2>10. None \notin Map /\ pid \notin Map
    BY <1>4, GateAssumption
  <2>11. Ready'
    <3>1. ServersStay
      BY <2>3, <2>5, <2>10 DEF ServersStay
    <3>2. ~SaysMap(tfd)
      BY <1>2, <1>4, <2>1, <2>2, <2>3 DEF Ready, MapOnce
    <3>3. \A f \in Fd : \A c \in Items(wq'[f]) : c.cmd \in NewCmds => c \in Items(wq[f])
      BY <2>8, <2>9
    <3>. QED
      BY <1>2, <2>5, <2>7, <3>1, <3>2, <3>3, HandledReady
  <2>12. ServersOn' = ServersOn
    <3>1. \A f \in Fd : vSess'[f].pid \in Map <=> vSess[f].pid \in Map
      BY <2>3, <2>5, <2>10
    <3>. QED
      BY <1>1, <1>2, <2>6, <2>7, <3>1, ServersKept
  <2>13. Announced' = Announced
    <3>1. \A f \in Fd : Holds(wq'[f], f) <=> Holds(wq[f], f)
      BY <2>8, <2>9 DEF Holds, IsNew
    <3>. QED
      BY <2>6, <3>1 DEF Announced
  <2>14. Counts(gCountPly', PlayersOn')
    BY <1>4, <1>6, <1>7, <2>4, CountsLess DEF Counted
  <2>. QED
    BY <1>1, <2>11, <2>12, <2>13, <2>14 DEF Counted
<1>8. CASE tsid = None
  <2>1. vSess' = vSess /\ wq' = wq /\ gCountPly' = gCountPly
    BY <1>5, <1>8 DEF SigninKick
  <2>2. Handled
    BY <1>1, <1>2, <2>1 DEF Handled
  <2>3. Ready'
    <3>1. ServersStay
      BY <2>1 DEF ServersStay
    <3>. QED
      BY <1>2, <2>1, <2>2, <3>1, HandledReady
  <2>4. ServersOn' = ServersOn
    BY <1>1, <1>2, <2>1, <2>2, ServersKept
  <2>5. Announced' = Announced
    BY <2>1 DEF Announced
  <2>6. PlayersOn' = PlayersOn
    BY <1>4, <1>6, <1>8
  <2>. QED
    BY <1>1, <2>1, <2>3, <2>4, <2>5, <2>6, CountedKept DEF counts
<1>. QED
  BY <1>7, <1>8

(* The session that gets the player is a client's, and no server's.        *)
LEMMA SigninAssignCounts ==
  ASSUME Inv, Inv', Known, Ready, Counted, SigninAssign
  PROVE  Ready' /\ Counted'
<1>. SUFFICES ASSUME NEW b, b = Head(exq), NEW pid, pid = b.pid, NEW map, map = b.map,
                     NEW sid, sid = b.sid, NEW fd, fd = FdOf(sid)
              PROVE  Ready' /\ Counted'
  OBVIOUS
<1>1. /\ UNCHANGED <<made, sn, open, polled, out, sent, gPlys, conn, certified, exq, vPid2Sid, wq>>
      /\ UNCHANGED counts
      /\ exq # << >> /\ b.cmd = "SIGNIN_CLI"
      /\ xpc = "assign" /\ xpc' = "on"
      /\ vSess' = [vSess EXCEPT ![fd].map = map, ![fd].pid = pid]
  BY DEF SigninAssign, InSignin, Head_is, worker, servers, history
<1>2. \A f : ~Closing(f) /\ ~Closing(f)'
  BY <1>1 DEF Closing
<1>3. b \in Commands /\ get_sess(sid) /\ sid # None
  BY <1>1, HeadType DEF Head_is, Inv, SigninStays, get_sess
<1>4. pid \in Player /\ sid \in SidOrNone /\ fd \in Fd /\ pid \notin Map
  BY <1>1, <1>3, CommandFields, SidFd, GateAssumption
<1>5. /\ vSess'[fd].sid = vSess[fd].sid /\ vSess'[fd].mode = vSess[fd].mode
      /\ vSess'[fd].state = vSess[fd].state /\ vSess'[fd].pid = pid
      /\ \A f \in Fd \ {fd} : vSess'[f] = vSess[f]
  BY <1>1, <1>4 DEF Inv, TypeOK, Sess
<1>6. \A f \in Fd : /\ vSess'[f].sid = vSess[f].sid /\ vSess'[f].mode = vSess[f].mode
                    /\ vSess'[f].state = vSess[f].state
  BY <1>5
<1>7. Handled
  BY <1>1, <1>2, <1>6 DEF Handled
<1>8. Meant(sid, pid)
  BY <1>1, <1>7, HandledSteady DEF CommandOK
<1>9. vSess[fd].mode = "CLI" /\ vSess[fd].sid = sid
  BY <1>2, <1>3, <1>4, <1>8, Kinds DEF Meant, Live, get_sess
<1>10. vSess[fd].pid \notin Map
  BY <1>2, <1>4, <1>9, ServerSid
<1>11. Ready'
  <2>1. ServersStay
    BY <1>5, <1>10 DEF ServersStay
  <2>2. ~SaysMap(fd)
    BY <1>2, <1>3, <1>4, <1>9 DEF Ready, MapOnce
  <2>. QED
    BY <1>1, <1>2, <1>5, <1>7, <2>1, <2>2, HandledReady
<1>12. ServersOn' = ServersOn
  <2>1. \A f \in Fd : vSess'[f].pid \in Map <=> vSess[f].pid \in Map
    BY <1>4, <1>5, <1>10
  <2>. QED
    BY <1>1, <1>2, <1>6, <1>7, <2>1, ServersKept
<1>13. Announced' = Announced
  BY <1>1, <1>6 DEF Announced
<1>14. PlayersOn' = PlayersOn
  BY <1>1 DEF PlayersOn
<1>. QED
  BY <1>1, <1>11, <1>12, <1>13, <1>14, CountedKept

LEMMA SigninOnCounts ==
  ASSUME Inv, Inv', Known, Ready, Counted, SigninOn
  PROVE  Ready' /\ Counted'
<1>. SUFFICES ASSUME NEW b, b = Head(exq), NEW pid, pid = b.pid,
                     NEW sid, sid = b.sid, NEW fd, fd = FdOf(sid)
              PROVE  Ready' /\ Counted'
  OBVIOUS
<1>1. /\ UNCHANGED <<made, sn, open, polled, out, sent, gPlys, conn, certified, wq,
                     gCountSck, gCountSrv>>
      /\ exq # << >> /\ exq' = Tail(exq) /\ b.cmd = "SIGNIN_CLI"
      /\ xpc = "on" /\ xpc' = "next" /\ gCountPly' = gCountPly + 1
      /\ vSess' = [vSess EXCEPT ![fd].state = "ON"]
      /\ vPid2Sid' = [vPid2Sid EXCEPT ![pid] = sid]
  BY DEF SigninOn, InSignin, Head_is, worker, servers, history, add_cli
<1>2. \A f : ~Closing(f) /\ ~Closing(f)'
  BY <1>1 DEF Closing
<1>3. b \in Commands /\ sid # None
  BY <1>1, HeadType DEF Head_is, Inv, SigninStays, get_sess
<1>4. pid \in Player
  BY <1>1, <1>3, CommandFields
<1>5. \A f \in Fd : /\ vSess'[f].sid = vSess[f].sid /\ vSess'[f].mode = vSess[f].mode
                    /\ vSess'[f].pid = vSess[f].pid
                    /\ vSess'[f].state \in {vSess[f].state, "ON"}
  BY <1>1 DEF Inv, TypeOK, Sess
<1>6. Handled
  BY <1>1, <1>2, <1>5 DEF Handled
<1>7. Ready'
  <2>1. ServersStay
    BY <1>5 DEF ServersStay
  <2>. QED
    BY <1>1, <1>2, <1>5, <1>6, <2>1, HandledReady
<1>8. ServersOn' = ServersOn
  BY <1>1, <1>2, <1>5, <1>6, ServersKept
<1>9. Announced' = Announced
  BY <1>1, <1>5 DEF Announced
<1>10. PlayersOn' = PlayersOn \union {pid} /\ pid \notin PlayersOn
  <2>1. \A p \in Player : vPid2Sid'[p] = IF p = pid THEN sid ELSE vPid2Sid[p]
    BY <1>1 DEF Inv, TypeOK, Pid
  <2>. QED
    BY <1>1, <1>3, <1>4, <2>1 DEF PlayersOn
<1>11. Counts(gCountPly', PlayersOn')
  BY <1>1, <1>10, CountsMore DEF Counted
<1>. QED
  BY <1>1, <1>7, <1>8, <1>9, <1>11 DEF Counted

(* A session is signed out: a server is counted off as its signin has been *)
(* handled, a player as the table has it.                                  *)
LEMMA SignoutCloseCounts ==
  ASSUME Inv, Inv', Known, Table, Ready, Counted, SignoutClose
  PROVE  Ready' /\ Counted'
<1>. SUFFICES ASSUME NEW b, b = Head(exq), NEW sid, sid = b.sid, NEW fd, fd = FdOf(sid)
              PROVE  Ready' /\ Counted'
  OBVIOUS
<1>1. /\ UNCHANGED <<made, sn, polled, out, sent, gPlys, conn, certified, wq, vSess, gCountSck>>
      /\ exq # << >> /\ b.cmd = "SIGNOUT" /\ xpc = "next"
  BY DEF SignoutClose, Head_is, servers, history
<1>2. \A f : ~Closing(f)
  BY <1>1 DEF Closing
<1>3. CASE ~get_sess(sid)
  <2>1. Handles("SIGNOUT")
    BY <1>3 DEF SignoutClose, Handles, worker
  <2>2. UNCHANGED <<vSess, xpc, vPid2Sid, wq>> /\ UNCHANGED counts
    BY <1>3 DEF SignoutClose, counts
  <2>. QED
    BY <2>1, <2>2, HandlesCounts
<1>4. ASSUME get_sess(sid), NEW pid, pid = vSess[fd].pid PROVE Ready' /\ Counted'
  <2>1. /\ exq' = exq /\ open' \subseteq open /\ xpc' = "wipe"
        /\ vPid2Sid' = IF pid = None THEN vPid2Sid ELSE [vPid2Sid EXCEPT ![pid] = None]
        /\ gCountSrv' = IF pid \in Map THEN gCountSrv - 1 ELSE gCountSrv
        /\ gCountPly' = IF pid \in Player THEN gCountPly - 1 ELSE gCountPly
    BY <1>4 DEF SignoutClose, rem_cli
  <2>2. exq \in Seq(Commands) /\ b \in Commands /\ sid # None
    <3>1. exq \in Seq(Commands)
      BY DEF Inv, TypeOK
    <3>. QED
      BY <1>1, <1>4, <3>1, HeadIsItem, QueueTypes DEF get_sess
  <2>3. sid \in SidOrNone /\ fd \in Fd /\ vSess[fd].sid = sid
    BY <1>1, <1>4, <2>2, CommandFields, SidFd DEF get_sess
  <2>4. \A f : Closing(f)' <=> f = fd
    BY <1>1, <2>1 DEF Closing, Head_is
  <2>5. \A p \in Player : vPid2Sid'[p] = IF p = pid THEN None ELSE vPid2Sid[p]
    BY <2>1, GateAssumption DEF Inv, TypeOK, Pid
  <2>6. Handled
    BY <1>1, <1>2, <2>1 DEF Handled
  <2>7. Ready'
    <3>1. ServersStay
      BY <1>1 DEF ServersStay
    <3>. QED
      BY <1>1, <1>2, <2>6, <3>1, HandledReady
  <2>8. Announced' = Announced
    BY <1>1 DEF Announced
  <2>9. Counts(gCountSrv', ServersOn')
    <3>1. \A f \in Fd : Signing(f)' <=> Signing(f)
      BY <1>1, <2>1 DEF Signing
    <3>2. ServersOn' = ServersOn \ {fd}
      BY <1>1, <1>2, <2>4, <3>1 DEF ServersOn
    <3>3. CASE pid \in Map
      <4>1. /\ Items(exq) = {b} \union Items(Tail(exq))
            /\ \A c \in Items(Tail(exq)) : ~Spoils(b, c)
            /\ \A c \in Items(out[fd]) : ~Spoils(b, c)
        BY <1>1, <2>2, <2>3, ItemsTail, OrderedTail DEF Ready, InTurn
      <4>2. ~Signing(fd)
        BY <1>1, <2>3, <4>1 DEF Signing, Spoils, Signs
      <4>3. fd \in ServersOn
        BY <1>2, <1>4, <2>3, <3>3, <4>2 DEF ServersOn
      <4>4. gCountSrv' = gCountSrv - 1
        BY <2>1, <3>3
      <4>. QED
        BY <3>2, <4>3, <4>4, CountsLess DEF Counted
    <3>4. CASE pid \notin Map
      <4>1. fd \notin ServersOn
        BY <1>4, <3>4 DEF ServersOn
      <4>. QED
        BY <2>1, <3>2, <3>4, <4>1 DEF Counted, Counts
    <3>. QED
      BY <3>3, <3>4
  <2>10. Counts(gCountPly', PlayersOn')
    <3>1. /\ PlayersOn = {p \in Player : vPid2Sid[p] # None}
          /\ PlayersOn' = {p \in Player : vPid2Sid'[p] # None}
      BY <1>1, <2>1 DEF PlayersOn
    <3>2. CASE pid \in Player
      <4>1. vPid2Sid[pid] # None
        BY <1>1, <1>2, <1>4, <2>3, <3>2 DEF Table, Of
      <4>2. PlayersOn' = PlayersOn \ {pid} /\ pid \in PlayersOn
        BY <2>5, <3>1, <3>2, <4>1
      <4>3. gCountPly' = gCountPly - 1
        BY <2>1, <3>2
      <4>. QED
        BY <4>2, <4>3, CountsLess DEF Counted
    <3>3. CASE pid \notin Player
      <4>1. PlayersOn' = PlayersOn
        BY <2>5, <3>1, <3>3
      <4>. QED
        BY <2>1, <3>3, <4>1 DEF Counted, Counts
    <3>. QED
      BY <3>2, <3>3
  <2>. QED
    BY <1>1, <2>7, <2>8, <2>9, <2>10 DEF Counted
<1>. QED
  BY <1>3, <1>4

LEMMA SignoutWipeCounts ==
  ASSUME Inv, Inv', Known, Ready, Counted, SignoutWipe
  PROVE  Ready' /\ Counted'
<1>. SUFFICES ASSUME NEW b, b = Head(exq), NEW sid, sid = b.sid, NEW fd, fd = FdOf(sid)
              PROVE  Ready' /\ Counted'
  OBVIOUS
<1>1. /\ UNCHANGED <<made, sn, open, polled, out, sent, gPlys, conn, certified, wq, vPid2Sid,
                     gCountSrv, gCountPly>>
      /\ exq # << >> /\ exq' = Tail(exq) /\ b.cmd = "SIGNOUT"
      /\ xpc = "wipe" /\ xpc' = "next"
      /\ vSess' = [vSess EXCEPT ![fd] = NoSess] /\ gCountSck' = gCountSck - 1
  BY DEF SignoutWipe, Head_is, worker, servers, history
<1>2. \A f : (Closing(f) <=> f = fd) /\ ~Closing(f)'
  BY <1>1 DEF Closing, Head_is
<1>3. get_sess(sid) /\ sid # None /\ sid \in SidOrNone /\ fd \in Fd
  <2>1. get_sess(sid) /\ b \in Commands
    BY <1>1, HeadType DEF Known, Closes, Head_is, Inv
  <2>. QED
    BY <1>1, <2>1, CommandFields, SidFd DEF get_sess
<1>4. vSess'[fd] = NoSess /\ \A f \in Fd \ {fd} : vSess'[f] = vSess[f]
  BY <1>1, <1>3 DEF Inv, TypeOK
<1>5. fd \notin polled
  BY <1>2, <1>3 DEF Known, Places, SessOK
<1>6. Handled
  BY <1>1, <1>2, <1>4, <1>5 DEF Handled
<1>7. NoSess.sid = None
  BY DEF NoSess
<1>8. Ready'
  <2>1. ServersStay
    BY <1>4, <1>7 DEF ServersStay
  <2>2. \A f \in Fd : \/ vSess'[f] = NoSess
                      \/ ~Closing(f) /\ vSess'[f] = vSess[f]
    BY <1>2, <1>4
  <2>. QED
    BY <1>1, <1>6, <2>1, <2>2, HandledReady
<1>9. ServersOn' = ServersOn
  <2>1. \A f \in Fd \ {fd} : Closing(f)' <=> Closing(f)
    BY <1>2
  <2>. QED
    BY <1>1, <1>2, <1>4, <1>6, <2>1, ServersKept
<1>10. Counts(gCountSck', Announced')
  <2>1. ~Holds(wq[fd], fd)
    BY <1>3, <1>7 DEF Inv, WaitingWiped, get_sess
  <2>2. Announced' = Announced \ {fd} /\ fd \in Announced
    BY <1>1, <1>3, <1>4, <1>7, <2>1 DEF Announced, get_sess
  <2>. QED
    BY <1>1, <2>2, CountsLess DEF Counted
<1>11. PlayersOn' = PlayersOn
  BY <1>1 DEF PlayersOn
<1>. QED
  BY <1>1, <1>8, <1>9, <1>10, <1>11 DEF Counted

LEMMA ExchangeCounts ==
  ASSUME Inv, Inv', Known, Table, Ready, Counted, Exchange
  PROVE  Ready' /\ Counted'
BY RouteCounts, ForwardCounts, SigninServerCounts, LateCounts, SigninKickCounts,
   SigninAssignCounts, SigninOnCounts, SignoutCloseCounts, SignoutWipeCounts, BroadcastCounts
   DEF Exchange

-----------------------------------------------------------------------------
LEMMA NextCounts ==
  ASSUME Inv, Inv', Known, Table, Ready, Counted, ~ToolUp, [Next]_vars
  PROVE  Ready' /\ Counted'
<1>1. ASSUME NEW fd \in Fd, Worker(fd) PROVE Ready' /\ Counted'
  <2>1. ASSUME DoConnect(fd) PROVE FALSE
    <3>. DEFINE Q == RoutedPackets \union NewConns
    <3>1. wq[fd] \in Seq(Q) /\ wq[fd] # << >> /\ Head(wq[fd]).cmd = "CONNECT"
      BY <2>1 DEF DoConnect, NextIs, Inv, TypeOK
    <3>. HIDE DEF Q
    <3>2. Head(wq[fd]) \in Items(wq[fd])
      BY <3>1, HeadIsItem
    <3>. QED
      BY <3>1, <3>2, NoConnect DEF Ready
  <2>. QED
    BY <1>1, <2>1, FlushCounts, DoIncomeCounts, SetMapIdCounts, ServerTurnCounts, GoneCounts
       DEF Worker
<1>2. ASSUME NEW fd \in Fd, Peer(fd) PROVE Ready' /\ Counted'
  <2>1. ASSUME NEW m \in Map, Accept(fd, "CLI", m) \/ Accept(fd, "SRV", m)
        PROVE  Ready' /\ Counted'
    BY <2>1, AcceptCounts
  <2>2. ASSUME NEW m \in Map, FirstPacket(fd, m) PROVE Ready' /\ Counted'
    BY <2>2, ClientTurnCounts
  <2>3. ~start_connect(fd)
    BY DEF start_connect
  <2>4. CASE ClientPacket(fd)
    <3>1. FirstPacket(fd, None) \/ ClientPacket(fd)
      BY <2>4
    <3>. QED
      BY <3>1, ClientTurnCounts
  <2>5. CASE ClientBreak(fd) \/ \E eof \in BOOLEAN : ToolBreak(fd, eof)
    BY <2>5, GoneCounts
  <2>6. ASSUME NEW n \in 1..Cardinality(Player), NEW to \in [1..n -> Player],
               ClientToPlayers(fd, to)
        PROVE  Ready' /\ Counted'
    <3>1. n \in Nat
      OBVIOUS
    <3>. QED
      BY <2>6, <3>1, ToPlayersCounts
  <2>. QED
    BY <1>2, <2>1, <2>2, <2>3, <2>4, <2>5, <2>6 DEF Peer
<1>3. ASSUME NEW fd \in Fd, Discard(fd) \/ ReachClient(fd) \/ ReachTool(fd)
      PROVE  Ready' /\ Counted'
  BY <1>3, ReachCounts
<1>4. CASE Exchange
  BY <1>4, ExchangeCounts
<1>5. ASSUME NEW m \in Map, Handle(m) PROVE Ready' /\ Counted'
  BY <1>5, HandleCounts
<1>6. ASSUME NEW m \in Map, Server(m) PROVE Ready' /\ Counted'
  BY <1>6, ServerCounts
<1>7. CASE UNCHANGED vars
  <2>1. /\ UNCHANGED <<out, exq, xpc, vSess, vPid2Sid, sent, certified, wq>>
        /\ UNCHANGED counts
    BY <1>7 DEF vars, worker, servers, history
  <2>2. Players /\ \A f \in Fd : Takes(f)
    BY <2>1 DEF Players, Takes
  <2>. QED
    BY <2>1, <2>2, SilentCounts
<1>. QED
  BY <1>1, <1>2, <1>3, <1>4, <1>5, <1>6, <1>7 DEF Next

LEMMA InitCounts == Init => Ready /\ Counted
<1>. SUFFICES ASSUME Init PROVE Ready /\ Counted
  OBVIOUS
<1>1. /\ exq = << >> /\ Items(exq) = {} /\ certified = {} /\ xpc = "next"
      /\ \A fd \in Fd : /\ out[fd] = << >> /\ wq[fd] = << >> /\ sent[fd] = << >>
                        /\ Items(out[fd]) = {} /\ Items(wq[fd]) = {}
  BY ItemsOfOne DEF Init
<1>2. \A fd \in Fd : vSess[fd].sid = None /\ vSess[fd].pid = None
  BY DEF Init, NoSess
<1>3. \A p \in Player : vPid2Sid[p] = None
  BY DEF Init, Pid
<1>4. NoTool /\ SigninsOK
  BY <1>1 DEF NoTool, SigninsOK
<1>5. InTurn
  BY <1>1, OrderedNone DEF InTurn
<1>6. \A fd \in Fd : MapOnce(fd)
  <2>1. OnlyFirst(<< >>)
    BY DEF OnlyFirst
  <2>. QED
    BY <1>1, <2>1 DEF MapOnce, SaysMap
<1>7. Announced = {} /\ ServersOn = {} /\ PlayersOn = {}
  BY <1>1, <1>2, <1>3, GateAssumption DEF Announced, Holds, ServersOn, PlayersOn
<1>8. gCountSck = 0 /\ gCountSrv = 0 /\ gCountPly = 0
  BY DEF Init
<1>. QED
  BY <1>4, <1>5, <1>6, <1>7, <1>8, FS_EmptySet DEF Ready, Counted, Counts

LEMMA AlwaysCounted ==
  ASSUME ~ToolUp
  PROVE  Spec => [](Inv /\ Known /\ Table /\ Ready /\ Counted)
<1>1. Init => Inv /\ Known /\ Table /\ Ready /\ Counted
  BY InitHolds, InitTable, InitCounts
<1>2. (Inv /\ Known /\ Table /\ Ready /\ Counted) /\ [Next]_vars
        => (Inv /\ Known /\ Table /\ Ready /\ Counted)'
  BY NextKeeps, NextTable, NextCounts
<1>. QED
  BY <1>1, <1>2, PTL DEF Spec

(* A player in the table has a session of its own, and no server has it.   *)
LEMMA PlayersApart ==
  ASSUME Inv, Known, Table, NEW p \in PlayersOn, NEW fd, fd = FdOf(vPid2Sid[p])
  PROVE  fd \in Announced \ ServersOn /\ vSess[fd].pid = p
<1>. SUFFICES ASSUME NEW sid, sid = vPid2Sid[p]
              PROVE  fd \in Announced \ ServersOn /\ vSess[fd].pid = p
  OBVIOUS
<1>1. p \in Player /\ sid # None /\ ~(xpc \in {"assign", "on"} /\ p = Head(exq).pid)
  BY DEF PlayersOn
<1>2. Live(sid) /\ sid \in SidOrNone /\ fd \in Fd
  BY <1>1, TableSids
<1>3. ~Closing(fd) /\ vSess[fd].sid = sid
  BY <1>2 DEF Live, get_sess
<1>4. vSess[fd].pid = p
  BY <1>1, <1>2, <1>3 DEF Table, Of
<1>5. p \notin Map
  BY <1>1, GateAssumption
<1>. QED
  BY <1>1, <1>2, <1>3, <1>4, <1>5 DEF Announced, ServersOn

(* The counters of the gate are what its table and its sessions say: the   *)
(* players counted are those in the table between two commands, and the    *)
(* servers and players signed in are at all times at most the connections  *)
(* counted, which is what status() checks, whatever the interleaving of    *)
(* accepts, signins, takeovers, moves and closes.                          *)
THEOREM CountsAgreeHolds ==
  ASSUME ~ToolUp
  PROVE  Spec => []CountsAgree
<1>1. ASSUME Inv, Known, Table, Counted PROVE CountsAgree
  <2>1. PlayersCounted
    <3>1. xpc = "next" => PlayersOn = {p \in Player : vPid2Sid[p] # None}
      BY DEF PlayersOn
    <3>. QED
      BY <1>1, <3>1 DEF PlayersCounted, Counted, Counts
  <2>2. CountsAddUp
    <3>. DEFINE rest == Announced \ ServersOn
                at == [p \in PlayersOn |-> FdOf(vPid2Sid[p])]
    <3>1. ServersOn \subseteq Announced
      BY <1>1, ServerSid DEF ServersOn, Announced
    <3>2. /\ IsFiniteSet(Announced) /\ gCountSck = Cardinality(Announced)
          /\ IsFiniteSet(ServersOn) /\ gCountSrv = Cardinality(ServersOn)
          /\ IsFiniteSet(PlayersOn) /\ gCountPly = Cardinality(PlayersOn)
      BY <1>1 DEF Counted, Counts
    <3>3. \A p \in PlayersOn : at[p] \in rest /\ vSess[at[p]].pid = p
      BY <1>1, PlayersApart
    <3>4. at \in Injection(PlayersOn, rest)
      BY <3>3 DEF Injection, IsInjective
    <3>. HIDE DEF at
    <3>5. ServersOn = Announced \intersect ServersOn
      BY <3>1
    <3>6. IsFiniteSet(rest) /\ Cardinality(rest) = gCountSck - gCountSrv
      BY <3>2, <3>5, FS_Difference
    <3>7. gCountPly <= Cardinality(rest)
      BY <3>2, <3>4, <3>6, FS_Injection
    <3>8. gCountSck \in Nat /\ gCountSrv \in Nat /\ gCountPly \in Nat
      BY <3>2, FS_CardinalityType
    <3>. QED
      BY <3>6, <3>7, <3>8 DEF CountsAddUp
  <2>. QED
    BY <2>1, <2>2 DEF CountsAgree
<1>. QED
  BY <1>1, AlwaysCounted, PTL

=============================================================================
