---------------------------- MODULE EGateProofs -----------------------------
(***************************************************************************)
(* For any descriptors, players, maps and number of connections: the gate  *)
(* keeps its types, and a new connection finds its session wiped           *)
(* (FreshSession), although the worker lets go of a descriptor, the        *)
(* exchange thread closes and wipes it and the kernel hands it out again   *)
(* in steps of their own.                                                  *)
(***************************************************************************)
EXTENDS EGate, SequenceTheorems, FiniteSetTheorems, TLAPS

(* What Emit and Say leave: the sequence of one key grows by a batch. *)
LEMMA GrowsType ==
  ASSUME NEW K, NEW S, NEW f \in [K -> Seq(S)], NEW k, NEW s \in Seq(S)
  PROVE  [f EXCEPT ![k] = @ \o s] \in [K -> Seq(S)]
<1>1. k \in K => f[k] \o s \in Seq(S)
  BY ConcatProperties
<1>. QED
  BY <1>1

(* What Took and Reads leave: the sequence of one key loses its head. *)
LEMMA ShrinksType ==
  ASSUME NEW K, NEW S, NEW f \in [K -> Seq(S)], NEW k \in K, f[k] # << >>
  PROVE  /\ Head(f[k]) \in S
         /\ [f EXCEPT ![k] = Tail(@)] \in [K -> Seq(S)]
<1>1. Head(f[k]) \in S /\ Tail(f[k]) \in Seq(S)
  BY HeadTailProperties
<1>. QED
  BY <1>1

(* A packet with contents of its type is a command. *)
LEMMA PacketType ==
  ASSUME NEW to \in PidOrNone, NEW type \in Type, NEW arg \in Arg,
         Carries(type, arg)
  PROVE  Packet(to, type, arg) \in Commands
BY DEF Packet, Commands, Packets

(* With a session it is something a peer may be sent. *)
LEMMA RoutedType ==
  ASSUME NEW sid \in SidOrNone, NEW to \in PidOrNone, NEW type \in Type,
         NEW arg \in Arg, Carries(type, arg)
  PROVE  Routed(sid, to, type, arg) \in RoutedPackets \union NewConns
BY DEF Routed, RoutedPackets

(* The other commands. *)
LEMMA CommandType ==
  ASSUME NEW sid \in SidOrNone
  PROVE  /\ Signout(sid) \in Commands
         /\ \A pid \in Map \union {PidTool} : SigninSrv(sid, pid) \in Commands
         /\ \A pid \in Player, map \in Map : SigninCli(sid, pid, map) \in Commands
         /\ \A map \in MapOrNone : SendAll(map) \in Commands
         /\ \A pids \in SUBSET Player : SendMul(pids) \in Commands
BY DEF Signout, SigninSrv, SigninCli, SendAll, SendMul, Commands

(* What a new connection says to the two threads. *)
LEMMA NewConnType ==
  ASSUME NEW fd \in Fd
  PROVE  /\ Income(fd, "CLI") \in NewConns
         /\ Income(fd, "SRV") \in NewConns
         /\ Connect(fd) \in NewConns
         /\ NewConns \subseteq Commands
BY DEF Income, Connect, NewConns, Commands

(* What a command's handler reads of it. *)
LEMMA CommandFields ==
  ASSUME NEW b \in Commands
  PROVE  /\ b.cmd \in {"INCOME", "CONNECT"} => b \in NewConns /\ b.fd \in Fd
         /\ b.cmd = "INCOME" => b.mode \in {"CLI", "SRV"}
         /\ b.cmd = "SIGNIN_SRV" => b.sid \in SidOrNone /\ b.pid \in Map \union {PidTool}
         /\ b.cmd = "SIGNIN_CLI" => b.sid \in SidOrNone /\ b.pid \in Player /\ b.map \in Map
         /\ b.cmd = "SIGNOUT" => b.sid \in SidOrNone
         /\ b.cmd = "PACKET" => /\ b.to \in PidOrNone /\ b.type \in Type
                                /\ b.arg \in Arg /\ Carries(b.type, b.arg)
BY DEF Commands, NewConns, Packets

(* And of what is on its way to a worker or a peer. *)
LEMMA QueuedFields ==
  ASSUME NEW b \in RoutedPackets \union NewConns
  PROVE  /\ b.cmd = "INCOME" => b.mode \in {"CLI", "SRV"}
         /\ b.cmd = "PACKET" => Carries(b.type, b.arg)
BY DEF NewConns, RoutedPackets

(* And of what a server writes. *)
LEMMA SaidFields ==
  ASSUME NEW r \in Said
  PROVE  /\ r.type = "SET_MAP_ID" => r.map \in Map
         /\ r.type = "SET_SRV_ID" => r.sid \in SidOrNone /\ r.map \in Map /\ r.pid \in Player
         /\ r.type = "TO" => /\ r.to \in PidOrNone /\ r.what \in Type
                             /\ r.arg \in Arg /\ Carries(r.what, r.arg)
         /\ r.type = "TO_MANY" => r.pids \in SUBSET Player
         /\ r.type = "ACK_TOOL" => r.to \in MapOrNone
BY DEF Said

(* The fields of a session. *)
LEMMA SessFields ==
  ASSUME TypeOK, NEW fd \in Fd
  PROVE  /\ vSess[fd].sid \in SidOrNone
         /\ vSess[fd].pid \in PidOrNone
         /\ vSess[fd].map \in MapOrNone
BY DEF TypeOK, Sess

(* Fields of a session are written. *)
LEMMA StateType ==
  ASSUME NEW f \in [Fd -> Sess], NEW fd, NEW state \in State
  PROVE  [f EXCEPT ![fd].state = state] \in [Fd -> Sess]
<1>1. \A s \in Sess : [s EXCEPT !.state = state] \in Sess
  BY DEF Sess
<1>. QED
  BY <1>1

LEMMA PidMapType ==
  ASSUME NEW f \in [Fd -> Sess], NEW fd, NEW pid \in PidOrNone, NEW map \in MapOrNone
  PROVE  /\ [f EXCEPT ![fd].map = map, ![fd].pid = pid] \in [Fd -> Sess]
         /\ [f EXCEPT ![fd].pid = pid, ![fd].map = map] \in [Fd -> Sess]
<1>1. \A s \in Sess : [s EXCEPT !.pid = pid] \in Sess /\ [s EXCEPT !.map = map] \in Sess
  BY DEF Sess
<1>2. \A g \in [Fd -> Sess] : /\ [g EXCEPT ![fd].pid = pid] \in [Fd -> Sess]
                              /\ [g EXCEPT ![fd].map = map] \in [Fd -> Sess]
  BY <1>1
<1>. QED
  BY <1>2

LEMMA NewSessType ==
  ASSUME NEW f \in [Fd -> Sess], NEW fd, NEW sid \in SidOrNone, NEW mode \in Mode,
         NEW state \in State
  PROVE  [f EXCEPT ![fd].sid = sid, ![fd].mode = mode, ![fd].state = state]
           \in [Fd -> Sess]
<1>1. \A s \in Sess : [s EXCEPT !.sid = sid] \in Sess /\ [s EXCEPT !.mode = mode] \in Sess
  BY DEF Sess
<1>2. \A g \in [Fd -> Sess] : /\ [g EXCEPT ![fd].sid = sid] \in [Fd -> Sess]
                              /\ [g EXCEPT ![fd].mode = mode] \in [Fd -> Sess]
  BY <1>1
<1>3. [f EXCEPT ![fd].sid = sid, ![fd].mode = mode] \in [Fd -> Sess]
  BY <1>2
<1>. QED
  BY <1>3, StateType

(* A batch of one or two commands. *)
LEMMA BatchType ==
  ASSUME NEW a \in Commands
  PROVE  /\ <<a>> \in Seq(Commands)
         /\ \A b \in Commands : <<a, b>> \in Seq(Commands)
OBVIOUS

LEMMA EmitType ==
  ASSUME TypeOK, NEW fd, NEW msgs \in Seq(Commands), Emit(fd, msgs)
  PROVE  out' \in [Fd -> Seq(Commands)]
BY GrowsType DEF Emit, TypeOK

LEMMA TookType ==
  ASSUME TypeOK, NEW fd \in Fd, wq[fd] # << >>, Took(fd)
  PROVE  /\ Head(wq[fd]) \in RoutedPackets \union NewConns
         /\ wq' \in [Fd -> Seq(RoutedPackets \union NewConns)]
<1>. DEFINE Queued == RoutedPackets \union NewConns
<1>1. wq \in [Fd -> Seq(Queued)] /\ wq' = [wq EXCEPT ![fd] = Tail(@)]
  BY DEF Took, TypeOK
<1>. HIDE DEF Queued
<1>2. Head(wq[fd]) \in Queued /\ wq' \in [Fd -> Seq(Queued)]
  BY <1>1, ShrinksType
<1>. QED
  BY <1>2 DEF Queued

-----------------------------------------------------------------------------
(* Connections. *)

LEMMA FlushType ==
  ASSUME TypeOK, NEW fd \in Fd, Flush(fd)
  PROVE  TypeOK'
<1>1. out[fd] \in Seq(Commands) /\ exq \in Seq(Commands)
  BY DEF TypeOK
<1>2. exq' \in Seq(Commands)
  BY <1>1, ConcatProperties DEF Flush
<1>3. out' \in [Fd -> Seq(Commands)]
  BY DEF Flush, TypeOK
<1>. QED
  BY <1>2, <1>3 DEF Flush, TypeOK, counts, servers, history

LEMMA AcceptType ==
  ASSUME TypeOK, NEW fd \in Fd, NEW mode \in {"CLI", "SRV"}, NEW m \in Map,
         Accept(fd, mode, m)
  PROVE  TypeOK'
<1>1. Income(fd, mode) \in Commands
  BY NewConnType
<1>2. out' \in [Fd -> Seq(Commands)]
  BY <1>1, BatchType, EmitType DEF Accept
<1>3. /\ sent' \in [Fd -> Seq(Said)]
      /\ srvFd' \in [Map -> Fd \union {None}]
  <2>1. CASE mode = "SRV"
    <3>1. [type |-> "SET_MAP_ID", map |-> m] \in Said
      BY DEF Said
    <3>2. <<[type |-> "SET_MAP_ID", map |-> m]>> \in Seq(Said)
      BY <3>1
    <3>3. sent' = [sent EXCEPT ![fd] = <<[type |-> "SET_MAP_ID", map |-> m]>>]
      BY <2>1 DEF Accept
    <3>4. sent' \in [Fd -> Seq(Said)]
      BY <3>2, <3>3 DEF TypeOK
    <3>5. srvFd' = [srvFd EXCEPT ![m] = fd]
      BY <2>1 DEF Accept
    <3>. QED
      BY <3>4, <3>5 DEF TypeOK
  <2>2. CASE mode # "SRV"
    <3>1. sent' = [sent EXCEPT ![fd] = << >>] /\ srvFd' = srvFd
      BY <2>2 DEF Accept
    <3>. QED
      BY <3>1 DEF TypeOK
  <2>. QED
    BY <2>1, <2>2
<1>4. made' \in 0..MaxConns /\ open' \in SUBSET Fd /\ conn' \in [Fd -> Nat]
  BY GateAssumption DEF Accept, TypeOK
<1>. QED
  BY <1>2, <1>3, <1>4 DEF Accept, TypeOK, counts

LEMMA ConnectType ==
  ASSUME TypeOK, NEW fd \in Fd, start_connect(fd)
  PROVE  TypeOK'
<1>1. exq' \in Seq(Commands)
  BY NewConnType DEF start_connect, TypeOK
<1>2. sent' \in [Fd -> Seq(Said)]
  BY DEF start_connect, TypeOK
<1>3. made' \in 0..MaxConns /\ open' \in SUBSET Fd /\ conn' \in [Fd -> Nat]
  BY GateAssumption DEF start_connect, TypeOK
<1>. QED
  BY <1>1, <1>2, <1>3 DEF start_connect, TypeOK, counts

LEMMA DoIncomeType ==
  ASSUME TypeOK, NEW fd \in Fd, DoIncome(fd)
  PROVE  TypeOK'
<1>1. /\ Head(wq[fd]) \in RoutedPackets \union NewConns
      /\ wq' \in [Fd -> Seq(RoutedPackets \union NewConns)]
  BY TookType DEF DoIncome, NextIs
<1>2. Head(wq[fd]).mode \in Mode
  BY <1>1, QueuedFields DEF DoIncome, NextIs, Mode
<1>3. sn + 1 \in Nat /\ <<sn + 1, fd>> \in SidOrNone
  BY DEF TypeOK, SidOrNone, Sid
<1>4. vSess' \in [Fd -> Sess]
  <2>. DEFINE mode == Head(wq[fd]).mode
              state == IF Encode /\ mode = "CLI" THEN "SHAKE" ELSE "NEW"
  <2>1. state \in State
    BY DEF State
  <2>2. vSess' = [vSess EXCEPT ![fd].sid = <<sn + 1, fd>>, ![fd].mode = mode,
                               ![fd].state = state]
    BY DEF DoIncome
  <2>3. vSess \in [Fd -> Sess]
    BY DEF TypeOK
  <2>. HIDE DEF mode, state
  <2>4. mode \in Mode
    BY <1>2 DEF mode
  <2>. QED
    BY <1>3, <2>1, <2>2, <2>3, <2>4, NewSessType
<1>. QED
  BY <1>1, <1>3, <1>4 DEF DoIncome, TypeOK, counts, servers, history

LEMMA DoConnectType ==
  ASSUME TypeOK, NEW fd \in Fd, DoConnect(fd)
  PROVE  TypeOK'
<1>. DEFINE sid == <<sn + 1, fd>>
<1>1. wq' \in [Fd -> Seq(RoutedPackets \union NewConns)]
  BY TookType DEF DoConnect, NextIs
<1>2. sn + 1 \in Nat /\ sid \in SidOrNone
  BY DEF TypeOK, SidOrNone, Sid
<1>3. vSess' \in [Fd -> Sess]
  <2>1. "TOOL" \in Mode /\ "ON" \in State
    BY DEF Mode, State
  <2>2. vSess \in [Fd -> Sess]
    BY DEF TypeOK
  <2>3. [vSess EXCEPT ![fd].sid = sid, ![fd].mode = "TOOL", ![fd].state = "ON"] \in [Fd -> Sess]
    BY <1>2, <2>1, <2>2, NewSessType
  <2>4. \A f \in [Fd -> Sess] : [f EXCEPT ![fd].pid = PidTool] \in [Fd -> Sess]
    BY DEF Sess, PidOrNone, Pid
  <2>5. vSess' = [vSess EXCEPT ![fd].sid = sid, ![fd].mode = "TOOL", ![fd].state = "ON",
                               ![fd].pid = PidTool]
    BY DEF DoConnect
  <2>. QED
    BY <2>3, <2>4, <2>5
<1>4. SigninSrv(sid, PidTool) \in Commands
  BY <1>2, CommandType
<1>5. out' \in [Fd -> Seq(Commands)]
  BY <1>4, BatchType, EmitType DEF DoConnect
<1>6. gSidTool' \in SidOrNone /\ polled' \in SUBSET Fd /\ sn' \in Nat
  BY <1>2 DEF DoConnect, TypeOK
<1>. QED
  BY <1>1, <1>3, <1>5, <1>6 DEF DoConnect, TypeOK, counts, servers, history

LEMMA ShakeType ==
  ASSUME TypeOK, NEW fd \in Fd, Shake(fd)
  PROVE  TypeOK'
<1>1. "NEW" \in State
  BY DEF State
<1>2. vSess' \in [Fd -> Sess]
  BY <1>1, StateType DEF Shake, TypeOK
<1>. QED
  BY <1>2 DEF Shake, TypeOK, worker, counts, servers, history

-----------------------------------------------------------------------------
(* A worker reads. *)

LEMMA TurnType ==
  ASSUME TypeOK, NEW fd \in Fd, NEW mode, Turn(fd, mode),
         vSess' \in [Fd -> Sess], polled' \in SUBSET Fd, gSidTool' \in SidOrNone,
         out' \in [Fd -> Seq(Commands)], sent' \in [Fd -> Seq(Said)]
  PROVE  TypeOK'
BY DEF Turn, TypeOK, counts

LEMMA BreakType ==
  ASSUME TypeOK, NEW fd \in Fd, break_sess(fd)
  PROVE  /\ vSess' \in [Fd -> Sess]
         /\ polled' \in SUBSET Fd
         /\ out' \in [Fd -> Seq(Commands)]
<1>. DEFINE s == vSess[fd]
            news == IF s.mode = "CLI" /\ s.pid # None
                    THEN <<Packet(s.map, "MSG_CLOSE", s.pid)>>
                    ELSE << >>
<1>1. "BREAK" \in State
  BY DEF State
<1>2. vSess' \in [Fd -> Sess]
  BY <1>1, StateType DEF break_sess, TypeOK
<1>3. polled' \in SUBSET Fd
  BY DEF break_sess, TypeOK
<1>4. Signout(s.sid) \in Commands
  BY SessFields, CommandType
<1>5. s.map \in PidOrNone
  BY SessFields DEF MapOrNone, PidOrNone, Pid
<1>6. Packet(s.map, "MSG_CLOSE", s.pid) \in Commands
  BY <1>5, SessFields, PacketType DEF Type, ForServer, Arg, Carries
<1>7. news \in Seq(Commands)
  BY <1>6, BatchType, EmptySeq
<1>8. <<Signout(s.sid)>> \o news \in Seq(Commands)
  BY <1>4, <1>7, BatchType, ConcatProperties
<1>9. Emit(fd, <<Signout(s.sid)>> \o news)
  BY DEF break_sess
<1>10. out' \in [Fd -> Seq(Commands)]
  BY <1>8, <1>9, EmitType
<1>. QED
  BY <1>2, <1>3, <1>10

LEMMA FirstPacketType ==
  ASSUME TypeOK, NEW fd \in Fd, NEW m \in Map, FirstPacket(fd, m)
  PROVE  TypeOK'
<1>1. CASE vSess[fd].pid = None /\ vSess[fd].state = "NEW"
  <2>1. "LOGIN" \in State
    BY DEF State
  <2>2. vSess' \in [Fd -> Sess]
    <3>1. vSess' = [vSess EXCEPT ![fd].state = "LOGIN"]
      BY <1>1 DEF FirstPacket
    <3>2. vSess \in [Fd -> Sess]
      BY DEF TypeOK
    <3>. QED
      BY <2>1, <3>1, <3>2, StateType
  <2>. DEFINE a == <<vSess[fd].sid, conn[fd]>>
  <2>3. a \in SidOrNone \X Nat
    BY SessFields DEF TypeOK
  <2>4. "FIRST_PACKET2" \in Type /\ a \in Arg /\ Carries("FIRST_PACKET2", a) /\ m \in PidOrNone
    BY <2>3 DEF Type, ForServer, Arg, Carries, PidOrNone, Pid
  <2>5. Packet(m, "FIRST_PACKET2", a) \in Commands
    BY <2>4, PacketType
  <2>6. Emit(fd, <<Packet(m, "FIRST_PACKET2", a)>>)
    BY <1>1 DEF FirstPacket
  <2>7. out' \in [Fd -> Seq(Commands)]
    BY <2>5, <2>6, BatchType, EmitType
  <2>8. polled' = polled /\ gSidTool' = gSidTool /\ sent' = sent /\ Turn(fd, "CLI")
    BY <1>1 DEF FirstPacket
  <2>. QED
    BY <2>2, <2>7, <2>8, TurnType DEF TypeOK
<1>2. CASE ~(vSess[fd].pid = None /\ vSess[fd].state = "NEW")
  <2>1. gSidTool' = gSidTool /\ sent' = sent /\ Turn(fd, "CLI") /\ break_sess(fd)
    BY <1>2 DEF FirstPacket
  <2>. QED
    BY <2>1, BreakType, TurnType DEF TypeOK
<1>. QED
  BY <1>1, <1>2

LEMMA ClientPacketType ==
  ASSUME TypeOK, NEW fd \in Fd, ClientPacket(fd)
  PROVE  TypeOK'
<1>1. CASE vSess[fd].state = "ON" /\ vSess[fd].pid # None
  <2>. DEFINE s == vSess[fd]
  <2>1. s.map \in PidOrNone
    BY SessFields DEF MapOrNone, PidOrNone, Pid
  <2>2. Packet(s.map, "REQUEST", s.pid) \in Commands
    BY <2>1, SessFields, PacketType DEF Type, ForServer, Arg, Carries
  <2>3. Emit(fd, <<Packet(s.map, "REQUEST", s.pid)>>)
    BY <1>1 DEF ClientPacket
  <2>4. out' \in [Fd -> Seq(Commands)]
    BY <2>2, <2>3, BatchType, EmitType
  <2>5. /\ vSess' = vSess /\ polled' = polled /\ gSidTool' = gSidTool /\ sent' = sent
        /\ Turn(fd, "CLI")
    BY <1>1 DEF ClientPacket
  <2>. QED
    BY <2>4, <2>5, TurnType DEF TypeOK
<1>2. CASE ~(vSess[fd].state = "ON" /\ vSess[fd].pid # None)
  <2>1. gSidTool' = gSidTool /\ sent' = sent /\ Turn(fd, "CLI") /\ break_sess(fd)
    BY <1>2 DEF ClientPacket
  <2>. QED
    BY <2>1, BreakType, TurnType DEF TypeOK
<1>. QED
  BY <1>1, <1>2

LEMMA ToPlayersType ==
  ASSUME TypeOK, NEW fd \in Fd, NEW n \in Nat, NEW to \in [1..n -> Player],
         ClientToPlayers(fd, to)
  PROVE  TypeOK'
<1>. DEFINE pid == vSess[fd].pid
            msgs == [i \in DOMAIN to |-> Packet(to[i], "P2P", pid)]
<1>1. "P2P" \in Type /\ pid \in Arg /\ Carries("P2P", pid)
  BY SessFields DEF Type, ForPlayer, Arg, Carries
<1>2. \A p \in Player : Packet(p, "P2P", pid) \in Commands
  BY <1>1, PacketType DEF PidOrNone, Pid
<1>3. msgs \in [1..n -> Commands]
  BY <1>2
<1>4. msgs \in Seq(Commands)
  BY <1>3
<1>5. Emit(fd, msgs)
  BY DEF ClientToPlayers
<1>. HIDE DEF msgs
<1>6. out' \in [Fd -> Seq(Commands)]
  BY <1>4, <1>5, EmitType
<1>7. /\ vSess' = vSess /\ polled' = polled /\ gSidTool' = gSidTool /\ sent' = sent
      /\ Turn(fd, "CLI")
  BY DEF ClientToPlayers
<1>. QED
  BY <1>6, <1>7, TurnType DEF TypeOK

LEMMA GoneType ==
  ASSUME TypeOK, NEW fd \in Fd,
         ClientBreak(fd) \/ SrvGone(fd) \/ \E eof \in BOOLEAN : ToolBreak(fd, eof)
  PROVE  TypeOK'
<1>1. break_sess(fd) /\ sent' = sent /\ \E mode : Turn(fd, mode)
  BY DEF ClientBreak, SrvGone, ToolBreak
<1>2. gSidTool' \in SidOrNone
  BY DEF ClientBreak, SrvGone, ToolBreak, TypeOK, SidOrNone
<1>. QED
  BY <1>1, <1>2, BreakType, TurnType DEF TypeOK

(* The packets of a map server. *)
LEMMA ReadsType ==
  ASSUME TypeOK, NEW fd \in Fd, NEW type, Reads(fd, type)
  PROVE  /\ Head(sent[fd]) \in Said /\ Head(sent[fd]).type = type
         /\ vSess' \in [Fd -> Sess] /\ out' \in [Fd -> Seq(Commands)] => TypeOK'
<1>1. sent \in [Fd -> Seq(Said)] /\ sent[fd] # << >> /\ sent' = [sent EXCEPT ![fd] = Tail(@)]
  BY DEF Reads, TypeOK
<1>2. Head(sent[fd]) \in Said /\ sent' \in [Fd -> Seq(Said)]
  BY <1>1, ShrinksType
<1>3. polled' \in SUBSET Fd /\ gSidTool' \in SidOrNone /\ Turn(fd, "SRV")
  BY DEF Reads, TypeOK
<1>. QED
  BY <1>2, <1>3, TurnType DEF Reads

LEMMA SetMapIdType ==
  ASSUME TypeOK, NEW fd \in Fd, SetMapId(fd)
  PROVE  TypeOK'
<1>. DEFINE m == Head(sent[fd]).map
<1>1. Reads(fd, "SET_MAP_ID")
  BY DEF SetMapId
<1>2. m \in Map
  BY <1>1, ReadsType, SaidFields
<1>3. vSess' \in [Fd -> Sess]
  <2>1. m \in PidOrNone /\ m \in MapOrNone /\ "ON" \in State
    BY <1>2 DEF PidOrNone, Pid, MapOrNone, State
  <2>2. vSess' = [vSess EXCEPT ![fd].map = m, ![fd].pid = m, ![fd].state = "ON"]
    BY DEF SetMapId
  <2>3. vSess \in [Fd -> Sess]
    BY DEF TypeOK
  <2>. HIDE DEF m
  <2>4. [vSess EXCEPT ![fd].map = m, ![fd].pid = m] \in [Fd -> Sess]
    BY <2>1, <2>3, PidMapType
  <2>. QED
    BY <2>1, <2>2, <2>4, StateType
<1>4. SigninSrv(vSess[fd].sid, m) \in Commands
  BY <1>2, SessFields, CommandType
<1>5. Emit(fd, <<SigninSrv(vSess[fd].sid, m)>>)
  BY DEF SetMapId
<1>6. out' \in [Fd -> Seq(Commands)]
  BY <1>4, <1>5, BatchType, EmitType
<1>. QED
  BY <1>1, <1>3, <1>6, ReadsType

LEMMA SetSrvIdType ==
  ASSUME TypeOK, NEW fd \in Fd, SetSrvId(fd)
  PROVE  TypeOK'
<1>. DEFINE r == Head(sent[fd])
<1>1. Reads(fd, "SET_SRV_ID") /\ vSess' = vSess /\ Emit(fd, <<SigninCli(r.sid, r.pid, r.map)>>)
  BY DEF SetSrvId
<1>2. r \in Said /\ r.type = "SET_SRV_ID"
  BY <1>1, ReadsType
<1>3. SigninCli(r.sid, r.pid, r.map) \in Commands
  BY <1>2, SaidFields, CommandType
<1>4. vSess' \in [Fd -> Sess] /\ out' \in [Fd -> Seq(Commands)]
  BY <1>1, <1>3, BatchType, EmitType DEF TypeOK
<1>. QED
  BY <1>1, <1>4, ReadsType

LEMMA ServerPacketType ==
  ASSUME TypeOK, NEW fd \in Fd, ServerPacket(fd)
  PROVE  TypeOK'
<1>. DEFINE r == Head(sent[fd])
<1>1. Reads(fd, "TO") /\ vSess' = vSess /\ Emit(fd, <<Packet(r.to, r.what, r.arg)>>)
  BY DEF ServerPacket
<1>2. r \in Said /\ r.type = "TO"
  BY <1>1, ReadsType
<1>3. Packet(r.to, r.what, r.arg) \in Commands
  BY <1>2, SaidFields, PacketType
<1>4. vSess' \in [Fd -> Sess] /\ out' \in [Fd -> Seq(Commands)]
  BY <1>1, <1>3, BatchType, EmitType DEF TypeOK
<1>. QED
  BY <1>1, <1>4, ReadsType

LEMMA ServerToAllType ==
  ASSUME TypeOK, NEW fd \in Fd, ServerToAll(fd)
  PROVE  TypeOK'
<1>. DEFINE r == Head(sent[fd])
<1>1. Reads(fd, "TO_ALL") /\ vSess' = vSess /\ Emit(fd, <<SendAll(vSess[fd].map)>>)
  BY DEF ServerToAll
<1>2. r \in Said /\ r.type = "TO_ALL"
  BY <1>1, ReadsType
<1>3. SendAll(vSess[fd].map) \in Commands
  BY SessFields, CommandType
<1>4. vSess' \in [Fd -> Sess] /\ out' \in [Fd -> Seq(Commands)]
  BY <1>1, <1>3, BatchType, EmitType DEF TypeOK
<1>. QED
  BY <1>1, <1>4, ReadsType

LEMMA ServerToManyType ==
  ASSUME TypeOK, NEW fd \in Fd, ServerToMany(fd)
  PROVE  TypeOK'
<1>. DEFINE r == Head(sent[fd])
<1>1. Reads(fd, "TO_MANY") /\ vSess' = vSess /\ Emit(fd, <<SendMul(r.pids)>>)
  BY DEF ServerToMany
<1>2. r \in Said /\ r.type = "TO_MANY"
  BY <1>1, ReadsType
<1>3. SendMul(r.pids) \in Commands
  BY <1>2, SaidFields, SessFields, CommandType
<1>4. vSess' \in [Fd -> Sess] /\ out' \in [Fd -> Seq(Commands)]
  BY <1>1, <1>3, BatchType, EmitType DEF TypeOK
<1>. QED
  BY <1>1, <1>4, ReadsType

LEMMA AskToolType ==
  ASSUME TypeOK, NEW fd \in Fd, AskTool(fd)
  PROVE  TypeOK'
<1>. DEFINE r == Head(sent[fd])
<1>1. Reads(fd, "QRY_TOOL") /\ vSess' = vSess /\ Emit(fd, <<Packet(PidTool, "QRY_TOOL", vSess[fd].map)>>)
  BY DEF AskTool
<1>2. r \in Said /\ r.type = "QRY_TOOL"
  BY <1>1, ReadsType
<1>3. Packet(PidTool, "QRY_TOOL", vSess[fd].map) \in Commands
  <2>. DEFINE map == vSess[fd].map
  <2>1. map \in MapOrNone /\ map \in Arg
    BY SessFields DEF Arg, MapOrNone, PidOrNone, Pid
  <2>2. "QRY_TOOL" \in Type /\ Carries("QRY_TOOL", map) /\ PidTool \in PidOrNone
    BY <2>1 DEF Type, Carries, PidOrNone, Pid
  <2>. QED
    BY <2>1, <2>2, PacketType
<1>4. vSess' \in [Fd -> Sess] /\ out' \in [Fd -> Seq(Commands)]
  BY <1>1, <1>3, BatchType, EmitType DEF TypeOK
<1>. QED
  BY <1>1, <1>4, ReadsType

LEMMA ServerToSockType ==
  ASSUME TypeOK, NEW fd \in Fd, ServerToSock(fd)
  PROVE  TypeOK'
BY ReadsType DEF ServerToSock, TypeOK

LEMMA ToolPacketType ==
  ASSUME TypeOK, NEW fd \in Fd, ToolPacket(fd)
  PROVE  TypeOK'
<1>. DEFINE r == Head(sent[fd])
<1>1. /\ sent \in [Fd -> Seq(Said)] /\ sent[fd] # << >>
      /\ sent' = [sent EXCEPT ![fd] = Tail(@)]
  BY DEF ToolPacket, TypeOK
<1>2. r \in Said /\ r.type = "ACK_TOOL" /\ sent' \in [Fd -> Seq(Said)]
  BY <1>1, ShrinksType DEF ToolPacket
<1>3. r.to \in PidOrNone
  BY <1>2, SaidFields DEF MapOrNone, PidOrNone, Pid
<1>4. Packet(r.to, "ACK_TOOL", None) \in Commands
  BY <1>3, PacketType DEF Type, ForServer, Arg, Carries, PidOrNone
<1>5. Emit(fd, <<Packet(r.to, "ACK_TOOL", None)>>)
  BY DEF ToolPacket
<1>6. out' \in [Fd -> Seq(Commands)]
  BY <1>4, <1>5, BatchType, EmitType
<1>7. vSess' = vSess /\ polled' = polled /\ gSidTool' = gSidTool /\ Turn(fd, "TOOL")
  BY DEF ToolPacket
<1>. QED
  BY <1>2, <1>6, <1>7, TurnType DEF TypeOK

-----------------------------------------------------------------------------
(* The exchange thread. *)

LEMMA HeadType ==
  ASSUME TypeOK, NEW cmd, Head_is(cmd)
  PROVE  Head(exq) \in Commands /\ Head(exq).cmd = cmd /\ Tail(exq) \in Seq(Commands)
BY HeadTailProperties DEF Head_is, TypeOK

LEMMA ExchangeType ==
  ASSUME TypeOK, UNCHANGED <<made, sn, polled, out, gSidTool, servers, conn>>,
         open' \in SUBSET Fd, vSess' \in [Fd -> Sess],
         exq' \in Seq(Commands), xpc' \in {"next", "assign", "on", "wipe"},
         wq' \in [Fd -> Seq(RoutedPackets \union NewConns)],
         vPid2Sid' \in [Pid -> SidOrNone],
         gCountSck' \in Int, gCountSrv' \in Int, gCountPly' \in Int
  PROVE  TypeOK'
BY DEF TypeOK, servers

(* A command that is handled in one step. *)
LEMMA HandlesType ==
  ASSUME TypeOK, NEW cmd, Handles(cmd), xpc' = xpc,
         vSess' \in [Fd -> Sess], wq' \in [Fd -> Seq(RoutedPackets \union NewConns)],
         vPid2Sid' \in [Pid -> SidOrNone],
         gCountSck' \in Int, gCountSrv' \in Int, gCountPly' \in Int
  PROVE  TypeOK'
<1>1. exq' \in Seq(Commands)
  BY HeadType DEF Handles
<1>2. UNCHANGED <<made, sn, polled, out, gSidTool, servers, conn>> /\ open' \in SUBSET Fd
  BY DEF Handles, worker, history, TypeOK
<1>3. xpc' \in {"next", "assign", "on", "wipe"}
  BY DEF TypeOK
<1>. QED
  BY <1>1, <1>2, <1>3, ExchangeType

LEMMA AppendType ==
  ASSUME TypeOK, NEW fd, NEW b \in RoutedPackets \union NewConns
  PROVE  [wq EXCEPT ![fd] = Append(@, b)] \in [Fd -> Seq(RoutedPackets \union NewConns)]
<1>. DEFINE Queued == RoutedPackets \union NewConns
<1>1. wq \in [Fd -> Seq(Queued)] /\ b \in Queued
  BY DEF TypeOK
<1>. HIDE DEF Queued
<1>2. fd \in Fd => Append(wq[fd], b) \in Seq(Queued)
  BY <1>1
<1>3. [wq EXCEPT ![fd] = Append(@, b)] \in [Fd -> Seq(Queued)]
  BY <1>1, <1>2
<1>. QED
  BY <1>3 DEF Queued

LEMMA SidFromPidType ==
  ASSUME TypeOK, NEW pid
  PROVE  sid_from_pid(pid) \in SidOrNone
BY DEF sid_from_pid, TypeOK, SidOrNone

LEMMA RouteType == TypeOK /\ Route => TypeOK'
<1>. SUFFICES ASSUME TypeOK, Route PROVE TypeOK'
  OBVIOUS
<1>. DEFINE b == Head(exq)
            sid == sid_from_pid(b.to)
            r == Routed(sid, b.to, b.type, b.arg)
<1>1. Handles("PACKET") /\ UNCHANGED <<vSess, xpc, vPid2Sid, counts>>
  BY DEF Route
<1>2. b \in Commands /\ b.cmd = "PACKET"
  BY <1>1, HeadType DEF Handles
<1>3. r \in RoutedPackets \union NewConns
  BY <1>2, CommandFields, SidFromPidType, RoutedType
<1>4. wq' = IF sid = None THEN wq ELSE [wq EXCEPT ![FdOf(sid)] = Append(@, r)]
  BY DEF Route
<1>. HIDE DEF r, sid
<1>5. wq' \in [Fd -> Seq(RoutedPackets \union NewConns)]
  BY <1>3, <1>4, AppendType DEF TypeOK
<1>. QED
  BY <1>1, <1>5, HandlesType DEF TypeOK, counts

LEMMA ForwardType == TypeOK /\ (ForwardIncome \/ ForwardConnect) => TypeOK'
<1>. SUFFICES ASSUME TypeOK, ForwardIncome \/ ForwardConnect PROVE TypeOK'
  OBVIOUS
<1>. DEFINE b == Head(exq)
<1>1. PICK cmd \in {"INCOME", "CONNECT"} : Handles(cmd)
  BY DEF ForwardIncome, ForwardConnect
<1>2. b \in Commands /\ b.cmd = cmd
  BY <1>1, HeadType DEF Handles
<1>3. b \in RoutedPackets \union NewConns
  BY <1>2, CommandFields
<1>4. /\ wq' = [wq EXCEPT ![b.fd] = Append(@, b)]
      /\ UNCHANGED <<vSess, xpc, vPid2Sid, gCountSrv, gCountPly>>
      /\ gCountSck' \in Int
  BY DEF ForwardIncome, ForwardConnect, counts, TypeOK
<1>5. wq' \in [Fd -> Seq(RoutedPackets \union NewConns)]
  BY <1>3, <1>4, AppendType
<1>. QED
  BY <1>1, <1>4, <1>5, HandlesType DEF TypeOK

LEMMA SigninServerType == TypeOK /\ SigninServer => TypeOK'
<1>. SUFFICES ASSUME TypeOK, SigninServer PROVE TypeOK'
  OBVIOUS
<1>. DEFINE b == Head(exq)
<1>1. Handles("SIGNIN_SRV") /\ UNCHANGED <<xpc, wq, gCountSck, gCountPly>>
  BY DEF SigninServer
<1>2. b.sid \in SidOrNone /\ b.pid \in Pid
  BY <1>1, HeadType, CommandFields DEF Handles, Pid
<1>3. CASE get_sess(b.sid)
  <2>1. /\ vSess' = [vSess EXCEPT ![FdOf(b.sid)].state = "ON"]
        /\ vPid2Sid' = [vPid2Sid EXCEPT ![b.pid] = b.sid]
        /\ gCountSrv' = gCountSrv + 1
    BY <1>3 DEF SigninServer, add_cli
  <2>2. "ON" \in State /\ vSess \in [Fd -> Sess]
    BY DEF State, TypeOK
  <2>3. vSess' \in [Fd -> Sess]
    BY <2>1, <2>2, StateType
  <2>4. vPid2Sid' \in [Pid -> SidOrNone] /\ gCountSrv' \in Int
    BY <1>2, <2>1 DEF TypeOK
  <2>. QED
    BY <1>1, <2>3, <2>4, HandlesType DEF TypeOK
<1>4. CASE ~get_sess(b.sid)
  <2>1. UNCHANGED <<vSess, vPid2Sid, gCountSrv>>
    BY <1>4 DEF SigninServer
  <2>. QED
    BY <1>1, <2>1, HandlesType DEF TypeOK
<1>. QED
  BY <1>3, <1>4

LEMMA SigninLateType == TypeOK /\ SigninLate => TypeOK'
BY HandlesType DEF SigninLate, TypeOK, counts

LEMMA SigninKickType == TypeOK /\ SigninKick => TypeOK'
<1>. SUFFICES ASSUME TypeOK, SigninKick PROVE TypeOK'
  OBVIOUS
<1>. DEFINE pid == Head(exq).pid
            tsid == sid_from_pid(pid)
            r == Routed(tsid, pid, "DUPLICATE", pid)
<1>1. /\ InSignin("next") /\ xpc' = "assign"
      /\ UNCHANGED <<exq, vPid2Sid, gCountSck, gCountSrv>>
  BY DEF SigninKick
<1>2. pid \in PidOrNone
  BY <1>1, HeadType, CommandFields DEF InSignin, PidOrNone, Pid
<1>3. r \in RoutedPackets \union NewConns
  BY <1>2, SidFromPidType, RoutedType DEF Type, ForPlayer, Arg, Carries
<1>4. /\ vSess' \in [Fd -> Sess] /\ gCountPly' \in Int
      /\ wq' \in [Fd -> Seq(RoutedPackets \union NewConns)]
  <2>1. CASE get_sess(tsid)
    <3>1. /\ vSess' = [vSess EXCEPT ![FdOf(tsid)].pid = None, ![FdOf(tsid)].map = None]
          /\ wq' = [wq EXCEPT ![FdOf(tsid)] = Append(@, r)]
          /\ gCountPly' = gCountPly - 1
      BY <2>1 DEF SigninKick, make_packet_fix
    <3>2. vSess \in [Fd -> Sess] /\ None \in PidOrNone /\ None \in MapOrNone
      BY DEF TypeOK, PidOrNone, MapOrNone
    <3>. HIDE DEF tsid, r
    <3>3. vSess' \in [Fd -> Sess]
      BY <3>1, <3>2, PidMapType
    <3>4. wq' \in [Fd -> Seq(RoutedPackets \union NewConns)]
      BY <1>3, <3>1, AppendType
    <3>. QED
      BY <3>1, <3>3, <3>4 DEF TypeOK
  <2>2. CASE ~get_sess(tsid)
    BY <2>2 DEF SigninKick, TypeOK
  <2>. QED
    BY <2>1, <2>2
<1>5. UNCHANGED <<made, sn, polled, out, gSidTool, servers, conn, open>>
  BY <1>1 DEF InSignin, worker, history
<1>. QED
  BY <1>1, <1>4, <1>5, ExchangeType DEF TypeOK

LEMMA SigninAssignType == TypeOK /\ SigninAssign => TypeOK'
<1>. SUFFICES ASSUME TypeOK, SigninAssign PROVE TypeOK'
  OBVIOUS
<1>. DEFINE b == Head(exq)
<1>1. /\ InSignin("assign") /\ xpc' = "on" /\ UNCHANGED <<exq, wq, vPid2Sid, counts>>
      /\ vSess' = [vSess EXCEPT ![FdOf(b.sid)].map = b.map, ![FdOf(b.sid)].pid = b.pid]
  BY DEF SigninAssign
<1>2. b.pid \in PidOrNone /\ b.map \in MapOrNone
  BY <1>1, HeadType, CommandFields DEF InSignin, PidOrNone, MapOrNone, Pid
<1>3. vSess' \in [Fd -> Sess]
  BY <1>1, <1>2, PidMapType DEF TypeOK
<1>4. UNCHANGED <<made, sn, polled, out, gSidTool, servers, conn, open>>
  BY <1>1 DEF InSignin, worker, history
<1>. QED
  BY <1>1, <1>3, <1>4, ExchangeType DEF TypeOK, counts

LEMMA SigninOnType == TypeOK /\ SigninOn => TypeOK'
<1>. SUFFICES ASSUME TypeOK, SigninOn PROVE TypeOK'
  OBVIOUS
<1>. DEFINE b == Head(exq)
<1>1. /\ InSignin("on") /\ xpc' = "next" /\ exq' = Tail(exq)
      /\ UNCHANGED <<wq, gCountSck, gCountSrv>> /\ gCountPly' = gCountPly + 1
      /\ vSess' = [vSess EXCEPT ![FdOf(b.sid)].state = "ON"]
      /\ vPid2Sid' = [vPid2Sid EXCEPT ![b.pid] = b.sid]
  BY DEF SigninOn, add_cli
<1>2. b.sid \in SidOrNone /\ exq' \in Seq(Commands)
  BY <1>1, HeadType, CommandFields DEF InSignin
<1>3. "ON" \in State
  BY DEF State
<1>4. vSess' \in [Fd -> Sess]
  BY <1>1, <1>3, StateType DEF TypeOK
<1>5. vPid2Sid \in [Pid -> SidOrNone] /\ gCountPly' \in Int
  BY <1>1 DEF TypeOK
<1>. HIDE DEF b
<1>7. vPid2Sid' \in [Pid -> SidOrNone]
  BY <1>1, <1>2, <1>5
<1>6. UNCHANGED <<made, sn, polled, out, gSidTool, servers, conn, open>>
  BY <1>1 DEF InSignin, worker, history
<1>. QED
  BY <1>1, <1>2, <1>4, <1>5, <1>6, <1>7, ExchangeType DEF TypeOK

LEMMA SignoutCloseType == TypeOK /\ SignoutClose => TypeOK'
<1>. SUFFICES ASSUME TypeOK, SignoutClose PROVE TypeOK'
  OBVIOUS
<1>. DEFINE sid == Head(exq).sid
            pid == vSess[FdOf(sid)].pid
<1>1. /\ Head_is("SIGNOUT")
      /\ UNCHANGED <<made, sn, polled, out, gSidTool, vSess, wq, gCountSck, servers, history>>
  BY DEF SignoutClose
<1>2. CASE get_sess(sid)
  <2>1. /\ vPid2Sid' = vPid2Sid \/ vPid2Sid' = [vPid2Sid EXCEPT ![pid] = None]
        /\ gCountSrv' = IF pid \in Map THEN gCountSrv - 1 ELSE gCountSrv
        /\ gCountPly' = IF pid \in Player THEN gCountPly - 1 ELSE gCountPly
        /\ open' = open \ {FdOf(sid)} /\ xpc' = "wipe" /\ exq' = exq
    BY <1>2 DEF SignoutClose, rem_cli
  <2>2. gCountSrv' \in Int /\ gCountPly' \in Int /\ open' \in SUBSET Fd
    BY <2>1 DEF TypeOK
  <2>3. vPid2Sid' \in [Pid -> SidOrNone]
    BY <2>1 DEF TypeOK, SidOrNone
  <2>. QED
    BY <1>1, <2>1, <2>2, <2>3, ExchangeType DEF TypeOK, history
<1>3. CASE ~get_sess(sid)
  <2>1. exq' = Tail(exq) /\ UNCHANGED <<open, xpc, vPid2Sid, gCountSrv, gCountPly>>
    BY <1>3 DEF SignoutClose
  <2>. QED
    BY <1>1, <2>1, HeadType, ExchangeType DEF TypeOK, history
<1>. QED
  BY <1>2, <1>3

LEMMA SignoutWipeType == TypeOK /\ SignoutWipe => TypeOK'
<1>. SUFFICES ASSUME TypeOK, SignoutWipe PROVE TypeOK'
  OBVIOUS
<1>1. NoSess \in Sess
  BY DEF NoSess, Sess, SidOrNone, PidOrNone, MapOrNone
<1>2. vSess' \in [Fd -> Sess]
  BY <1>1 DEF SignoutWipe, TypeOK
<1>3. exq' \in Seq(Commands) /\ gCountSck' \in Int
  BY HeadType DEF SignoutWipe, TypeOK
<1>4. /\ UNCHANGED <<made, sn, polled, out, gSidTool, servers, conn, open>>
      /\ UNCHANGED <<wq, vPid2Sid, gCountSrv, gCountPly>> /\ xpc' = "next"
  BY DEF SignoutWipe, worker, history
<1>. QED
  BY <1>2, <1>3, <1>4, ExchangeType DEF TypeOK

LEMMA CopiesType ==
  ASSUME TypeOK, NEW fds, Copies(fds, "NEWS")
  PROVE  wq' \in [Fd -> Seq(RoutedPackets \union NewConns)]
<1>. DEFINE Queued == RoutedPackets \union NewConns
<1>1. "NEWS" \in Type /\ None \in Arg /\ Carries("NEWS", None)
  BY DEF Type, ForPlayer, Arg, Carries, PidOrNone
<1>2. \A fd \in Fd : Routed(vSess[fd].sid, vSess[fd].pid, "NEWS", None) \in Queued
  BY <1>1, SessFields, RoutedType
<1>3. wq \in [Fd -> Seq(Queued)]
  BY DEF TypeOK
<1>. HIDE DEF Queued
<1>4. \A fd \in Fd : Append(wq[fd], Routed(vSess[fd].sid, vSess[fd].pid, "NEWS", None)) \in Seq(Queued)
  BY <1>2, <1>3
<1>5. wq' \in [Fd -> Seq(Queued)]
  BY <1>3, <1>4 DEF Copies
<1>. QED
  BY <1>5 DEF Queued

LEMMA BroadcastType == TypeOK /\ (SendAllCli \/ SendMulCli) => TypeOK'
<1>. SUFFICES ASSUME TypeOK, SendAllCli \/ SendMulCli PROVE TypeOK'
  OBVIOUS
<1>1. PICK cmd, fds : /\ Handles(cmd) /\ Copies(fds, "NEWS")
                      /\ UNCHANGED <<vSess, xpc, vPid2Sid, counts>>
  BY DEF SendAllCli, SendMulCli
<1>. QED
  BY <1>1, CopiesType, HandlesType DEF TypeOK, counts

-----------------------------------------------------------------------------
(* The peers. *)

LEMMA ArrivesType ==
  ASSUME TypeOK, NEW fd \in Fd, Arrives(fd),
         sent' \in [Fd -> Seq(Said)], srvFd' \in [Map -> Fd \union {None}],
         gPlys' \in [Map -> [Player -> Ply]]
  PROVE  TypeOK'
<1>1. wq' \in [Fd -> Seq(RoutedPackets \union NewConns)]
  BY TookType DEF Arrives, NextIs
<1>. QED
  BY <1>1 DEF Arrives, worker, counts, TypeOK

LEMMA ReachType ==
  ASSUME TypeOK, NEW fd \in Fd, Discard(fd) \/ ReachClient(fd) \/ ReachTool(fd)
  PROVE  TypeOK'
<1>1. CASE Discard(fd) \/ ReachClient(fd)
  BY <1>1, ArrivesType DEF Discard, ReachClient, servers, TypeOK
<1>2. CASE ReachTool(fd)
  <2>. DEFINE b == Head(wq[fd])
              r == [type |-> "ACK_TOOL", to |-> b.arg]
  <2>1. Arrives(fd) /\ b.type = "QRY_TOOL" /\ sent' = [sent EXCEPT ![fd] = Append(@, r)]
        /\ UNCHANGED <<srvFd, gPlys>>
    BY <1>2 DEF ReachTool
  <2>2. b \in RoutedPackets \union NewConns /\ b.cmd = "PACKET"
    BY <2>1, TookType DEF Arrives, NextIs
  <2>3. Carries("QRY_TOOL", b.arg)
    BY <2>1, <2>2, QueuedFields
  <2>4. b.arg \in MapOrNone
    BY <2>3 DEF Carries
  <2>. HIDE DEF b
  <2>5. r \in Said
    BY <2>4 DEF Said
  <2>. HIDE DEF r
  <2>6. sent' \in [Fd -> Seq(Said)]
    BY <2>1, <2>5 DEF TypeOK
  <2>. QED
    BY <2>1, <2>6, ArrivesType DEF TypeOK
<1>. QED
  BY <1>1, <1>2

(* A packet reaches map server m. *)
LEMMA ServerReached ==
  ASSUME TypeOK, NEW m \in Map, NEW type, ReachServer(m, type),
         sent' \in [Fd -> Seq(Said)], gPlys' \in [Map -> [Player -> Ply]]
  PROVE  TypeOK'
<1>1. srvFd[m] \in Fd /\ Arrives(srvFd[m]) /\ srvFd' = srvFd
  BY DEF ReachServer, TypeOK
<1>. QED
  BY <1>1, ArrivesType DEF TypeOK

LEMMA ServerArg ==
  ASSUME TypeOK, NEW m \in Map, NEW type, ReachServer(m, type)
  PROVE  Carries(type, Head(wq[srvFd[m]]).arg)
<1>1. srvFd[m] \in Fd /\ Arrives(srvFd[m]) /\ Head(wq[srvFd[m]]).type = type
  BY DEF ReachServer, TypeOK
<1>2. Head(wq[srvFd[m]]) \in RoutedPackets \union NewConns /\ Head(wq[srvFd[m]]).cmd = "PACKET"
  BY <1>1, TookType DEF Arrives, NextIs
<1>. QED
  BY <1>1, <1>2, QueuedFields

LEMMA SayType ==
  ASSUME TypeOK, NEW m \in Map, NEW msgs \in Seq(Said), Say(m, msgs)
  PROVE  sent' \in [Fd -> Seq(Said)]
BY GrowsType DEF Say, TypeOK

(* Handling a packet: what becomes of the record of one player, *)
LEMMA Became ==
  ASSUME TypeOK, NEW m \in Map, NEW p \in Player, NEW r \in Ply, Become(m, p, r)
  PROVE  /\ gPlys' \in [Map -> [Player -> Ply]]
         /\ \A k \in Map, q \in Player :
              gPlys'[k][q] = gPlys[k][q] \/ (k = m /\ q = p /\ gPlys'[k][q] = r)
BY DEF Become, TypeOK

LEMMA PlyType ==
  ASSUME TypeOK, NEW m \in Map, NEW p \in Player
  PROVE  /\ gPlys[m][p] \in Ply
         /\ gPlys[m][p].sockid \in SidOrNone
         /\ p \in Plys(m) => gPlys[m][p].map \in Map
         /\ Off(m, p) \in Ply /\ Off(m, p).sockid = gPlys[m][p].sockid
         /\ NoPly \in Ply /\ NoPly.sockid = None
<1>1. gPlys[m][p] \in Ply
  BY DEF TypeOK
<1>2. NoPly \in Ply /\ NoPly.sockid = None
  BY DEF NoPly, Ply, MapOrNone, SidOrNone
<1>. QED
  BY <1>1, <1>2 DEF Off, Plys, Ply, MapOrNone

(* and what is said, which is about session sid of player p at most. *)
WithSid == {"AGENT_LOGIN", "AGENT_MIGRATE", "MIGRATE_BACK"}
About(sid, p, r) ==
  \/ r.type = "TO_SCK"
  \/ r.type = "SET_SRV_ID" /\ r.sid = sid /\ r.pid = p
  \/ /\ r.type = "TO" /\ r.to \in Map /\ r.what \in Agents
     /\ r.what \in WithSid => r.arg[1] = p /\ r.arg[2] = sid
AllAbout(sid, p) == {r \in Said : About(sid, p, r)}
Told(m, sid, p) == sent' = sent \/ \E msgs \in Seq(AllAbout(sid, p)) : Say(m, msgs)

LEMMA ToAgent ==
  ASSUME NEW to \in Map, NEW what \in Agents, NEW arg \in Arg, Carries(what, arg),
         NEW sid, NEW p, what \in WithSid => arg[1] = p /\ arg[2] = sid
  PROVE  To(to, what, arg) \in AllAbout(sid, p)
<1>1. to \in PidOrNone /\ what \in Type
  BY DEF PidOrNone, Pid, Type, ForServer
<1>2. To(to, what, arg) \in Said
  BY <1>1 DEF To, Said
<1>3. About(sid, p, To(to, what, arg))
  BY DEF To, About
<1>. QED
  BY <1>2, <1>3 DEF AllAbout

(* The calls between map servers. *)
LEMMA AgentCalls ==
  ASSUME NEW to \in Map, NEW p \in Player, NEW sid \in SidOrNone
  PROVE  /\ \A q \in Player, s \in SidOrNone : \A x :
              To(to, "CROSS_BREAK", <<q, s>>) \in AllAbout(x, p)
         /\ To(to, "AGENT_LOGIN", <<p, sid>>) \in AllAbout(sid, p)
         /\ \A m \in Map : /\ To(to, "AGENT_MIGRATE", <<p, sid, m>>) \in AllAbout(sid, p)
                           /\ To(to, "MIGRATE_BACK", <<p, sid, m>>) \in AllAbout(sid, p)
                           /\ To(to, "MIGRATE_ACK", <<p, m>>) \in AllAbout(sid, p)
                           /\ To(to, "MIGRATE_BACK_ACK", <<p, m>>) \in AllAbout(sid, p)
         /\ SetSrv(sid, to, p) \in AllAbout(sid, p)
<1>1. \A q \in Player, s \in SidOrNone :
        <<q, s>> \in Arg /\ Carries("CROSS_BREAK", <<q, s>>) /\ Carries("AGENT_LOGIN", <<q, s>>)
  BY DEF Arg, Carries
<1>2. \A m \in Map : /\ <<p, sid, m>> \in Arg /\ <<p, m>> \in Arg
                     /\ Carries("AGENT_MIGRATE", <<p, sid, m>>)
                     /\ Carries("MIGRATE_BACK", <<p, sid, m>>)
                     /\ Carries("MIGRATE_ACK", <<p, m>>)
                     /\ Carries("MIGRATE_BACK_ACK", <<p, m>>)
  BY DEF Arg, Carries
<1>3. "CROSS_BREAK" \in Agents \ WithSid /\ "MIGRATE_ACK" \in Agents \ WithSid
      /\ "MIGRATE_BACK_ACK" \in Agents \ WithSid
      /\ {"AGENT_LOGIN", "AGENT_MIGRATE", "MIGRATE_BACK"} \subseteq Agents
  BY DEF Agents, WithSid
<1>4. \A q \in Player, s \in SidOrNone : \A x :
        To(to, "CROSS_BREAK", <<q, s>>) \in AllAbout(x, p)
  BY <1>1, <1>3, ToAgent
<1>5. To(to, "AGENT_LOGIN", <<p, sid>>) \in AllAbout(sid, p)
  BY <1>1, <1>3, ToAgent
<1>6. ASSUME NEW m \in Map
      PROVE  /\ To(to, "AGENT_MIGRATE", <<p, sid, m>>) \in AllAbout(sid, p)
             /\ To(to, "MIGRATE_BACK", <<p, sid, m>>) \in AllAbout(sid, p)
             /\ To(to, "MIGRATE_ACK", <<p, m>>) \in AllAbout(sid, p)
             /\ To(to, "MIGRATE_BACK_ACK", <<p, m>>) \in AllAbout(sid, p)
  BY <1>2, <1>3, ToAgent
<1>7. SetSrv(sid, to, p) \in AllAbout(sid, p)
  BY DEF SetSrv, Said, About, AllAbout
<1>. QED
  BY <1>4, <1>5, <1>6, <1>7

LEMMA HandOverAbout ==
  ASSUME TypeOK, NEW m \in Map, NEW p \in Player, NEW other \in Map
  PROVE  HandOver(m, p, other) \in Seq(AllAbout(gPlys[m][p].sockid, p))
<1>. DEFINE sid == gPlys[m][p].sockid
            S == AllAbout(sid, p)
            a == SetSrv(sid, other, p)
            b == To(other, "AGENT_LOGIN", <<p, sid>>)
<1>1. sid \in SidOrNone
  BY PlyType
<1>. HIDE DEF sid
<1>2. a \in S /\ b \in S
  BY <1>1, AgentCalls
<1>. HIDE DEF S, a, b
<1>3. <<a, b>> \in Seq(S)
  BY <1>2
<1>. QED
  BY <1>3 DEF HandOver, S, a, b, sid

(* The handlers that certify nobody. *)
Handles1(m) ==
  \/ Refuse(m) \/ Stranger(m) \/ OnBreak(m) \/ OnCrossServerBreak(m)
  \/ Request(m) \/ AckTool(m) \/ AgentLogin(m)
  \/ AgentMigrate(m) \/ AgentMigrateAck(m)
  \/ AgentMigrateBack(m) \/ AgentMigrateBackAck(m)

(* The sid of each record is as before, forgotten, or the one it is sent. *)
SidsFrom(m, type) ==
  \A k \in Map, q \in Player :
    \/ gPlys'[k][q].sockid \in {gPlys[k][q].sockid, None}
    \/ type \in WithSid /\ q = Gets(m)[1] /\ gPlys'[k][q].sockid = Gets(m)[2]

Shape(m) ==
  \E type, p, sid :
    /\ ReachServer(m, type) /\ certified' = certified
    /\ gPlys' \in [Map -> [Player -> Ply]]
    /\ Told(m, sid, p)
    /\ sid = None \/ (p \in Player /\ sid = gPlys[m][p].sockid)
    /\ SidsFrom(m, type)

LEMMA HandledShape ==
  ASSUME TypeOK, NEW m \in Map, Handles1(m)
  PROVE  Shape(m)
<1>1. ASSUME NEW type, NEW p, NEW sid, ReachServer(m, type), certified' = certified,
             gPlys' \in [Map -> [Player -> Ply]],
             Told(m, sid, p), sid = None \/ (p \in Player /\ sid = gPlys[m][p].sockid),
             SidsFrom(m, type)
      PROVE  Shape(m)
  BY <1>1 DEF Shape
<1>2. ASSUME NEW type, ReachServer(m, type), certified' = certified, gPlys' = gPlys,
             NEW p, NEW sid, Told(m, sid, p),
             sid = None \/ (p \in Player /\ sid = gPlys[m][p].sockid)
      PROVE  Shape(m)
  <2>1. SidsFrom(m, type) /\ gPlys' \in [Map -> [Player -> Ply]]
    BY <1>2 DEF SidsFrom, TypeOK
  <2>. QED
    BY <1>1, <1>2, <2>1
<1>3. ASSUME NEW type, ReachServer(m, type), certified' = certified,
             NEW p \in Player, NEW r \in Ply, Become(m, p, r),
             \/ r.sockid \in {gPlys[m][p].sockid, None}
             \/ type \in WithSid /\ p = Gets(m)[1] /\ r.sockid = Gets(m)[2],
             Told(m, gPlys[m][p].sockid, p)
      PROVE  Shape(m)
  <2>1. /\ gPlys' \in [Map -> [Player -> Ply]]
        /\ \A k \in Map, q \in Player :
             gPlys'[k][q] = gPlys[k][q] \/ (k = m /\ q = p /\ gPlys'[k][q] = r)
    BY <1>3, Became
  <2>2. SidsFrom(m, type)
    BY <1>3, <2>1 DEF SidsFrom
  <2>. QED
    BY <1>1, <1>3, <2>1, <2>2
<1>4. CASE Refuse(m)
  <2>. DEFINE S == AllAbout(None, None)
              r == [type |-> "TO_SCK"]
  <2>1. r \in S
    BY DEF AllAbout, About, Said
  <2>. HIDE DEF S, r
  <2>2. <<r>> \in Seq(S)
    BY <2>1
  <2>3. Told(m, None, None)
    BY <1>4, <2>2 DEF Refuse, Told, S, r
  <2>. QED
    BY <1>2, <1>4, <2>3 DEF Refuse
<1>5. CASE Stranger(m) \/ AckTool(m)
  <2>1. Told(m, None, None)
    BY <1>5 DEF Stranger, AckTool, Told
  <2>. QED
    BY <1>2, <1>5, <2>1 DEF Stranger, AckTool
<1>6. CASE OnBreak(m)
  <2>. DEFINE p == Gets(m)
              sid == gPlys[m][p].sockid
              S == AllAbout(sid, p)
              msgs == IF emap[p] = m THEN << >> ELSE <<CrossBreak(p, None)>>
  <2>1. /\ ReachServer(m, "MSG_CLOSE") /\ p \in Player /\ Become(m, p, Off(m, p))
        /\ Say(m, msgs) /\ certified' = certified
    BY <1>6 DEF OnBreak, Plys
  <2>. HIDE DEF p
  <2>2. CrossBreak(p, None) \in S
    BY <2>1, AgentCalls, PlyType, GateAssumption DEF CrossBreak, SidOrNone
  <2>. HIDE DEF S
  <2>3. msgs \in Seq(S)
    BY <2>2
  <2>. HIDE DEF msgs
  <2>4. Told(m, sid, p)
    BY <2>1, <2>3 DEF Told, S
  <2>. HIDE DEF sid
  <2>5. Off(m, p) \in Ply /\ Off(m, p).sockid = gPlys[m][p].sockid
    BY <2>1, PlyType
  <2>. QED
    BY <1>3, <2>1, <2>4, <2>5 DEF sid
<1>7. CASE OnCrossServerBreak(m)
  <2>. DEFINE p == Gets(m)[1]
              r == IF gPlys[m][p].sockid = Gets(m)[2] THEN Off(m, p) ELSE gPlys[m][p]
  <2>1. /\ ReachServer(m, "CROSS_BREAK") /\ p \in Player /\ Become(m, p, r)
        /\ sent' = sent /\ certified' = certified
    BY <1>7 DEF OnCrossServerBreak, Plys
  <2>. HIDE DEF p
  <2>2. r \in Ply /\ r.sockid = gPlys[m][p].sockid
    BY <2>1, PlyType
  <2>. HIDE DEF r
  <2>3. Told(m, gPlys[m][p].sockid, p)
    BY <2>1 DEF Told
  <2>. QED
    BY <1>3, <2>1, <2>2, <2>3
<1>8. CASE Request(m)
  <2>. DEFINE p == Gets(m)
              r == [gPlys[m][p] EXCEPT !.gid = TRUE, !.online = TRUE]
              sid == gPlys[m][p].sockid
              S == AllAbout(sid, p)
  <2>1. /\ ReachServer(m, "REQUEST") /\ p \in Player /\ Become(m, p, r)
        /\ certified' = certified
        /\ \/ sent' = sent
           \/ \E other \in Map : Say(m, <<To(other, "AGENT_MIGRATE", <<p, sid, m>>)>>)
    BY <1>8 DEF Request, Plys
  <2>. HIDE DEF p
  <2>2. gPlys[m][p] \in Ply /\ sid \in SidOrNone
    BY <2>1, PlyType
  <2>3. r \in Ply /\ r.sockid = gPlys[m][p].sockid
    BY <2>2 DEF Ply
  <2>. HIDE DEF r, sid
  <2>4. ASSUME NEW other \in Map, NEW q, q = To(other, "AGENT_MIGRATE", <<p, sid, m>>)
        PROVE  <<q>> \in Seq(S)
    <3>1. q \in S
      BY <2>1, <2>2, <2>4, AgentCalls
    <3>. HIDE DEF S
    <3>. QED
      BY <3>1
  <2>5. Told(m, sid, p)
    BY <2>1, <2>4 DEF Told
  <2>. QED
    BY <1>3, <2>1, <2>3, <2>5 DEF sid
<1>9. CASE AgentLogin(m)
  <2>. DEFINE a == Gets(m)
              p == a[1]
              r == [gPlys[m][p] EXCEPT !.gid = TRUE, !.sockid = a[2]]
  <2>1. /\ ReachServer(m, "AGENT_LOGIN") /\ p \in Player /\ Become(m, p, r)
        /\ sent' = sent /\ certified' = certified
    BY <1>9 DEF AgentLogin, Plys
  <2>2. a \in Player \X SidOrNone
    BY <2>1, ServerArg DEF Carries, Gets
  <2>3. gPlys[m][p] \in Ply
    BY <2>1, PlyType
  <2>. HIDE DEF a
  <2>4. r \in Ply /\ r.sockid = a[2]
    BY <2>2, <2>3 DEF Ply
  <2>. HIDE DEF r
  <2>5. Told(m, gPlys[m][p].sockid, p) /\ "AGENT_LOGIN" \in WithSid
    BY <2>1 DEF Told, WithSid
  <2>. QED
    BY <1>3, <2>1, <2>4, <2>5 DEF a
<1>10. CASE AgentMigrate(m) \/ AgentMigrateBack(m)
  <2>. DEFINE a == Gets(m)
              p == a[1]
              sid == gPlys[m][p].sockid
              S == AllAbout(sid, p)
  <2>1. PICK type \in {"AGENT_MIGRATE", "MIGRATE_BACK"},
             ack \in {"MIGRATE_ACK", "MIGRATE_BACK_ACK"}, b \in BOOLEAN :
          /\ ReachServer(m, type) /\ certified' = certified
          /\ \/ type = "AGENT_MIGRATE" /\ b = FALSE
                /\ Become(m, p, [map |-> m, sockid |-> a[2], gid |-> FALSE,
                                 online |-> gPlys[m][p].online])
             \/ Become(m, p, [NoPly EXCEPT !.map = m, !.sockid = a[2]])
          /\ Say(m, <<To(a[3], ack, <<p, m>>)>>)
    BY <1>10 DEF AgentMigrate, AgentMigrateBack
  <2>2. a \in Player \X SidOrNone \X Map
    BY <2>1, ServerArg DEF Carries, Gets
  <2>. HIDE DEF a
  <2>3. p \in Player /\ a[2] \in SidOrNone /\ a[3] \in Map
    BY <2>2
  <2>. HIDE DEF p
  <2>4. gPlys[m][p] \in Ply /\ sid \in SidOrNone
    BY <2>3, PlyType
  <2>5. PICK r \in Ply : Become(m, p, r) /\ r.sockid = a[2]
    <3>1. [map |-> m, sockid |-> a[2], gid |-> FALSE, online |-> gPlys[m][p].online] \in Ply
      BY <2>3, <2>4 DEF Ply, MapOrNone
    <3>2. /\ [NoPly EXCEPT !.map = m, !.sockid = a[2]] \in Ply
          /\ [NoPly EXCEPT !.map = m, !.sockid = a[2]].sockid = a[2]
      BY <2>3 DEF NoPly, Ply, MapOrNone
    <3>. QED
      BY <2>1, <3>1, <3>2
  <2>. HIDE DEF sid
  <2>6. ASSUME NEW q, q = To(a[3], ack, <<p, m>>)
        PROVE  <<q>> \in Seq(S)
    <3>1. q \in S
      BY <2>1, <2>3, <2>4, <2>6, AgentCalls
    <3>. HIDE DEF S
    <3>. QED
      BY <3>1
  <2>7. Told(m, sid, p)
    BY <2>1, <2>6 DEF Told
  <2>8. type \in WithSid
    BY DEF WithSid
  <2>. QED
    BY <1>3, <2>1, <2>3, <2>5, <2>7, <2>8 DEF sid, p, a
<1>11. CASE AgentMigrateAck(m) \/ AgentMigrateBackAck(m)
  <2>. DEFINE p == Gets(m)[1]
              other == Gets(m)[2]
              sid == gPlys[m][p].sockid
              S == AllAbout(sid, p)
              moved == [gPlys[m][p] EXCEPT !.map = other]
  <2>1. PICK type \in {"MIGRATE_ACK", "MIGRATE_BACK_ACK"}, r \in {moved, NoPly},
             msgs \in {HandOver(m, p, other), << >>} :
          /\ ReachServer(m, type) /\ certified' = certified /\ p \in Player
          /\ Say(m, msgs) /\ Become(m, p, r)
    BY <1>11 DEF AgentMigrateAck, AgentMigrateBackAck, Plys
  <2>2. Gets(m) \in Player \X Map
    BY <2>1, ServerArg DEF Carries, Gets
  <2>3. other \in Map
    BY <2>2
  <2>. HIDE DEF p, other
  <2>4. gPlys[m][p] \in Ply /\ NoPly \in Ply /\ NoPly.sockid = None
    BY <2>1, PlyType
  <2>5. moved \in Ply /\ moved.sockid = sid
    BY <2>3, <2>4 DEF Ply, MapOrNone
  <2>6. HandOver(m, p, other) \in Seq(S) /\ << >> \in Seq(S)
    BY <2>1, <2>3, HandOverAbout
  <2>. HIDE DEF S, moved
  <2>7. Told(m, sid, p)
    BY <2>1, <2>6 DEF Told, S
  <2>. QED
    BY <1>3, <2>1, <2>4, <2>5, <2>7 DEF sid
<1>. QED
  BY <1>4, <1>5, <1>6, <1>7, <1>8, <1>9, <1>10, <1>11 DEF Handles1

LEMMA OrdersType ==
  ASSUME NEW S \in SUBSET Player, NEW qs \in Orders(S)
  PROVE  qs \in Seq(S)
<1>1. Cardinality(S) \in Nat
  BY GateAssumption, FS_Subset, FS_CardinalityType
<1>. QED
  BY <1>1 DEF Orders

LEMMA CertifiedShape ==
  ASSUME TypeOK, NEW m \in Map, NEW p \in Player, Certify(m, p)
  PROVE  /\ ReachServer(m, "FIRST_PACKET2")
         /\ Gets(m) \in SidOrNone \X Nat
         /\ gPlys' \in [Map -> [Player -> Ply]]
         /\ certified' = certified \union {<<Gets(m)[2], p>>}
         /\ \E msgs \in Seq(AllAbout(Gets(m)[1], p)) : Say(m, msgs)
         /\ \A k \in Map, q \in Player :
              \/ gPlys'[k][q].sockid = gPlys[k][q].sockid
              \/ q = p /\ gPlys'[k][q].sockid = Gets(m)[1]
<1>. DEFINE sid == Gets(m)[1]
            at == gPlys[m][p].map
            broken == {q \in Plys(m) : /\ Account[q] = Account[p]
                                       /\ gPlys[m][q].gid /\ gPlys[m][q].online}
            S == AllAbout(sid, p)
            away == {q \in broken : emap[q] # m}
            cast(qs) == [i \in DOMAIN qs |-> CrossBreak(qs[i], gPlys[m][qs[i]].sockid)]
            new(q) == IF q = p THEN [map |-> at, sockid |-> sid, gid |-> TRUE,
                             online |-> at # m \/ (gPlys[m][p].online /\ p \notin broken)]
                      ELSE IF q \in broken THEN Off(m, q) ELSE gPlys[m][q]
            last == IF at = m THEN << >> ELSE <<To(at, "AGENT_LOGIN", <<p, sid>>)>>
<1>1. /\ ReachServer(m, "FIRST_PACKET2") /\ p \in Plys(m)
      /\ certified' = certified \union {<<Gets(m)[2], p>>}
      /\ gPlys' = [gPlys EXCEPT ![m] = [q \in Player |-> new(q)]]
  BY DEF Certify
<1>2. PICK qs \in Orders(away) : Say(m, cast(qs) \o <<SetSrv(sid, at, p)>> \o last)
  BY DEF Certify
<1>3. Gets(m) \in SidOrNone \X Nat
  BY <1>1, ServerArg DEF Carries, Gets
<1>4. sid \in SidOrNone /\ at \in Map
  BY <1>1, <1>3, PlyType
<1>. HIDE DEF sid, at
<1>5. qs \in Seq(away) /\ away \subseteq Player
  BY <1>2, OrdersType DEF Plys
<1>6. \A q \in Player : new(q) \in Ply /\ new(q).sockid \in {gPlys[m][q].sockid, sid}
                        /\ (q # p => new(q).sockid = gPlys[m][q].sockid)
  <2>1. [map |-> at, sockid |-> sid, gid |-> TRUE,
         online |-> at # m \/ (gPlys[m][p].online /\ p \notin broken)] \in Ply
    <3>1. gPlys[m][p].online \in BOOLEAN
      BY PlyType DEF Ply
    <3>. QED
      BY <1>4, <3>1 DEF Ply, MapOrNone
  <2>. QED
    BY <2>1, PlyType
<1>7. \A q \in away : CrossBreak(q, gPlys[m][q].sockid) \in S
  BY <1>5, PlyType, AgentCalls, GateAssumption, <1>4 DEF CrossBreak
<1>8. SetSrv(sid, at, p) \in S /\ To(at, "AGENT_LOGIN", <<p, sid>>) \in S
  BY <1>4, AgentCalls
<1>. HIDE DEF S, away, broken
<1>9. cast(qs) \in Seq(S)
  <2>1. Len(qs) \in Nat /\ DOMAIN qs = 1..Len(qs) /\ \A i \in 1..Len(qs) : qs[i] \in away
    BY <1>5
  <2>2. cast(qs) \in [1..Len(qs) -> S]
    BY <1>7, <2>1
  <2>. QED
    BY <2>1, <2>2
<1>10. <<SetSrv(sid, at, p)>> \in Seq(S) /\ last \in Seq(S)
  BY <1>8
<1>. HIDE DEF cast, last
<1>11. cast(qs) \o <<SetSrv(sid, at, p)>> \o last \in Seq(S)
  BY <1>9, <1>10, ConcatProperties
<1>12. /\ gPlys' \in [Map -> [Player -> Ply]]
       /\ \A k \in Map, q \in Player :
            gPlys'[k][q] = gPlys[k][q] \/ (k = m /\ gPlys'[k][q] = new(q))
  <2>. HIDE DEF new
  <2>. QED
    BY <1>1, <1>6 DEF TypeOK
<1>. HIDE DEF new
<1>13. \A k \in Map, q \in Player : \/ gPlys'[k][q].sockid = gPlys[k][q].sockid
                                    \/ q = p /\ gPlys'[k][q].sockid = sid
  BY <1>6, <1>12
<1>. QED
  BY <1>1, <1>2, <1>3, <1>11, <1>12, <1>13 DEF sid, S

LEMMA ToldType ==
  ASSUME TypeOK, NEW m \in Map, NEW sid, NEW p, Told(m, sid, p)
  PROVE  sent' \in [Fd -> Seq(Said)]
<1>1. ASSUME NEW msgs \in Seq(AllAbout(sid, p)), Say(m, msgs) PROVE sent' \in [Fd -> Seq(Said)]
  <2>1. msgs \in Seq(Said)
    BY SeqMonotonic DEF AllAbout
  <2>. QED
    BY <1>1, <2>1, SayType
<1>. QED
  BY <1>1 DEF Told, TypeOK

LEMMA HandleType ==
  ASSUME TypeOK, NEW m \in Map, Handle(m)
  PROVE  TypeOK'
<1>1. ASSUME NEW p \in Player, Certify(m, p) PROVE TypeOK'
  BY <1>1, CertifiedShape, ToldType, ServerReached DEF Told
<1>2. CASE Handles1(m)
  BY <1>2, HandledShape, ToldType, ServerReached DEF Shape
<1>. QED
  BY <1>1, <1>2 DEF Handle, Handles1

(* A map server speaks, or its connection ends. *)
LEMMA TalksType ==
  ASSUME TypeOK, NEW m \in Map, Talks(m), NEW msgs \in Seq(Said), Say(m, msgs),
         gPlys' \in [Map -> [Player -> Ply]]
  PROVE  TypeOK'
<1>1. sent' \in [Fd -> Seq(Said)]
  BY SayType
<1>. QED
  BY <1>1 DEF Talks, worker, counts, history, TypeOK

LEMMA ToType ==
  ASSUME NEW to \in PidOrNone, NEW what \in Type, NEW arg \in Arg, Carries(what, arg)
  PROVE  To(to, what, arg) \in Said
BY DEF To, Said

LEMMA MigrateBackShape ==
  ASSUME TypeOK, NEW m \in Map, NEW p \in Player, MigrateBack(m, p)
  PROVE  \E msgs \in Seq(AllAbout(gPlys[m][p].sockid, p)) : Say(m, msgs)
<1>. DEFINE sid == gPlys[m][p].sockid
            S == AllAbout(sid, p)
            r == To(emap[p], "MIGRATE_BACK", <<p, sid, m>>)
<1>1. sid \in SidOrNone /\ emap[p] \in Map
  BY PlyType, GateAssumption
<1>2. Say(m, <<r>>)
  BY DEF MigrateBack
<1>. HIDE DEF sid
<1>3. r \in S
  BY <1>1, AgentCalls
<1>. HIDE DEF S, r
<1>4. <<r>> \in Seq(S)
  BY <1>3
<1>. QED
  BY <1>2, <1>4 DEF S, sid

LEMMA ServerType ==
  ASSUME TypeOK, NEW m \in Map, Server(m)
  PROVE  TypeOK'
<1>1. CASE SrvDrop(m)
  BY <1>1 DEF SrvDrop, worker, counts, history, TypeOK
<1>2. ASSUME NEW p \in Player, Chatter(m, p) PROVE TypeOK'
  <2>1. PICK r \in {To(p, "NEWS", p), [type |-> "TO_ALL"],
                    [type |-> "TO_MANY", pids |-> {p}], [type |-> "QRY_TOOL"]} :
          Say(m, <<r>>)
    BY <1>2 DEF Chatter
  <2>2. To(p, "NEWS", p) \in Said
    BY ToType DEF Type, ForPlayer, Arg, Carries, PidOrNone, Pid
  <2>3. /\ [type |-> "TO_ALL"] \in Said /\ [type |-> "QRY_TOOL"] \in Said
        /\ [type |-> "TO_MANY", pids |-> {p}] \in Said
    BY DEF Said
  <2>4. <<r>> \in Seq(Said)
    BY <2>2, <2>3
  <2>5. Talks(m) /\ gPlys' \in [Map -> [Player -> Ply]]
    BY <1>2 DEF Chatter, Talks, TypeOK
  <2>. QED
    BY <2>1, <2>4, <2>5, TalksType
<1>3. ASSUME NEW p \in Player, MigrateBack(m, p) PROVE TypeOK'
  <2>1. PICK msgs \in Seq(AllAbout(gPlys[m][p].sockid, p)) : Say(m, msgs)
    BY <1>3, MigrateBackShape
  <2>2. msgs \in Seq(Said)
    BY SeqMonotonic DEF AllAbout
  <2>3. Talks(m) /\ gPlys' \in [Map -> [Player -> Ply]]
    BY <1>3 DEF MigrateBack, Talks, TypeOK
  <2>. QED
    BY <2>1, <2>2, <2>3, TalksType
<1>. QED
  BY <1>1, <1>2, <1>3 DEF Server

-----------------------------------------------------------------------------
LEMMA NextType == TypeOK /\ [Next]_vars => TypeOK'
<1>. SUFFICES ASSUME TypeOK, [Next]_vars PROVE TypeOK'
  OBVIOUS
<1>1. ASSUME NEW fd \in Fd, Worker(fd) PROVE TypeOK'
  BY <1>1, FlushType, DoIncomeType, DoConnectType, ShakeType, SetMapIdType, SetSrvIdType,
     ServerPacketType, ServerToAllType, ServerToManyType, AskToolType, ServerToSockType,
     ToolPacketType, GoneType DEF Worker
<1>2. ASSUME NEW fd \in Fd, Peer(fd) PROVE TypeOK'
  <2>1. ASSUME NEW m \in Map, Accept(fd, "CLI", m) \/ Accept(fd, "SRV", m) PROVE TypeOK'
    BY <2>1, AcceptType
  <2>2. ASSUME NEW m \in Map, FirstPacket(fd, m) PROVE TypeOK'
    BY <2>2, FirstPacketType
  <2>3. CASE start_connect(fd)
    BY <2>3, ConnectType
  <2>4. CASE ClientPacket(fd)
    BY <2>4, ClientPacketType
  <2>5. CASE ClientBreak(fd) \/ \E eof \in BOOLEAN : ToolBreak(fd, eof)
    BY <2>5, GoneType
  <2>6. ASSUME NEW n \in 1..Cardinality(Player), NEW to \in [1..n -> Player],
               ClientToPlayers(fd, to)
        PROVE  TypeOK'
    <3>1. n \in Nat
      OBVIOUS
    <3>. QED
      BY <2>6, <3>1, ToPlayersType
  <2>. QED
    BY <1>2, <2>1, <2>2, <2>3, <2>4, <2>5, <2>6 DEF Peer
<1>3. ASSUME NEW fd \in Fd, Discard(fd) \/ ReachClient(fd) \/ ReachTool(fd) PROVE TypeOK'
  BY <1>3, ReachType
<1>4. CASE Exchange
  BY <1>4, RouteType, ForwardType, SigninServerType, SigninLateType, SigninKickType,
     SigninAssignType, SigninOnType, SignoutCloseType, SignoutWipeType, BroadcastType
     DEF Exchange
<1>5. ASSUME NEW m \in Map, Handle(m) \/ Server(m) PROVE TypeOK'
  BY <1>5, HandleType, ServerType
<1>6. CASE UNCHANGED vars
  BY <1>6 DEF vars, worker, counts, servers, history, TypeOK
<1>. QED
  BY <1>1, <1>2, <1>3, <1>4, <1>5, <1>6 DEF Next

LEMMA InitType == Init => TypeOK
<1>1. NoSess \in Sess
  BY DEF NoSess, Sess, SidOrNone, PidOrNone, MapOrNone
<1>2. Init => gPlys \in [Map -> [Player -> Ply]]
  <2>1. \A at \in [Player -> Map], m \in Map, p \in Player :
          [NoPly EXCEPT !.map = at[p]] \in Ply /\ NoPly \in Ply
    BY DEF NoPly, Ply, SidOrNone, MapOrNone
  <2>2. \A at \in [Player -> Map] : Loaded(at) \in [Map -> [Player -> Ply]]
    BY <2>1 DEF Loaded
  <2>. QED
    BY <2>2 DEF Init
<1>. QED
  BY <1>1, <1>2, GateAssumption DEF Init, TypeOK, SidOrNone

(* Type correctness of the gate: no command or packet is ever without what *)
(* the code that handles it reads.                                         *)
THEOREM TypeCorrect == Spec => []TypeOK
BY InitType, NextType, PTL DEF Spec

-----------------------------------------------------------------------------
(* A new connection finds its session wiped. *)

Items(q) == {q[i] : i \in DOMAIN q}
NewCmds == {"INCOME", "CONNECT"}
IsNew(b, fd) == b.cmd \in NewCmds /\ b.fd = fd
Holds(q, fd) == \E b \in Items(q) : IsNew(b, fd)
Once(q, fd) == \A i, j \in DOMAIN q : IsNew(q[i], fd) /\ IsNew(q[j], fd) => i = j

Waiting(fd) == Holds(out[fd], fd) \/ Holds(exq, fd) \/ Holds(wq[fd], fd)

(* Between the close() and the memset of close_sess. *)
Closing(fd) ==
  /\ xpc = "wipe" /\ Head_is("SIGNOUT")
  /\ FdOf(Head(exq).sid) = fd

(* It waits in one place, *)
WaitsOnce ==
  \A fd \in Fd :
    /\ Once(out[fd], fd) /\ Once(exq, fd) /\ Once(wq[fd], fd)
    /\ ~(Holds(out[fd], fd) /\ Holds(exq, fd))
    /\ ~(Holds(out[fd], fd) /\ Holds(wq[fd], fd))
    /\ ~(Holds(exq, fd) /\ Holds(wq[fd], fd))

(* of its own descriptor, *)
OwnQueue ==
  \A fd \in Fd : \A b \in Items(out[fd]) \union Items(wq[fd]) :
    b.cmd \in NewCmds => b.fd = fd

(* which is open and not polled yet; *)
WaitingOpen ==
  /\ polled \subseteq open
  /\ \A fd \in Fd : Waiting(fd) => fd \in open \ polled

(* until then, and while the descriptor is closed, there is no session,    *)
(* unless close_sess is about to wipe it.                                  *)
WaitingWiped ==
  \A fd \in Fd :
    /\ Waiting(fd) \/ fd \notin open => vSess[fd] = NoSess \/ Closing(fd)
    /\ Holds(wq[fd], fd) => vSess[fd] = NoSess

(* A session's sid is that of its descriptor, and serials are not ahead.   *)
OwnSid ==
  \A fd \in Fd : vSess[fd].sid # None => FdOf(vSess[fd].sid) = fd /\ vSess[fd].sid[1] <= sn

(* A worker that signs a session out has let go of its descriptor.         *)
LetGo(b) ==
  b.cmd = "SIGNOUT" /\ b.sid # None =>
    /\ b.sid[1] <= sn
    /\ get_sess(b.sid) => FdOf(b.sid) \notin polled
Signouts ==
  /\ \A b \in Items(exq) : LetGo(b)
  /\ \A fd \in Fd : \A b \in Items(out[fd]) : LetGo(b)

(* The session that is signed in stays while it is. *)
SigninStays ==
  xpc \in {"assign", "on"} => Head_is("SIGNIN_CLI") /\ get_sess(Head(exq).sid)

Inv ==
  /\ TypeOK
  /\ WaitsOnce /\ OwnQueue /\ WaitingOpen /\ WaitingWiped /\ OwnSid /\ Signouts /\ SigninStays

-----------------------------------------------------------------------------
(* Sequences and their elements. *)

LEMMA ItemsConcat ==
  ASSUME NEW S, NEW q \in Seq(S), NEW r \in Seq(S)
  PROVE  Items(q \o r) = Items(q) \union Items(r)
<1>1. /\ q \o r \in Seq(S) /\ Len(q \o r) = Len(q) + Len(r)
      /\ \A i \in 1..Len(q) + Len(r) :
           (q \o r)[i] = IF i <= Len(q) THEN q[i] ELSE r[i - Len(q)]
  BY ConcatProperties
<1>2. DOMAIN q = 1..Len(q) /\ DOMAIN r = 1..Len(r) /\ DOMAIN (q \o r) = 1..Len(q) + Len(r)
      /\ Len(q) \in Nat /\ Len(r) \in Nat
  BY <1>1, LenProperties
<1>3. ASSUME NEW i \in DOMAIN q PROVE q[i] \in Items(q \o r)
  <2>1. i \in DOMAIN (q \o r) /\ (q \o r)[i] = q[i]
    BY <1>1, <1>2
  <2>. QED
    BY <2>1 DEF Items
<1>4. ASSUME NEW i \in DOMAIN r PROVE r[i] \in Items(q \o r)
  <2>1. i + Len(q) \in DOMAIN (q \o r) /\ (q \o r)[i + Len(q)] = r[i]
    BY <1>1, <1>2
  <2>. QED
    BY <2>1 DEF Items
<1>5. ASSUME NEW i \in DOMAIN (q \o r) PROVE (q \o r)[i] \in Items(q) \union Items(r)
  <2>1. CASE i <= Len(q)
    <3>1. i \in DOMAIN q /\ (q \o r)[i] = q[i]
      BY <1>1, <1>2, <2>1
    <3>. QED
      BY <3>1 DEF Items
  <2>2. CASE ~(i <= Len(q))
    <3>1. i - Len(q) \in DOMAIN r /\ (q \o r)[i] = r[i - Len(q)]
      BY <1>1, <1>2, <2>2
    <3>. QED
      BY <3>1 DEF Items
  <2>. QED
    BY <2>1, <2>2, <1>2
<1>. QED
  BY <1>3, <1>4, <1>5 DEF Items

LEMMA ItemsOfOne ==
  /\ Items(<< >>) = {}
  /\ \A b : Items(<<b>>) = {b}
BY DEF Items

LEMMA ItemsTail ==
  ASSUME NEW S, NEW q \in Seq(S), q # << >>
  PROVE  Items(q) = {Head(q)} \union Items(Tail(q))
<1>1. /\ Len(q) \in Nat /\ Len(q) > 0 /\ DOMAIN q = 1..Len(q) /\ Head(q) = q[1]
      /\ DOMAIN Tail(q) = 1..Len(q) - 1
      /\ \A i \in 1..Len(q) - 1 : Tail(q)[i] = q[i + 1]
  BY HeadTailProperties, LenProperties, EmptySeq
<1>2. ASSUME NEW i \in DOMAIN q PROVE q[i] \in {Head(q)} \union Items(Tail(q))
  <2>1. CASE i = 1
    BY <1>1, <2>1
  <2>2. CASE i # 1
    <3>1. i - 1 \in DOMAIN Tail(q) /\ Tail(q)[i - 1] = q[i]
      BY <1>1, <2>2
    <3>. QED
      BY <3>1 DEF Items
  <2>. QED
    BY <2>1, <2>2
<1>3. Head(q) \in Items(q)
  BY <1>1 DEF Items
<1>4. ASSUME NEW i \in DOMAIN Tail(q) PROVE Tail(q)[i] \in Items(q)
  <2>1. i + 1 \in DOMAIN q /\ Tail(q)[i] = q[i + 1]
    BY <1>1
  <2>. QED
    BY <2>1 DEF Items
<1>. QED
  BY <1>2, <1>3, <1>4 DEF Items

(* Two queues that do not both hold fd's message hold it once together. *)
LEMMA OnceConcat ==
  ASSUME NEW S, NEW q \in Seq(S), NEW r \in Seq(S), NEW fd,
         Once(q, fd), Once(r, fd), ~(Holds(q, fd) /\ Holds(r, fd))
  PROVE  Once(q \o r, fd)
<1>1. /\ DOMAIN q = 1..Len(q) /\ DOMAIN r = 1..Len(r) /\ DOMAIN (q \o r) = 1..Len(q) + Len(r)
      /\ Len(q) \in Nat /\ Len(r) \in Nat
      /\ \A i \in 1..Len(q) + Len(r) :
           (q \o r)[i] = IF i <= Len(q) THEN q[i] ELSE r[i - Len(q)]
  BY ConcatProperties, LenProperties
<1>2. SUFFICES ASSUME NEW i \in DOMAIN (q \o r), NEW j \in DOMAIN (q \o r),
                      IsNew((q \o r)[i], fd), IsNew((q \o r)[j], fd)
               PROVE  i = j
  BY DEF Once
<1>3. ASSUME NEW k \in DOMAIN (q \o r), IsNew((q \o r)[k], fd)
      PROVE  \/ k \in DOMAIN q /\ IsNew(q[k], fd) /\ Holds(q, fd)
             \/ k - Len(q) \in DOMAIN r /\ IsNew(r[k - Len(q)], fd) /\ Holds(r, fd) /\ k > Len(q)
  <2>1. CASE k <= Len(q)
    <3>1. k \in DOMAIN q /\ (q \o r)[k] = q[k]
      BY <1>1, <2>1
    <3>. QED
      BY <1>3, <3>1 DEF Holds, Items
  <2>2. CASE ~(k <= Len(q))
    <3>1. k - Len(q) \in DOMAIN r /\ (q \o r)[k] = r[k - Len(q)] /\ k > Len(q)
      BY <1>1, <2>2
    <3>. QED
      BY <1>3, <3>1 DEF Holds, Items
  <2>. QED
    BY <2>1, <2>2
<1>4. CASE Holds(q, fd)
  <2>1. i \in DOMAIN q /\ IsNew(q[i], fd) /\ j \in DOMAIN q /\ IsNew(q[j], fd)
    BY <1>2, <1>3, <1>4
  <2>. QED
    BY <2>1 DEF Once
<1>5. CASE ~Holds(q, fd)
  <2>1. /\ i - Len(q) \in DOMAIN r /\ IsNew(r[i - Len(q)], fd)
        /\ j - Len(q) \in DOMAIN r /\ IsNew(r[j - Len(q)], fd)
    BY <1>2, <1>3, <1>5
  <2>2. i - Len(q) = j - Len(q)
    BY <2>1 DEF Once
  <2>. QED
    BY <2>2, <1>1
<1>. QED
  BY <1>4, <1>5

LEMMA OnceTail ==
  ASSUME NEW S, NEW q \in Seq(S), q # << >>, NEW fd, Once(q, fd)
  PROVE  /\ Once(Tail(q), fd)
         /\ IsNew(Head(q), fd) => ~Holds(Tail(q), fd)
<1>1. /\ Len(q) \in Nat /\ Len(q) > 0 /\ DOMAIN q = 1..Len(q) /\ Head(q) = q[1]
      /\ DOMAIN Tail(q) = 1..Len(q) - 1
      /\ \A i \in 1..Len(q) - 1 : Tail(q)[i] = q[i + 1]
  BY HeadTailProperties, LenProperties, EmptySeq
<1>2. ASSUME NEW i \in DOMAIN Tail(q)
      PROVE  i + 1 \in DOMAIN q /\ Tail(q)[i] = q[i + 1] /\ i \in Int /\ i + 1 # 1
  BY <1>1
<1>3. Once(Tail(q), fd)
  <2>1. SUFFICES ASSUME NEW i \in DOMAIN Tail(q), NEW j \in DOMAIN Tail(q),
                        IsNew(Tail(q)[i], fd), IsNew(Tail(q)[j], fd)
                 PROVE  i = j
    BY DEF Once
  <2>2. i + 1 = j + 1
    BY <1>2, <2>1 DEF Once
  <2>. QED
    BY <2>2, <1>2
<1>4. ASSUME IsNew(Head(q), fd), NEW i \in DOMAIN Tail(q), IsNew(Tail(q)[i], fd)
      PROVE  FALSE
  <2>1. 1 \in DOMAIN q /\ IsNew(q[1], fd)
    BY <1>1, <1>4
  <2>. QED
    BY <1>2, <1>4, <2>1 DEF Once
<1>. QED
  BY <1>3, <1>4 DEF Holds, Items

LEMMA OnceNone ==
  ASSUME NEW q, NEW fd, ~Holds(q, fd)
  PROVE  Once(q, fd)
BY DEF Once, Holds, Items

LEMMA OnceOne ==
  \A b, fd : Once(<<b>>, fd)
BY DEF Once

(* One more message at the end of a queue. *)
LEMMA OneMoreItem ==
  ASSUME NEW S, NEW q \in Seq(S), NEW b, NEW f
  PROVE  /\ Items(Append(q, b)) = Items(q) \union {b}
         /\ Once(q, f) /\ ~(IsNew(b, f) /\ Holds(q, f)) => Once(Append(q, b), f)
<1>. DEFINE T == S \union {b}
            one == <<b>>
<1>1. q \in Seq(T) /\ one \in Seq(T) /\ b \in T
  BY SeqMonotonic
<1>2. Items(one) = {b} /\ Once(one, f)
  BY ItemsOfOne, OnceOne
<1>3. Holds(one, f) <=> IsNew(b, f)
  BY <1>2 DEF Holds
<1>. HIDE DEF T
<1>4. Append(q, b) = q \o one
  BY <1>1, AppendIsConcat
<1>. HIDE DEF one
<1>5. Items(q \o one) = Items(q) \union Items(one)
  BY <1>1, ItemsConcat
<1>6. Once(q, f) /\ ~(IsNew(b, f) /\ Holds(q, f)) => Once(q \o one, f)
  BY <1>1, <1>2, <1>3, OnceConcat
<1>. QED
  BY <1>2, <1>4, <1>5, <1>6

-----------------------------------------------------------------------------
(* A worker's turn on fd: it writes the session of fd, not its sid, and    *)
(* says nothing of new connections; a sid it signs out is that of fd,      *)
(* which it then no longer polls.                                          *)
Says(fd, msgs) ==
  \A b \in Items(msgs) : /\ b.cmd \notin NewCmds
                         /\ b.cmd = "SIGNOUT" => b.sid = vSess[fd].sid /\ fd \notin polled'

LEMMA TurnKeeps ==
  ASSUME Inv, TypeOK', NEW fd \in Fd, fd \in polled,
         UNCHANGED <<sn, open, exq, xpc, wq>>, polled' \subseteq polled,
         \A f \in Fd \ {fd} : vSess'[f] = vSess[f],
         vSess'[fd].sid = vSess[fd].sid,
         NEW S, NEW msgs \in Seq(S), out' = [out EXCEPT ![fd] = @ \o msgs],
         Says(fd, msgs)
  PROVE  Inv'
<1>. USE DEF Inv
<1>a. \A b \in Items(msgs) : b.cmd \notin NewCmds
  BY DEF Says
<1>b. \A b \in Items(msgs) : b.cmd = "SIGNOUT" => b.sid = vSess[fd].sid /\ fd \notin polled'
  BY DEF Says
<1>. DEFINE T == Commands \union S
<1>0. (\A f \in Fd : out[f] \in Seq(T)) /\ msgs \in Seq(T)
  <2>1. \A f \in Fd : out[f] \in Seq(Commands)
    BY DEF TypeOK
  <2>. QED
    BY <2>1, SeqMonotonic
<1>. HIDE DEF T
<1>1. out'[fd] = out[fd] \o msgs /\ \A f \in Fd \ {fd} : out'[f] = out[f]
  BY DEF TypeOK
<1>2. Items(out'[fd]) = Items(out[fd]) \union Items(msgs)
  <2>1. Items(out[fd] \o msgs) = Items(out[fd]) \union Items(msgs)
    BY <1>0, ItemsConcat
  <2>. QED
    BY <1>1, <2>1
<1>3. \A f, g \in Fd : Holds(out'[f], g) <=> Holds(out[f], g)
  BY <1>a, <1>1, <1>2 DEF Holds, IsNew
<1>4. \A g \in Fd : ~Holds(msgs, g) /\ Once(msgs, g)
  BY <1>a, OnceNone DEF Holds, IsNew
<1>5. \A f \in Fd : Once(out'[f], f)
  <2>1. Once(out[fd] \o msgs, fd)
    BY <1>0, <1>4, OnceConcat DEF WaitsOnce
  <2>. QED
    BY <1>1, <2>1 DEF WaitsOnce
<1>6. WaitsOnce'
  BY <1>3, <1>5 DEF WaitsOnce
<1>7. OwnQueue'
  BY <1>a, <1>1, <1>2 DEF OwnQueue
<1>8. \A g \in Fd : Waiting(g)' <=> Waiting(g)
  BY <1>3 DEF Waiting
<1>9. WaitingOpen'
  BY <1>8 DEF WaitingOpen
<1>10. ~Waiting(fd) /\ fd \in open
  BY DEF WaitingOpen
<1>11. \A g \in Fd : Closing(g)' <=> Closing(g)
  BY DEF Closing, Head_is
<1>12. WaitingWiped'
  BY <1>8, <1>10, <1>11 DEF WaitingWiped, Waiting
<1>13. \A f \in Fd : vSess'[f].sid = vSess[f].sid
  OBVIOUS
<1>14. OwnSid'
  BY <1>13 DEF OwnSid
<1>15. \A sid : sid # None /\ FdOf(sid) \in Fd => get_sess(sid)' = get_sess(sid)
  BY <1>13 DEF get_sess
<1>16. Signouts'
  <2>1. ASSUME NEW b, LetGo(b) PROVE LetGo(b)'
    <3>1. FdOf(b.sid) \in polled' => FdOf(b.sid) \in Fd
      BY DEF TypeOK
    <3>. QED
      BY <2>1, <3>1, <1>15 DEF LetGo
  <2>2. ASSUME NEW b \in Items(msgs) PROVE LetGo(b)'
    BY <1>b, <2>2 DEF LetGo, OwnSid
  <2>. QED
    BY <2>1, <2>2, <1>1, <1>2 DEF Signouts
<1>17. SigninStays'
  <2>1. SUFFICES ASSUME xpc \in {"assign", "on"}
                 PROVE  Head_is("SIGNIN_CLI") /\ get_sess(Head(exq).sid)'
    BY DEF SigninStays, Head_is
  <2>2. Head_is("SIGNIN_CLI") /\ get_sess(Head(exq).sid)
    BY <2>1 DEF SigninStays
  <2>3. FdOf(Head(exq).sid) \in Fd /\ Head(exq).sid # None
    BY <2>2, HeadType, CommandFields DEF get_sess, FdOf, SidOrNone, Sid
  <2>. QED
    BY <2>2, <2>3, <1>15
<1>. QED
  BY <1>6, <1>7, <1>9, <1>12, <1>14, <1>16, <1>17

(* What is sent on are packets. *)
PacketsOnly ==
  \A f \in Fd : /\ Items(wq[f]) \subseteq Items(wq'[f])
                /\ \A b \in Items(wq'[f]) \ Items(wq[f]) : b.cmd \notin NewCmds
                /\ Once(wq[f], f) => Once(wq'[f], f)

(* What is written are sessions that have a sid, which stays. *)
SidsStay ==
  \A f \in Fd : \/ vSess'[f] = vSess[f]
                \/ vSess[f].sid # None /\ vSess'[f].sid = vSess[f].sid

(* A step of the exchange thread that takes no new connection and closes   *)
(* nothing.                                                                *)
LEMMA ExchangeKeeps ==
  ASSUME Inv, TypeOK', UNCHANGED <<sn, open, polled, out>>,
         exq # << >>, Head(exq).cmd \notin NewCmds,
         exq' = exq \/ exq' = Tail(exq),
         xpc # "wipe", xpc' # "wipe",
         PacketsOnly,
         SidsStay,
         SigninStays'
  PROVE  Inv'
<1>. USE DEF Inv
<1>1. Items(exq) = {Head(exq)} \union Items(Tail(exq))
  BY ItemsTail DEF TypeOK
<1>2. Items(exq') \subseteq Items(exq)
  BY <1>1
<1>3. \A f \in Fd : /\ Holds(exq', f) <=> Holds(exq, f)
                    /\ Holds(wq'[f], f) <=> Holds(wq[f], f)
                    /\ Holds(out'[f], f) <=> Holds(out[f], f)
  BY <1>1 DEF Holds, IsNew, PacketsOnly
<1>4. \A f \in Fd : Once(exq, f) => Once(exq', f)
  <2>1. exq \in Seq(Commands)
    BY DEF TypeOK
  <2>2. \A f \in Fd : Once(exq, f) => Once(Tail(exq), f)
    BY <2>1, OnceTail
  <2>. QED
    BY <2>2
<1>5. WaitsOnce'
  BY <1>3, <1>4 DEF WaitsOnce, PacketsOnly
<1>6. OwnQueue'
  BY DEF OwnQueue, PacketsOnly
<1>7. \A g \in Fd : Waiting(g)' <=> Waiting(g)
  BY <1>3 DEF Waiting
<1>8. WaitingOpen'
  BY <1>7 DEF WaitingOpen
<1>9. \A g \in Fd : ~Closing(g) /\ ~Closing(g)'
  BY DEF Closing
<1>10. NoSess.sid = None
  BY DEF NoSess
<1>11. WaitingWiped'
  BY <1>3, <1>7, <1>9, <1>10 DEF WaitingWiped, SidsStay
<1>12. \A f \in Fd : vSess'[f].sid = vSess[f].sid
  BY DEF SidsStay
<1>13. OwnSid'
  BY <1>12 DEF OwnSid
<1>14. Signouts'
  <2>1. ASSUME NEW b, LetGo(b) PROVE LetGo(b)'
    <3>1. FdOf(b.sid) \in polled => FdOf(b.sid) \in Fd
      BY DEF TypeOK
    <3>. QED
      BY <2>1, <3>1, <1>12 DEF LetGo, get_sess
  <2>. QED
    BY <2>1, <1>2 DEF Signouts
<1>. QED
  BY <1>5, <1>6, <1>8, <1>11, <1>13, <1>14

(* A step that touches nothing of this but takes a packet from a queue. *)
LEMMA PeerKeeps ==
  ASSUME Inv, TypeOK', UNCHANGED <<sn, open, polled, out, exq, xpc, vSess>>,
         \A f \in Fd : wq'[f] = wq[f] \/ (/\ wq[f] # << >> /\ wq'[f] = Tail(wq[f])
                                          /\ Head(wq[f]).cmd = "PACKET")
  PROVE  Inv'
<1>. USE DEF Inv
<1>. DEFINE Queued == RoutedPackets \union NewConns
<1>1. \A f \in Fd : wq[f] \in Seq(Queued)
  BY DEF TypeOK
<1>. HIDE DEF Queued
<1>2. ASSUME NEW f \in Fd
      PROVE  /\ Items(wq'[f]) \subseteq Items(wq[f])
             /\ Holds(wq'[f], f) <=> Holds(wq[f], f)
             /\ Once(wq[f], f) => Once(wq'[f], f)
  <2>1. CASE wq'[f] = wq[f]
    BY <2>1
  <2>2. CASE wq[f] # << >> /\ wq'[f] = Tail(wq[f]) /\ Head(wq[f]).cmd = "PACKET"
    <3>1. Items(wq[f]) = {Head(wq[f])} \union Items(wq'[f])
      BY <1>1, <2>2, ItemsTail
    <3>2. Once(wq[f], f) => Once(wq'[f], f)
      BY <1>1, <2>2, OnceTail
    <3>. QED
      BY <2>2, <3>1, <3>2 DEF Holds, IsNew, NewCmds
  <2>. QED
    BY <2>1, <2>2
<1>3. WaitsOnce'
  BY <1>2 DEF WaitsOnce
<1>4. OwnQueue'
  BY <1>2 DEF OwnQueue
<1>5. \A g \in Fd : Waiting(g)' <=> Waiting(g)
  BY <1>2 DEF Waiting
<1>6. \A g \in Fd : Closing(g)' <=> Closing(g)
  BY DEF Closing, Head_is
<1>7. WaitingOpen' /\ WaitingWiped'
  BY <1>2, <1>5, <1>6 DEF WaitingOpen, WaitingWiped
<1>8. OwnSid' /\ SigninStays'
  BY DEF OwnSid, SigninStays, Head_is, get_sess
<1>9. Signouts'
  BY DEF Signouts, LetGo, get_sess
<1>. QED
  BY <1>3, <1>4, <1>7, <1>8, <1>9

-----------------------------------------------------------------------------
(* The turns of a worker. *)

Elsewhere == UNCHANGED <<sn, open, exq, xpc, wq>>

LEMMA BreakKeeps ==
  ASSUME Inv, TypeOK', NEW fd \in Fd, fd \in polled, break_sess(fd), Elsewhere
  PROVE  Inv'
<1>. DEFINE s == vSess[fd]
            close == Packet(s.map, "MSG_CLOSE", s.pid)
            news == IF s.mode = "CLI" /\ s.pid # None THEN <<close>> ELSE << >>
            S == {Signout(s.sid), close}
            msgs == <<Signout(s.sid)>> \o news
<1>1. /\ out' = [out EXCEPT ![fd] = @ \o msgs]
      /\ polled' = polled \ {fd}
      /\ vSess' = [vSess EXCEPT ![fd].state = "BREAK"]
  BY DEF break_sess, Emit
<1>2. <<Signout(s.sid)>> \in Seq(S) /\ news \in Seq(S)
  <2>. HIDE DEF close
  <2>1. <<Signout(s.sid)>> \in Seq(S) /\ <<close>> \in Seq(S) /\ << >> \in Seq(S)
    OBVIOUS
  <2>. QED
    BY <2>1
<1>3. Items(news) \subseteq {close}
  BY ItemsOfOne
<1>4. msgs \in Seq(S) /\ Items(msgs) \subseteq {Signout(s.sid), close}
  <2>. DEFINE first == <<Signout(s.sid)>>
  <2>1. Items(first) = {Signout(s.sid)}
    BY ItemsOfOne
  <2>. HIDE DEF S, news, first, close
  <2>2. first \in Seq(S) /\ news \in Seq(S)
    BY <1>2 DEF first
  <2>3. first \o news \in Seq(S) /\ Items(first \o news) = Items(first) \union Items(news)
    BY <2>2, ItemsConcat, ConcatProperties
  <2>. QED
    BY <1>3, <2>1, <2>3 DEF first
<1>5. /\ Signout(s.sid).cmd = "SIGNOUT" /\ Signout(s.sid).sid = s.sid
      /\ close.cmd = "PACKET"
  BY DEF Signout, Packet
<1>. HIDE DEF msgs, S, close
<1>6. Says(fd, msgs)
  BY <1>1, <1>4, <1>5 DEF NewCmds, Says
<1>7. vSess'[fd].sid = vSess[fd].sid /\ \A f \in Fd \ {fd} : vSess'[f] = vSess[f]
  BY <1>1 DEF Inv, TypeOK, Sess
<1>8. polled' \subseteq polled
  BY <1>1
<1>9. out' = [out EXCEPT ![fd] = @ \o msgs] /\ UNCHANGED <<sn, open, exq, xpc, wq>>
  BY <1>1 DEF Elsewhere
<1>. HIDE DEF s
<1>. QED
  BY <1>4, <1>6, <1>7, <1>8, <1>9, TurnKeeps

(* A worker says one thing that is not about a connection. *)
LEMMA SpeakKeeps ==
  ASSUME Inv, TypeOK', NEW fd \in Fd, fd \in polled, Elsewhere, polled' = polled,
         \A f \in Fd \ {fd} : vSess'[f] = vSess[f],
         vSess'[fd].sid = vSess[fd].sid,
         NEW b, Emit(fd, <<b>>), b.cmd \notin NewCmds \union {"SIGNOUT"}
  PROVE  Inv'
<1>1. out' = [out EXCEPT ![fd] = @ \o <<b>>] /\ <<b>> \in Seq({b})
  BY DEF Emit
<1>2. Items(<<b>>) = {b}
  BY ItemsOfOne
<1>3. Says(fd, <<b>>)
  BY <1>2 DEF Says
<1>. QED
  BY <1>1, <1>3, TurnKeeps DEF Elsewhere

LEMMA QuietKeeps ==
  ASSUME Inv, TypeOK', NEW fd \in Fd, fd \in polled, Elsewhere, polled' = polled, out' = out,
         \A f \in Fd \ {fd} : vSess'[f] = vSess[f],
         vSess'[fd].sid = vSess[fd].sid
  PROVE  Inv'
<1>1. << >> \in Seq(Commands) /\ Items(<< >>) = {}
  BY ItemsOfOne
<1>2. out[fd] \in Seq(Commands) /\ Says(fd, << >>)
  BY <1>1 DEF Inv, TypeOK, Says
<1>3. out' = [out EXCEPT ![fd] = @ \o << >>]
  BY <1>2, ConcatEmptySeq DEF Inv, TypeOK
<1>. QED
  BY <1>1, <1>2, <1>3, TurnKeeps DEF Elsewhere

LEMMA ClientTurnKeeps ==
  ASSUME Inv, TypeOK', NEW fd \in Fd,
         \/ Shake(fd) \/ ClientPacket(fd) \/ ClientBreak(fd)
         \/ \E m \in Map : FirstPacket(fd, m)
  PROVE  Inv'
<1>0. vSess \in [Fd -> Sess] /\ vSess[fd] \in Sess
  BY DEF Inv, TypeOK
<1>1. CASE Shake(fd)
  <2>1. vSess' = [vSess EXCEPT ![fd].state = "NEW"] /\ fd \in polled
    BY <1>1 DEF Shake
  <2>2. vSess'[fd].sid = vSess[fd].sid /\ \A f \in Fd \ {fd} : vSess'[f] = vSess[f]
    BY <1>0, <2>1 DEF Sess
  <2>3. Elsewhere /\ polled' = polled /\ out' = out
    BY <1>1 DEF Shake, Elsewhere, worker
  <2>. QED
    BY <2>1, <2>2, <2>3, QuietKeeps
<1>2. ASSUME NEW m \in Map, FirstPacket(fd, m) PROVE Inv'
  <2>1. Elsewhere /\ fd \in polled
    BY <1>2 DEF FirstPacket, Turn, Elsewhere
  <2>2. CASE vSess[fd].pid = None /\ vSess[fd].state = "NEW"
    <3>. DEFINE b == Packet(m, "FIRST_PACKET2", <<vSess[fd].sid, conn[fd]>>)
    <3>1. vSess' = [vSess EXCEPT ![fd].state = "LOGIN"] /\ Emit(fd, <<b>>) /\ polled' = polled
      BY <1>2, <2>2 DEF FirstPacket
    <3>2. vSess'[fd].sid = vSess[fd].sid /\ \A f \in Fd \ {fd} : vSess'[f] = vSess[f]
      BY <1>0, <3>1 DEF Sess
    <3>3. b.cmd \notin NewCmds \union {"SIGNOUT"}
      BY DEF Packet, NewCmds
    <3>. QED
      BY <2>1, <3>1, <3>2, <3>3, SpeakKeeps
  <2>3. CASE ~(vSess[fd].pid = None /\ vSess[fd].state = "NEW")
    <3>1. break_sess(fd)
      BY <1>2, <2>3 DEF FirstPacket
    <3>. QED
      BY <2>1, <3>1, BreakKeeps
  <2>. QED
    BY <2>2, <2>3
<1>3. CASE ClientPacket(fd)
  <2>1. Elsewhere /\ fd \in polled
    BY <1>3 DEF ClientPacket, Turn, Elsewhere
  <2>2. CASE vSess[fd].state = "ON" /\ vSess[fd].pid # None
    <3>. DEFINE b == Packet(vSess[fd].map, "REQUEST", vSess[fd].pid)
    <3>1. vSess' = vSess /\ Emit(fd, <<b>>) /\ polled' = polled
      BY <1>3, <2>2 DEF ClientPacket
    <3>2. b.cmd \notin NewCmds \union {"SIGNOUT"}
      BY DEF Packet, NewCmds
    <3>. QED
      BY <2>1, <3>1, <3>2, SpeakKeeps
  <2>3. CASE ~(vSess[fd].state = "ON" /\ vSess[fd].pid # None)
    <3>1. break_sess(fd)
      BY <1>3, <2>3 DEF ClientPacket
    <3>. QED
      BY <2>1, <3>1, BreakKeeps
  <2>. QED
    BY <2>2, <2>3
<1>4. CASE ClientBreak(fd)
  BY <1>4, BreakKeeps DEF ClientBreak, Turn, Elsewhere
<1>. QED
  BY <1>1, <1>2, <1>3, <1>4

LEMMA ToPlayersKeeps ==
  ASSUME Inv, TypeOK', NEW fd \in Fd, NEW n \in Nat, NEW to \in [1..n -> Player],
         ClientToPlayers(fd, to)
  PROVE  Inv'
<1>. DEFINE pid == vSess[fd].pid
            S == {Packet(p, "P2P", pid) : p \in Player}
            msgs == [i \in DOMAIN to |-> Packet(to[i], "P2P", pid)]
<1>1. /\ out' = [out EXCEPT ![fd] = @ \o msgs]
      /\ vSess' = vSess /\ polled' = polled /\ fd \in polled /\ Elsewhere
  BY DEF ClientToPlayers, Turn, Emit, Elsewhere
<1>2. msgs \in [1..n -> S]
  OBVIOUS
<1>3. msgs \in Seq(S)
  BY <1>2
<1>4. Items(msgs) \subseteq S
  BY <1>2 DEF Items
<1>5. \A b \in S : b.cmd \notin NewCmds /\ b.cmd # "SIGNOUT"
  BY DEF Packet, NewCmds
<1>. HIDE DEF msgs, S
<1>. QED
  BY <1>1, <1>3, <1>4, <1>5, TurnKeeps DEF Elsewhere, Says

LEMMA ServerTurnKeeps ==
  ASSUME Inv, TypeOK', NEW fd \in Fd,
         \/ SetMapId(fd) \/ SetSrvId(fd) \/ ServerPacket(fd) \/ ServerToAll(fd)
         \/ ServerToMany(fd) \/ AskTool(fd) \/ ServerToSock(fd) \/ SrvGone(fd)
  PROVE  Inv'
<1>. DEFINE r == Head(sent[fd])
<1>1. Elsewhere /\ fd \in polled
  BY DEF SetMapId, SetSrvId, ServerPacket, ServerToAll, ServerToMany, AskTool, ServerToSock,
         SrvGone, Reads, Turn, Elsewhere
<1>2. CASE SetMapId(fd)
  <2>. DEFINE b == SigninSrv(vSess[fd].sid, r.map)
  <2>1. /\ vSess' = [vSess EXCEPT ![fd].map = r.map, ![fd].pid = r.map, ![fd].state = "ON"]
        /\ Emit(fd, <<b>>) /\ polled' = polled
    BY <1>2 DEF SetMapId, Reads
  <2>2. vSess \in [Fd -> Sess] /\ vSess[fd] \in Sess
    BY DEF Inv, TypeOK
  <2>3. vSess'[fd].sid = vSess[fd].sid /\ \A f \in Fd \ {fd} : vSess'[f] = vSess[f]
    BY <2>1, <2>2 DEF Sess
  <2>4. b.cmd \notin NewCmds \union {"SIGNOUT"}
    BY DEF SigninSrv, NewCmds
  <2>. QED
    BY <1>1, <2>1, <2>3, <2>4, SpeakKeeps
<1>3. ASSUME NEW b, Emit(fd, <<b>>), vSess' = vSess, polled' = polled,
             b.cmd \notin NewCmds \union {"SIGNOUT"}
      PROVE  Inv'
  BY <1>1, <1>3, SpeakKeeps
<1>4. \A x, y, z : /\ SigninCli(x, y, z).cmd = "SIGNIN_CLI" /\ Packet(x, y, z).cmd = "PACKET"
                   /\ SendAll(x).cmd = "SEND_ALL" /\ SendMul(x).cmd = "SEND_MUL"
  BY DEF SigninCli, Packet, SendAll, SendMul
<1>5. CASE SetSrvId(fd)
  BY <1>3, <1>4, <1>5 DEF SetSrvId, Reads, NewCmds
<1>6. CASE ServerPacket(fd)
  BY <1>3, <1>4, <1>6 DEF ServerPacket, Reads, NewCmds
<1>7. CASE ServerToAll(fd)
  BY <1>3, <1>4, <1>7 DEF ServerToAll, Reads, NewCmds
<1>8. CASE ServerToMany(fd)
  BY <1>3, <1>4, <1>8 DEF ServerToMany, Reads, NewCmds
<1>9. CASE AskTool(fd)
  BY <1>3, <1>4, <1>9 DEF AskTool, Reads, NewCmds
<1>10. CASE ServerToSock(fd)
  BY <1>1, <1>10, QuietKeeps DEF ServerToSock, Reads
<1>11. CASE SrvGone(fd)
  BY <1>1, <1>11, BreakKeeps DEF SrvGone
<1>. QED
  BY <1>2, <1>5, <1>6, <1>7, <1>8, <1>9, <1>10, <1>11

LEMMA ToolTurnKeeps ==
  ASSUME Inv, TypeOK', NEW fd \in Fd,
         ToolPacket(fd) \/ \E eof \in BOOLEAN : ToolBreak(fd, eof)
  PROVE  Inv'
<1>1. Elsewhere /\ fd \in polled
  BY DEF ToolPacket, ToolBreak, Turn, Elsewhere
<1>2. CASE ToolPacket(fd)
  <2>. DEFINE b == Packet(Head(sent[fd]).to, "ACK_TOOL", None)
  <2>1. Emit(fd, <<b>>) /\ vSess' = vSess /\ polled' = polled
    BY <1>2 DEF ToolPacket
  <2>2. b.cmd \notin NewCmds \union {"SIGNOUT"}
    BY DEF Packet, NewCmds
  <2>. QED
    BY <1>1, <2>1, <2>2, SpeakKeeps
<1>3. CASE \E eof \in BOOLEAN : ToolBreak(fd, eof)
  BY <1>1, <1>3, BreakKeeps DEF ToolBreak
<1>. QED
  BY <1>2, <1>3

-----------------------------------------------------------------------------
(* The exchange thread. *)

LEMMA OneMore ==
  ASSUME Inv, NEW fd, NEW b, b.cmd \notin NewCmds,
         wq' = [wq EXCEPT ![fd] = Append(@, b)]
  PROVE  PacketsOnly
<1>. DEFINE Q == RoutedPackets \union NewConns
<1>1. \A f \in Fd : wq[f] \in Seq(Q) /\ (wq'[f] = wq[f] \/ wq'[f] = Append(wq[f], b))
  BY DEF Inv, TypeOK
<1>. HIDE DEF Q
<1>2. \A f \in Fd : /\ Items(Append(wq[f], b)) = Items(wq[f]) \union {b}
                    /\ Once(wq[f], f) => Once(Append(wq[f], b), f)
  BY <1>1, OneMoreItem DEF IsNew
<1>. QED
  BY <1>1, <1>2 DEF PacketsOnly

LEMMA NoneMore ==
  ASSUME wq' = wq
  PROVE  PacketsOnly
BY DEF PacketsOnly

(* A command that is handled in one step and writes no session but those   *)
(* it is given.                                                            *)
LEMMA HandlesKeeps ==
  ASSUME Inv, TypeOK', NEW cmd, cmd \notin NewCmds, Handles(cmd), xpc' = xpc,
         PacketsOnly,
         SidsStay
  PROVE  Inv'
<1>1. /\ exq # << >> /\ Head(exq).cmd \notin NewCmds /\ exq' = Tail(exq)
      /\ xpc # "wipe" /\ xpc' # "wipe"
      /\ UNCHANGED <<sn, open, polled, out>>
  BY DEF Handles, Head_is, worker
<1>2. SigninStays'
  BY DEF SigninStays, Handles
<1>. QED
  BY <1>1, <1>2, ExchangeKeeps

LEMMA RouteKeeps == Inv /\ TypeOK' /\ Route => Inv'
<1>. SUFFICES ASSUME Inv, TypeOK', Route PROVE Inv'
  OBVIOUS
<1>. DEFINE b == Head(exq)
            sid == sid_from_pid(b.to)
            r == Routed(sid, b.to, b.type, b.arg)
<1>1. /\ Handles("PACKET") /\ vSess' = vSess /\ xpc' = xpc
      /\ wq' = IF sid = None THEN wq ELSE [wq EXCEPT ![FdOf(sid)] = Append(@, r)]
  BY DEF Route
<1>2. r.cmd \notin NewCmds /\ "PACKET" \notin NewCmds
  BY DEF Routed, NewCmds
<1>. HIDE DEF r, sid
<1>3. PacketsOnly
  <2>1. CASE sid = None
    BY <1>1, <2>1, NoneMore
  <2>2. CASE sid # None
    <3>1. wq' = [wq EXCEPT ![FdOf(sid)] = Append(@, r)]
      BY <1>1, <2>2
    <3>. QED
      BY <1>2, <3>1, OneMore
  <2>. QED
    BY <2>1, <2>2
<1>. QED
  BY <1>1, <1>2, <1>3, HandlesKeeps DEF SidsStay

LEMMA SigninServerKeeps == Inv /\ TypeOK' /\ SigninServer => Inv'
<1>. SUFFICES ASSUME Inv, TypeOK', SigninServer PROVE Inv'
  OBVIOUS
<1>. DEFINE b == Head(exq)
<1>1. Handles("SIGNIN_SRV") /\ wq' = wq /\ xpc' = xpc /\ "SIGNIN_SRV" \notin NewCmds
  BY DEF SigninServer, NewCmds
<1>2. vSess \in [Fd -> Sess]
  BY DEF Inv, TypeOK
<1>3. SidsStay
  <2>1. CASE get_sess(b.sid)
    <3>1. vSess' = [vSess EXCEPT ![FdOf(b.sid)].state = "ON"]
      BY <2>1 DEF SigninServer
    <3>2. vSess[FdOf(b.sid)].sid # None
      BY <2>1 DEF get_sess
    <3>. QED
      BY <1>2, <3>1, <3>2 DEF Sess, SidsStay
  <2>2. CASE ~get_sess(b.sid)
    BY <2>2 DEF SigninServer, SidsStay
  <2>. QED
    BY <2>1, <2>2
<1>. QED
  BY <1>1, <1>3, NoneMore, HandlesKeeps

LEMMA CopiesKeep ==
  ASSUME Inv, NEW fds, Copies(fds, "NEWS")
  PROVE  PacketsOnly
<1>. DEFINE Q == RoutedPackets \union NewConns
<1>1. \A f \in Fd : wq[f] \in Seq(Q)
  BY DEF Inv, TypeOK
<1>2. \A f \in Fd : \E b : /\ b.cmd \notin NewCmds
                           /\ wq'[f] = wq[f] \/ wq'[f] = Append(wq[f], b)
  BY DEF Copies, Routed, NewCmds
<1>. HIDE DEF Q
<1>3. ASSUME NEW f \in Fd
      PROVE  /\ Items(wq[f]) \subseteq Items(wq'[f])
             /\ \A b \in Items(wq'[f]) \ Items(wq[f]) : b.cmd \notin NewCmds
             /\ Once(wq[f], f) => Once(wq'[f], f)
  <2>1. PICK b : b.cmd \notin NewCmds /\ (wq'[f] = wq[f] \/ wq'[f] = Append(wq[f], b))
    BY <1>2
  <2>2. /\ Items(Append(wq[f], b)) = Items(wq[f]) \union {b}
        /\ Once(wq[f], f) => Once(Append(wq[f], b), f)
    BY <1>1, <2>1, OneMoreItem DEF IsNew
  <2>. QED
    BY <2>1, <2>2
<1>. QED
  BY <1>3 DEF PacketsOnly

LEMMA BroadcastKeeps == Inv /\ TypeOK' /\ (SendAllCli \/ SendMulCli) => Inv'
<1>. SUFFICES ASSUME Inv, TypeOK', SendAllCli \/ SendMulCli PROVE Inv'
  OBVIOUS
<1>1. PICK cmd, fds :
        cmd \in {"SEND_ALL", "SEND_MUL"} /\ Handles(cmd) /\ Copies(fds, "NEWS") /\ vSess' = vSess /\ xpc' = xpc
  BY DEF SendAllCli, SendMulCli
<1>2. cmd \notin NewCmds
  BY <1>1 DEF NewCmds
<1>. QED
  BY <1>1, <1>2, CopiesKeep, HandlesKeeps DEF SidsStay

LEMMA SigninLateKeeps == Inv /\ TypeOK' /\ SigninLate => Inv'
BY NoneMore, HandlesKeeps DEF SigninLate, NewCmds, SidsStay

LEMMA SigninKickKeeps == Inv /\ TypeOK' /\ SigninKick => Inv'
<1>. SUFFICES ASSUME Inv, TypeOK', SigninKick PROVE Inv'
  OBVIOUS
<1>. DEFINE pid == Head(exq).pid
            tsid == sid_from_pid(pid)
            r == Routed(tsid, pid, "DUPLICATE", pid)
<1>1. /\ UNCHANGED <<sn, open, polled, out, exq>>
      /\ exq # << >> /\ Head(exq).cmd = "SIGNIN_CLI" /\ get_sess(Head(exq).sid)
      /\ xpc = "next" /\ xpc' = "assign"
  BY DEF SigninKick, InSignin, Head_is, worker
<1>2. vSess \in [Fd -> Sess] /\ Head(exq).cmd \notin NewCmds /\ r.cmd \notin NewCmds
  BY <1>1 DEF Inv, TypeOK, NewCmds, Routed
<1>3. /\ SidsStay
      /\ PacketsOnly
  <2>1. CASE get_sess(tsid)
    <3>1. /\ vSess' = [vSess EXCEPT ![FdOf(tsid)].pid = None, ![FdOf(tsid)].map = None]
          /\ wq' = [wq EXCEPT ![FdOf(tsid)] = Append(@, r)]
      BY <2>1 DEF SigninKick, make_packet_fix
    <3>2. vSess[FdOf(tsid)].sid # None
      BY <2>1 DEF get_sess
    <3>. HIDE DEF r, tsid
    <3>3. SidsStay
      BY <1>2, <3>1, <3>2 DEF Sess, SidsStay
    <3>4. PacketsOnly
      BY <1>2, <3>1, OneMore
    <3>. QED
      BY <3>3, <3>4
  <2>2. CASE ~get_sess(tsid)
    <3>1. vSess' = vSess /\ wq' = wq
      BY <2>2 DEF SigninKick
    <3>. QED
      BY <3>1, NoneMore DEF SidsStay
  <2>. QED
    BY <2>1, <2>2
<1>4. SigninStays'
  <2>1. Head_is("SIGNIN_CLI")'
    BY <1>1 DEF Head_is
  <2>2. FdOf(Head(exq).sid) \in Fd /\ Head(exq).sid # None
    BY <1>1, HeadType, CommandFields DEF Head_is, Inv, get_sess, FdOf, SidOrNone, Sid
  <2>3. get_sess(Head(exq).sid)'
    BY <1>1, <1>3, <2>2 DEF get_sess, SidsStay
  <2>. QED
    BY <2>1, <2>3 DEF SigninStays
<1>. QED
  BY <1>1, <1>2, <1>3, <1>4, ExchangeKeeps

LEMMA SigninAssignKeeps == Inv /\ TypeOK' /\ SigninAssign => Inv'
<1>. SUFFICES ASSUME Inv, TypeOK', SigninAssign PROVE Inv'
  OBVIOUS
<1>. DEFINE b == Head(exq)
<1>1. /\ UNCHANGED <<sn, open, polled, out, exq>> /\ wq' = wq
      /\ exq # << >> /\ Head(exq).cmd = "SIGNIN_CLI"
      /\ xpc = "assign" /\ xpc' = "on"
      /\ vSess' = [vSess EXCEPT ![FdOf(b.sid)].map = b.map, ![FdOf(b.sid)].pid = b.pid]
  BY DEF SigninAssign, InSignin, Head_is, worker
<1>2. get_sess(b.sid) /\ vSess \in [Fd -> Sess] /\ Head(exq).cmd \notin NewCmds
  BY <1>1 DEF Inv, SigninStays, TypeOK, NewCmds
<1>3. vSess[FdOf(b.sid)].sid # None
  BY <1>2 DEF get_sess
<1>4. SidsStay
  BY <1>1, <1>2, <1>3 DEF Sess, SidsStay
<1>5. FdOf(b.sid) \in Fd
  BY <1>1, <1>2, HeadType, CommandFields DEF Head_is, Inv, get_sess, FdOf, SidOrNone, Sid
<1>6. get_sess(b.sid)'
  BY <1>1, <1>2, <1>4, <1>5 DEF get_sess, SidsStay
<1>7. SigninStays'
  BY <1>1, <1>6 DEF SigninStays, Head_is
<1>. QED
  BY <1>1, <1>2, <1>4, <1>7, NoneMore, ExchangeKeeps

LEMMA SigninOnKeeps == Inv /\ TypeOK' /\ SigninOn => Inv'
<1>. SUFFICES ASSUME Inv, TypeOK', SigninOn PROVE Inv'
  OBVIOUS
<1>. DEFINE b == Head(exq)
<1>1. /\ UNCHANGED <<sn, open, polled, out>> /\ wq' = wq /\ exq' = Tail(exq)
      /\ exq # << >> /\ Head(exq).cmd = "SIGNIN_CLI"
      /\ xpc = "on" /\ xpc' = "next"
      /\ vSess' = [vSess EXCEPT ![FdOf(b.sid)].state = "ON"]
  BY DEF SigninOn, InSignin, Head_is, worker
<1>2. get_sess(b.sid) /\ vSess \in [Fd -> Sess] /\ Head(exq).cmd \notin NewCmds
  BY <1>1 DEF Inv, SigninStays, TypeOK, NewCmds
<1>3. vSess[FdOf(b.sid)].sid # None
  BY <1>2 DEF get_sess
<1>4. SidsStay
  BY <1>1, <1>2, <1>3 DEF Sess, SidsStay
<1>5. SigninStays'
  BY <1>1 DEF SigninStays
<1>. QED
  BY <1>1, <1>2, <1>4, <1>5, NoneMore, ExchangeKeeps

(* The descriptor closes: its session has a sid, so that nothing waits for *)
(* it, and its worker has let go of it.                                    *)
LEMMA SignoutCloseKeeps == Inv /\ TypeOK' /\ SignoutClose => Inv'
<1>. SUFFICES ASSUME Inv, TypeOK', SignoutClose PROVE Inv'
  OBVIOUS
<1>. USE DEF Inv
<1>. DEFINE sid == Head(exq).sid
            fd == FdOf(sid)
<1>1. /\ UNCHANGED <<sn, polled, out, vSess, wq>> /\ xpc = "next"
      /\ exq # << >> /\ Head(exq).cmd = "SIGNOUT"
  BY DEF SignoutClose, Head_is
<1>2. CASE ~get_sess(sid)
  <2>1. exq' = Tail(exq) /\ xpc' = xpc /\ open' = open
    BY <1>2 DEF SignoutClose
  <2>2. SigninStays' /\ SidsStay /\ Head(exq).cmd \notin NewCmds
    BY <1>1, <2>1 DEF SigninStays, SidsStay, NewCmds
  <2>. QED
    BY <1>1, <2>1, <2>2, NoneMore, ExchangeKeeps
<1>3. CASE get_sess(sid)
  <2>1. exq' = exq /\ xpc' = "wipe" /\ open' = open \ {fd}
    BY <1>3 DEF SignoutClose
  <2>2. fd \in Fd /\ sid # None
    BY <1>1, <1>3, HeadType, CommandFields DEF Head_is, get_sess, FdOf, SidOrNone, Sid
  <2>3. vSess[fd].sid # None /\ vSess[fd] # NoSess
    BY <1>3 DEF get_sess, NoSess
  <2>4. ~Waiting(fd)
    BY <1>1, <2>2, <2>3 DEF WaitingWiped, Closing
  <2>5. fd \notin polled
    <3>1. Head(exq) \in Items(exq)
      BY <1>1, ItemsTail DEF TypeOK
    <3>. QED
      BY <1>1, <1>3, <2>2, <3>1 DEF Signouts, LetGo
  <2>6. \A g \in Fd : Waiting(g)' <=> Waiting(g)
    BY <1>1, <2>1 DEF Waiting
  <2>7. WaitsOnce' /\ OwnQueue' /\ OwnSid' /\ SigninStays'
    BY <1>1, <2>1 DEF WaitsOnce, OwnQueue, OwnSid, SigninStays
  <2>8. WaitingOpen'
    BY <1>1, <2>1, <2>4, <2>5, <2>6 DEF WaitingOpen
  <2>9. Closing(fd)' /\ \A g \in Fd : ~Closing(g)
    BY <1>1, <2>1 DEF Closing, Head_is
  <2>10. WaitingWiped'
    BY <1>1, <2>1, <2>4, <2>6, <2>9 DEF WaitingWiped, Waiting
  <2>11. Signouts'
    BY <1>1, <2>1 DEF Signouts, LetGo, get_sess
  <2>. QED
    BY <2>7, <2>8, <2>10, <2>11
<1>. QED
  BY <1>2, <1>3

LEMMA SignoutWipeKeeps == Inv /\ TypeOK' /\ SignoutWipe => Inv'
<1>. SUFFICES ASSUME Inv, TypeOK', SignoutWipe PROVE Inv'
  OBVIOUS
<1>. USE DEF Inv
<1>. DEFINE fd == FdOf(Head(exq).sid)
<1>1. /\ UNCHANGED <<sn, open, polled, out, wq>> /\ xpc = "wipe" /\ xpc' = "next"
      /\ exq # << >> /\ Head(exq).cmd = "SIGNOUT" /\ exq' = Tail(exq)
      /\ vSess' = [vSess EXCEPT ![fd] = NoSess]
  BY DEF SignoutWipe, Head_is, worker
<1>2. Head(exq).cmd \notin NewCmds
  BY <1>1 DEF NewCmds
<1>3. Items(exq) = {Head(exq)} \union Items(exq')
  BY <1>1, ItemsTail DEF TypeOK
<1>4. \A f \in Fd : Once(exq', f)
  <2>1. exq \in Seq(Commands)
    BY DEF TypeOK
  <2>. QED
    BY <1>1, <2>1, OnceTail DEF WaitsOnce
<1>5. \A f \in Fd : Holds(exq', f) <=> Holds(exq, f)
  BY <1>2, <1>3 DEF Holds, IsNew
<1>6. WaitsOnce'
  BY <1>1, <1>4, <1>5 DEF WaitsOnce
<1>7. \A g \in Fd : Waiting(g)' <=> Waiting(g)
  BY <1>1, <1>5 DEF Waiting
<1>8. OwnQueue' /\ WaitingOpen' /\ SigninStays'
  BY <1>1, <1>7 DEF OwnQueue, WaitingOpen, SigninStays
<1>. HIDE DEF fd
<1>9. \A f \in Fd : vSess'[f] = IF f = fd THEN NoSess ELSE vSess[f]
  BY <1>1 DEF TypeOK
<1>10. \A f \in Fd : Closing(f) => f = fd
  BY DEF Closing, fd
<1>11. WaitingWiped'
  BY <1>1, <1>7, <1>9, <1>10 DEF WaitingWiped
<1>12. NoSess.sid = None
  BY DEF NoSess
<1>13. OwnSid'
  BY <1>1, <1>9, <1>12 DEF OwnSid
<1>14. Signouts'
  <2>1. ASSUME NEW b, LetGo(b) PROVE LetGo(b)'
    <3>1. FdOf(b.sid) \in polled => FdOf(b.sid) \in Fd
      BY DEF TypeOK
    <3>. QED
      BY <1>1, <1>9, <1>12, <2>1, <3>1 DEF LetGo, get_sess
  <2>. QED
    BY <1>1, <1>3, <2>1 DEF Signouts
<1>. QED
  BY <1>6, <1>8, <1>11, <1>13, <1>14

(* A new connection's message goes on from the exchange thread. *)
LEMMA ForwardKeeps == Inv /\ TypeOK' /\ (ForwardIncome \/ ForwardConnect) => Inv'
<1>. SUFFICES ASSUME Inv, TypeOK', ForwardIncome \/ ForwardConnect PROVE Inv'
  OBVIOUS
<1>. USE DEF Inv
<1>. DEFINE b == Head(exq)
            fd == b.fd
            Q == RoutedPackets \union NewConns
<1>1. /\ UNCHANGED <<sn, open, polled, out, vSess, xpc>> /\ xpc = "next"
      /\ exq # << >> /\ b.cmd \in NewCmds /\ exq' = Tail(exq)
      /\ wq' = [wq EXCEPT ![fd] = Append(@, b)]
  BY DEF ForwardIncome, ForwardConnect, Handles, Head_is, worker, NewCmds
<1>2. exq \in Seq(Commands) /\ b \in Commands /\ \A f \in Fd : wq[f] \in Seq(Q)
  BY <1>1, HeadTailProperties DEF TypeOK
<1>3. fd \in Fd /\ IsNew(b, fd) /\ \A g : g # fd => ~IsNew(b, g)
  BY <1>1, <1>2, CommandFields DEF IsNew, NewCmds
<1>4. Items(exq) = {b} \union Items(exq')
  BY <1>1, <1>2, ItemsTail
<1>5. Holds(exq, fd)
  BY <1>3, <1>4 DEF Holds
<1>6. ~Holds(wq[fd], fd) /\ ~Holds(out[fd], fd)
  BY <1>3, <1>5 DEF WaitsOnce
<1>7. ~Holds(exq', fd) /\ \A f \in Fd : Once(exq', f)
  BY <1>1, <1>2, <1>3, OnceTail DEF WaitsOnce
<1>8. \A g \in Fd \ {fd} : Holds(exq', g) <=> Holds(exq, g)
  BY <1>3, <1>4 DEF Holds
<1>9. /\ wq'[fd] = Append(wq[fd], b)
      /\ \A f \in Fd \ {fd} : wq'[f] = wq[f]
  BY <1>1, <1>3 DEF TypeOK
<1>. HIDE DEF b, fd, Q
<1>10. Items(wq'[fd]) = Items(wq[fd]) \union {b} /\ Once(wq'[fd], fd)
  BY <1>2, <1>3, <1>6, <1>9, OneMoreItem DEF WaitsOnce
<1>11. Holds(wq'[fd], fd)
  BY <1>3, <1>10 DEF Holds
<1>12. WaitsOnce'
  BY <1>1, <1>6, <1>7, <1>8, <1>9, <1>10 DEF WaitsOnce
<1>13. OwnQueue'
  BY <1>1, <1>9, <1>10 DEF OwnQueue, fd
<1>14. \A g \in Fd : Waiting(g)' <=> Waiting(g)
  BY <1>1, <1>5, <1>8, <1>9, <1>11 DEF Waiting
<1>15. WaitingOpen' /\ OwnSid' /\ SigninStays'
  BY <1>1, <1>14 DEF WaitingOpen, OwnSid, SigninStays
<1>16. \A g \in Fd : ~Closing(g) /\ ~Closing(g)'
  BY <1>1 DEF Closing
<1>17. WaitingWiped'
  <2>1. vSess[fd] = NoSess
    BY <1>3, <1>5, <1>16 DEF WaitingWiped, Waiting
  <2>. QED
    BY <1>1, <1>9, <1>14, <1>16, <2>1 DEF WaitingWiped
<1>18. Signouts'
  BY <1>1, <1>4 DEF Signouts, LetGo, get_sess
<1>. QED
  BY <1>12, <1>13, <1>15, <1>17, <1>18

LEMMA ExchangeStepKeeps == Inv /\ TypeOK' /\ Exchange => Inv'
BY RouteKeeps, ForwardKeeps, SigninServerKeeps, SigninLateKeeps, SigninKickKeeps,
   SigninAssignKeeps, SigninOnKeeps, SignoutCloseKeeps, SignoutWipeKeeps, BroadcastKeeps
   DEF Exchange

-----------------------------------------------------------------------------
(* Connections. *)

(* The exchange queue grows: what is at its head stays there. *)
LEMMA HeadStays ==
  ASSUME NEW S, NEW q \in Seq(S), NEW r \in Seq(S), q # << >>
  PROVE  q \o r # << >> /\ Head(q \o r) = Head(q)
<1>1. Len(q) \in Nat \ {0} /\ Len(r) \in Nat
  BY LenProperties, EmptySeq
<1>2. q \o r \in Seq(S) /\ Len(q \o r) = Len(q) + Len(r) /\ (q \o r)[1] = q[1]
  BY <1>1, ConcatProperties
<1>3. Head(q) = q[1]
  BY <1>1
<1>4. q \o r # << >>
  BY <1>1, <1>2, EmptySeq
<1>5. Head(q \o r) = (q \o r)[1]
  BY <1>2, <1>4
<1>. QED
  BY <1>2, <1>3, <1>4, <1>5

LEMMA ExqGrows ==
  ASSUME Inv, UNCHANGED <<vSess, xpc>>, NEW r \in Seq(Commands), exq' = exq \o r
  PROVE  /\ \A g \in Fd : Closing(g) => Closing(g)'
         /\ SigninStays'
<1>1. exq \in Seq(Commands)
  BY DEF Inv, TypeOK
<1>2. exq # << >> => exq' # << >> /\ Head(exq') = Head(exq)
  BY <1>1, HeadStays
<1>3. \A cmd : Head_is(cmd) => Head_is(cmd)' /\ Head(exq') = Head(exq)
  BY <1>2 DEF Head_is
<1>4. \A g \in Fd : Closing(g) => Closing(g)'
  BY <1>3 DEF Closing
<1>5. SigninStays'
  BY <1>3 DEF Inv, SigninStays, get_sess
<1>. QED
  BY <1>4, <1>5

LEMMA FlushKeeps ==
  ASSUME Inv, TypeOK', NEW fd \in Fd, Flush(fd)
  PROVE  Inv'
<1>. USE DEF Inv
<1>1. /\ UNCHANGED <<sn, open, polled, vSess, xpc, wq>>
      /\ exq' = exq \o out[fd] /\ out' = [out EXCEPT ![fd] = << >>]
  BY DEF Flush
<1>2. /\ exq \in Seq(Commands) /\ out[fd] \in Seq(Commands)
      /\ out'[fd] = << >> /\ \A f \in Fd \ {fd} : out'[f] = out[f]
  BY <1>1 DEF TypeOK
<1>3. Items(exq') = Items(exq) \union Items(out[fd]) /\ Items(out'[fd]) = {}
  BY <1>1, <1>2, ItemsConcat, ItemsOfOne
<1>4. \A g \in Fd \ {fd} : ~Holds(out[fd], g)
  BY DEF OwnQueue, Holds, IsNew
<1>5. \A g \in Fd : Holds(exq', g) <=> Holds(exq, g) \/ Holds(out[fd], g)
  BY <1>3 DEF Holds
<1>6. ~Holds(out'[fd], fd) /\ Once(out'[fd], fd)
  BY <1>3, OnceNone DEF Holds
<1>7. \A g \in Fd : Once(exq', g)
  <2>1. ASSUME NEW g \in Fd PROVE Once(exq \o out[fd], g)
    <3>1. Once(exq, g) /\ Once(out[fd], g) /\ ~(Holds(exq, g) /\ Holds(out[fd], g))
      BY <1>4, OnceNone DEF WaitsOnce
    <3>. QED
      BY <1>2, <3>1, OnceConcat
  <2>. QED
    BY <1>1, <2>1
<1>8. WaitsOnce'
  BY <1>1, <1>2, <1>4, <1>5, <1>6, <1>7 DEF WaitsOnce
<1>9. OwnQueue'
  BY <1>1, <1>2, <1>3 DEF OwnQueue
<1>10. \A g \in Fd : Waiting(g)' <=> Waiting(g)
  BY <1>1, <1>2, <1>4, <1>5, <1>6 DEF Waiting
<1>11. WaitingOpen' /\ OwnSid'
  BY <1>1, <1>10 DEF WaitingOpen, OwnSid
<1>12. (\A g \in Fd : Closing(g) => Closing(g)') /\ SigninStays'
  BY <1>1, <1>2, ExqGrows
<1>13. WaitingWiped'
  BY <1>1, <1>10, <1>12 DEF WaitingWiped
<1>14. Signouts'
  BY <1>1, <1>2, <1>3 DEF Signouts, LetGo, get_sess
<1>. QED
  BY <1>8, <1>9, <1>11, <1>12, <1>13, <1>14

LEMMA AcceptKeeps ==
  ASSUME Inv, TypeOK', NEW fd \in Fd, NEW mode \in {"CLI", "SRV"}, NEW m \in Map,
         Accept(fd, mode, m)
  PROVE  Inv'
<1>. USE DEF Inv
<1>. DEFINE b == Income(fd, mode)
<1>1. /\ UNCHANGED <<sn, polled, vSess, exq, xpc, wq>>
      /\ fd \notin open /\ open' = open \union {fd}
      /\ out' = [out EXCEPT ![fd] = @ \o <<b>>]
  BY DEF Accept, Emit
<1>2. b \in Commands /\ b.cmd = "INCOME" /\ b.fd = fd /\ \A f \in Fd : out[f] \in Seq(Commands)
  BY NewConnType DEF Income, TypeOK
<1>. HIDE DEF b
<1>3. out'[fd] = Append(out[fd], b) /\ \A f \in Fd \ {fd} : out'[f] = out[f]
  <2>1. out'[fd] = out[fd] \o <<b>> /\ \A f \in Fd \ {fd} : out'[f] = out[f]
    BY <1>1 DEF TypeOK
  <2>. QED
    BY <1>2, <2>1, AppendIsConcat
<1>4. ~Waiting(fd) /\ fd \notin polled
  BY <1>1 DEF WaitingOpen
<1>5. Items(out'[fd]) = Items(out[fd]) \union {b} /\ Once(out'[fd], fd)
  <2>1. out[fd] \in Seq(Commands) /\ ~Holds(out[fd], fd) /\ Once(out[fd], fd)
    BY <1>2, <1>4 DEF WaitsOnce, Waiting
  <2>2. /\ Items(Append(out[fd], b)) = Items(out[fd]) \union {b}
        /\ Once(out[fd], fd) /\ ~(IsNew(b, fd) /\ Holds(out[fd], fd))
             => Once(Append(out[fd], b), fd)
    BY <2>1, OneMoreItem
  <2>. QED
    BY <1>3, <2>1, <2>2
<1>6. \A g \in Fd \ {fd} : ~Holds(out'[fd], g) /\ ~Holds(out[fd], g)
  BY <1>2, <1>5 DEF OwnQueue, Holds, IsNew
<1>7. WaitsOnce'
  BY <1>1, <1>3, <1>4, <1>5 DEF WaitsOnce, Waiting
<1>8. OwnQueue'
  BY <1>1, <1>2, <1>3, <1>5 DEF OwnQueue
<1>9. \A g \in Fd \ {fd} : Waiting(g)' <=> Waiting(g)
  BY <1>1, <1>3 DEF Waiting
<1>10. WaitingOpen'
  BY <1>1, <1>4, <1>9 DEF WaitingOpen
<1>11. \A g \in Fd : Closing(g)' <=> Closing(g)
  BY <1>1 DEF Closing, Head_is
<1>12. WaitingWiped'
  BY <1>1, <1>9, <1>11 DEF WaitingWiped
<1>13. OwnSid' /\ SigninStays'
  BY <1>1 DEF OwnSid, SigninStays, Head_is, get_sess
<1>14. Signouts'
  BY <1>1, <1>2, <1>3, <1>5 DEF Signouts, LetGo, get_sess
<1>. QED
  BY <1>7, <1>8, <1>10, <1>12, <1>13, <1>14

LEMMA ConnectKeeps ==
  ASSUME Inv, TypeOK', NEW fd \in Fd, start_connect(fd)
  PROVE  Inv'
<1>. USE DEF Inv
<1>. DEFINE b == Connect(fd)
<1>1. /\ UNCHANGED <<sn, polled, vSess, out, xpc, wq>>
      /\ fd \notin open /\ open' = open \union {fd}
      /\ exq' = Append(exq, b)
  BY DEF start_connect
<1>2. b \in Commands /\ b.cmd = "CONNECT" /\ b.fd = fd /\ exq \in Seq(Commands)
  BY NewConnType DEF Connect, TypeOK
<1>. HIDE DEF b
<1>3. ~Waiting(fd) /\ fd \notin polled
  BY <1>1 DEF WaitingOpen
<1>4. Items(exq') = Items(exq) \union {b}
  BY <1>1, <1>2, OneMoreItem
<1>5. \A g \in Fd : Once(exq', g)
  BY <1>1, <1>2, <1>3, OneMoreItem DEF WaitsOnce, Waiting, IsNew
<1>6. \A g \in Fd \ {fd} : Holds(exq', g) <=> Holds(exq, g)
  BY <1>2, <1>4 DEF Holds, IsNew
<1>7. WaitsOnce'
  BY <1>1, <1>3, <1>5, <1>6 DEF WaitsOnce, Waiting
<1>8. \A g \in Fd \ {fd} : Waiting(g)' <=> Waiting(g)
  BY <1>1, <1>6 DEF Waiting
<1>9. OwnQueue' /\ WaitingOpen' /\ OwnSid'
  BY <1>1, <1>3, <1>8 DEF OwnQueue, WaitingOpen, OwnSid
<1>10. (\A g \in Fd : Closing(g) => Closing(g)') /\ SigninStays'
  <2>1. <<b>> \in Seq(Commands) /\ exq' = exq \o <<b>>
    BY <1>1, <1>2, AppendIsConcat
  <2>. QED
    BY <1>1, <2>1, ExqGrows
<1>11. WaitingWiped'
  BY <1>1, <1>8, <1>10 DEF WaitingWiped
<1>12. Signouts'
  BY <1>1, <1>2, <1>4 DEF Signouts, LetGo, get_sess
<1>. QED
  BY <1>7, <1>9, <1>10, <1>11, <1>12

(* The worker takes the new connection: nothing waits for it any more, and *)
(* its sid is of a serial that no sign-out has seen.                       *)
LEMMA TakesKeeps ==
  ASSUME Inv, TypeOK', NEW fd \in Fd,
         UNCHANGED <<open, exq, xpc>>, sn' = sn + 1, polled' = polled \union {fd},
         wq[fd] # << >>, Head(wq[fd]).cmd \in NewCmds, wq' = [wq EXCEPT ![fd] = Tail(@)],
         vSess'[fd].sid = <<sn + 1, fd>>,
         \A f \in Fd \ {fd} : vSess'[f] = vSess[f] /\ out'[f] = out[f],
         Items(out[fd]) \subseteq Items(out'[fd]),
         \A b \in Items(out'[fd]) \ Items(out[fd]) : b.cmd \notin NewCmds \union {"SIGNOUT"},
         Once(out[fd], fd) => Once(out'[fd], fd)
  PROVE  Inv'
<1>. USE DEF Inv
<1>. DEFINE b == Head(wq[fd])
            Q == RoutedPackets \union NewConns
<1>1. /\ wq[fd] \in Seq(Q) /\ wq'[fd] = Tail(wq[fd])
      /\ \A f \in Fd \ {fd} : wq'[f] = wq[f]
  BY DEF TypeOK
<1>. HIDE DEF Q
<1>2. Items(wq[fd]) = {b} \union Items(wq'[fd])
  BY <1>1, ItemsTail
<1>3. IsNew(b, fd) /\ Holds(wq[fd], fd)
  BY <1>2 DEF OwnQueue, IsNew, Holds
<1>4. Once(wq'[fd], fd) /\ ~Holds(wq'[fd], fd)
  BY <1>1, <1>3, OnceTail DEF WaitsOnce
<1>5. ~Holds(out[fd], fd) /\ ~Holds(exq, fd) /\ vSess[fd] = NoSess /\ fd \in open
  BY <1>3 DEF WaitsOnce, WaitingWiped, WaitingOpen, Waiting
<1>6. \A g \in Fd : Holds(out'[fd], g) <=> Holds(out[fd], g)
  BY DEF Holds, IsNew
<1>7. WaitsOnce'
  BY <1>1, <1>4, <1>6 DEF WaitsOnce
<1>8. OwnQueue'
  BY <1>1, <1>2 DEF OwnQueue
<1>9. ~Waiting(fd)' /\ \A g \in Fd \ {fd} : Waiting(g)' <=> Waiting(g)
  BY <1>1, <1>4, <1>5, <1>6 DEF Waiting
<1>10. WaitingOpen'
  BY <1>5, <1>9 DEF WaitingOpen
<1>11. \A g \in Fd : Closing(g)' <=> Closing(g)
  BY DEF Closing, Head_is
<1>12. WaitingWiped'
  BY <1>1, <1>4, <1>5, <1>9, <1>11 DEF WaitingWiped
<1>13. sn \in Nat /\ vSess \in [Fd -> Sess]
  BY DEF TypeOK
<1>14. \A sid \in Sid : sid[1] <= sn => sid[1] <= sn + 1
  BY <1>13 DEF Sid
<1>15. OwnSid'
  <2>1. ASSUME NEW f \in Fd \ {fd}, vSess'[f].sid # None
        PROVE  FdOf(vSess'[f].sid) = f /\ vSess'[f].sid[1] <= sn'
    <3>1. vSess[f].sid \in Sid
      BY <2>1, SessFields DEF SidOrNone
    <3>. QED
      BY <2>1, <3>1, <1>14 DEF OwnSid
  <2>2. FdOf(vSess'[fd].sid) = fd /\ vSess'[fd].sid[1] <= sn'
    BY <1>13 DEF FdOf
  <2>. QED
    BY <2>1, <2>2 DEF OwnSid
<1>16. Signouts'
  <2>1. ASSUME NEW c \in Commands, LetGo(c) PROVE LetGo(c)'
    <3>1. SUFFICES ASSUME c.cmd = "SIGNOUT", c.sid # None
                   PROVE  c.sid[1] <= sn' /\ (get_sess(c.sid)' => FdOf(c.sid) \notin polled')
      BY DEF LetGo
    <3>2. c.sid \in Sid /\ c.sid[1] <= sn /\ FdOf(c.sid) \in Fd
      BY <2>1, <3>1, CommandFields DEF LetGo, SidOrNone, Sid, FdOf
    <3>3. CASE FdOf(c.sid) = fd
      <4>1. c.sid # <<sn + 1, fd>>
        BY <1>13, <3>2
      <4>. QED
        BY <1>14, <3>2, <3>3, <4>1 DEF get_sess
    <3>4. CASE FdOf(c.sid) # fd
      BY <1>14, <2>1, <3>1, <3>2, <3>4 DEF LetGo, get_sess
    <3>. QED
      BY <3>3, <3>4
  <2>2. \A c \in Items(exq) : c \in Commands
    <3>1. exq \in Seq(Commands)
      BY DEF TypeOK
    <3>. QED
      BY <3>1, ElementOfSeq, LenProperties DEF Items
  <2>3. \A f \in Fd : \A c \in Items(out[f]) : c \in Commands
    <3>1. \A f \in Fd : out[f] \in Seq(Commands)
      BY DEF TypeOK
    <3>. QED
      BY <3>1, ElementOfSeq, LenProperties DEF Items
  <2>4. \A c \in Items(out'[fd]) \ Items(out[fd]) : LetGo(c)'
    BY DEF LetGo
  <2>. QED
    BY <2>1, <2>2, <2>3, <2>4 DEF Signouts
<1>17. SigninStays'
  <2>1. SUFFICES ASSUME xpc \in {"assign", "on"}
                 PROVE  Head_is("SIGNIN_CLI") /\ get_sess(Head(exq).sid)'
    BY DEF SigninStays, Head_is
  <2>2. Head_is("SIGNIN_CLI") /\ get_sess(Head(exq).sid)
    BY <2>1 DEF SigninStays
  <2>3. FdOf(Head(exq).sid) \in Fd /\ Head(exq).sid # None
    BY <2>2, HeadType, CommandFields DEF get_sess, FdOf, SidOrNone, Sid
  <2>4. FdOf(Head(exq).sid) # fd
    BY <1>5, <2>2, <2>3 DEF get_sess, NoSess
  <2>. QED
    BY <2>2, <2>3, <2>4 DEF get_sess
<1>. QED
  BY <1>7, <1>8, <1>10, <1>12, <1>15, <1>16, <1>17

LEMMA DoIncomeKeeps ==
  ASSUME Inv, TypeOK', NEW fd \in Fd, DoIncome(fd)
  PROVE  Inv'
<1>1. /\ UNCHANGED <<open, exq, xpc, out>> /\ sn' = sn + 1 /\ polled' = polled \union {fd}
      /\ wq[fd] # << >> /\ Head(wq[fd]).cmd \in NewCmds /\ wq' = [wq EXCEPT ![fd] = Tail(@)]
  BY DEF DoIncome, NextIs, Took, NewCmds
<1>2. vSess'[fd].sid = <<sn + 1, fd>> /\ \A f \in Fd \ {fd} : vSess'[f] = vSess[f]
  BY DEF DoIncome, Inv, TypeOK, Sess
<1>. QED
  BY <1>1, <1>2, TakesKeeps

LEMMA DoConnectKeeps ==
  ASSUME Inv, TypeOK', NEW fd \in Fd, DoConnect(fd)
  PROVE  Inv'
<1>. DEFINE b == SigninSrv(<<sn + 1, fd>>, PidTool)
<1>1. /\ UNCHANGED <<open, exq, xpc>> /\ sn' = sn + 1 /\ polled' = polled \union {fd}
      /\ wq[fd] # << >> /\ Head(wq[fd]).cmd \in NewCmds /\ wq' = [wq EXCEPT ![fd] = Tail(@)]
      /\ out' = [out EXCEPT ![fd] = @ \o <<b>>]
  BY DEF DoConnect, NextIs, Took, NewCmds, Emit
<1>2. vSess'[fd].sid = <<sn + 1, fd>> /\ \A f \in Fd \ {fd} : vSess'[f] = vSess[f]
  BY DEF DoConnect, Inv, TypeOK, Sess
<1>3. b \in Commands /\ b.cmd \notin NewCmds \union {"SIGNOUT"} /\ out[fd] \in Seq(Commands)
  <2>. HIDE DEF b
  <2>1. sn + 1 \in Nat
    BY DEF Inv, TypeOK
  <2>2. <<sn + 1, fd>> \in SidOrNone
    BY <2>1 DEF SidOrNone, Sid
  <2>3. b = SigninSrv(<<sn + 1, fd>>, PidTool)
    BY DEF b
  <2>. QED
    BY <2>2, <2>3, CommandType DEF Inv, TypeOK, SigninSrv, NewCmds
<1>. HIDE DEF b
<1>4. out'[fd] = Append(out[fd], b) /\ \A f \in Fd \ {fd} : out'[f] = out[f]
  <2>1. out'[fd] = out[fd] \o <<b>> /\ \A f \in Fd \ {fd} : out'[f] = out[f]
    BY <1>1 DEF Inv, TypeOK
  <2>. QED
    BY <1>3, <2>1, AppendIsConcat
<1>5. /\ Items(out'[fd]) = Items(out[fd]) \union {b}
      /\ Once(out[fd], fd) => Once(out'[fd], fd)
  <2>1. /\ Items(Append(out[fd], b)) = Items(out[fd]) \union {b}
        /\ Once(out[fd], fd) /\ ~(IsNew(b, fd) /\ Holds(out[fd], fd))
             => Once(Append(out[fd], b), fd)
    BY <1>3, OneMoreItem
  <2>2. ~IsNew(b, fd)
    BY <1>3 DEF IsNew
  <2>. QED
    BY <1>4, <2>1, <2>2
<1>. QED
  BY <1>1, <1>2, <1>3, <1>4, <1>5, TakesKeeps

-----------------------------------------------------------------------------
(* The peers. *)

LEMMA ReachKeeps ==
  ASSUME Inv, TypeOK',
         \/ \E fd \in Fd : Discard(fd) \/ ReachClient(fd) \/ ReachTool(fd)
         \/ \E m \in Map : Handle(m)
  PROVE  Inv'
<1>1. PICK fd \in Fd : Arrives(fd)
  <2>1. CASE \E fd \in Fd : Discard(fd) \/ ReachClient(fd) \/ ReachTool(fd)
    BY <2>1 DEF Discard, ReachClient, ReachTool
  <2>2. CASE \E m \in Map : Handle(m)
    <3>1. PICK m, type : m \in Map /\ ReachServer(m, type)
      BY <2>2 DEF Handle, Refuse, Certify, Stranger, OnBreak, OnCrossServerBreak, Request, AckTool,
                  AgentLogin, AgentMigrate, AgentMigrateAck, AgentMigrateBack, AgentMigrateBackAck
    <3>. QED
      BY <3>1 DEF ReachServer, Inv, TypeOK
  <2>. QED
    BY <2>1, <2>2
<1>2. UNCHANGED <<sn, open, polled, out, exq, xpc, vSess>>
  BY <1>1 DEF Arrives, worker
<1>3. \A f \in Fd : wq'[f] = wq[f] \/ (/\ wq[f] # << >> /\ wq'[f] = Tail(wq[f])
                                       /\ Head(wq[f]).cmd = "PACKET")
  BY <1>1 DEF Arrives, NextIs, Took, Inv, TypeOK
<1>. QED
  BY <1>2, <1>3, PeerKeeps

LEMMA ServerKeeps ==
  ASSUME Inv, TypeOK', NEW m \in Map, Server(m)
  PROVE  Inv'
<1>1. UNCHANGED <<sn, open, polled, out, exq, xpc, vSess, wq>>
  BY DEF Server, SrvDrop, Chatter, MigrateBack, Talks, worker
<1>. QED
  BY <1>1, PeerKeeps

-----------------------------------------------------------------------------
LEMMA NextKeeps == Inv /\ [Next]_vars => Inv'
<1>. SUFFICES ASSUME Inv, [Next]_vars PROVE Inv'
  OBVIOUS
<1>1. TypeOK'
  BY NextType DEF Inv
<1>2. ASSUME NEW fd \in Fd, Worker(fd) PROVE Inv'
  BY <1>1, <1>2, FlushKeeps, DoIncomeKeeps, DoConnectKeeps, ClientTurnKeeps, ServerTurnKeeps,
     ToolTurnKeeps DEF Worker
<1>3. ASSUME NEW fd \in Fd, Peer(fd) PROVE Inv'
  <2>1. ASSUME NEW m \in Map, Accept(fd, "CLI", m) \/ Accept(fd, "SRV", m) PROVE Inv'
    BY <1>1, <2>1, AcceptKeeps
  <2>2. ASSUME NEW m \in Map, FirstPacket(fd, m) PROVE Inv'
    BY <1>1, <2>2, ClientTurnKeeps
  <2>3. CASE start_connect(fd)
    BY <1>1, <2>3, ConnectKeeps
  <2>4. CASE ClientPacket(fd) \/ ClientBreak(fd)
    BY <1>1, <2>4, ClientTurnKeeps
  <2>5. CASE \E eof \in BOOLEAN : ToolBreak(fd, eof)
    BY <1>1, <2>5, ToolTurnKeeps
  <2>6. ASSUME NEW n \in 1..Cardinality(Player), NEW to \in [1..n -> Player],
               ClientToPlayers(fd, to)
        PROVE  Inv'
    <3>1. n \in Nat
      OBVIOUS
    <3>. QED
      BY <1>1, <2>6, <3>1, ToPlayersKeeps
  <2>. QED
    BY <1>3, <2>1, <2>2, <2>3, <2>4, <2>5, <2>6 DEF Peer
<1>4. ASSUME NEW fd \in Fd, Discard(fd) \/ ReachClient(fd) \/ ReachTool(fd) PROVE Inv'
  BY <1>1, <1>4, ReachKeeps
<1>5. CASE Exchange
  BY <1>1, <1>5, ExchangeStepKeeps
<1>6. ASSUME NEW m \in Map, Handle(m) \/ Server(m) PROVE Inv'
  BY <1>1, <1>6, ReachKeeps, ServerKeeps
<1>7. CASE UNCHANGED vars
  BY <1>1, <1>7, PeerKeeps DEF vars, worker
<1>. QED
  BY <1>2, <1>3, <1>4, <1>5, <1>6, <1>7 DEF Next

LEMMA InitHolds == Init => Inv
<1>. SUFFICES ASSUME Init PROVE Inv
  OBVIOUS
<1>1. TypeOK
  BY InitType
<1>2. \A fd \in Fd : /\ ~Holds(out[fd], fd) /\ ~Holds(exq, fd) /\ ~Holds(wq[fd], fd)
                     /\ Items(out[fd]) = {} /\ Items(wq[fd]) = {}
  BY ItemsOfOne DEF Init, Holds
<1>3. \A fd \in Fd : vSess[fd] = NoSess /\ vSess[fd].sid = None
  BY DEF Init, NoSess
<1>4. WaitsOnce
  BY <1>2, OnceNone DEF WaitsOnce
<1>5. OwnQueue /\ WaitingOpen /\ WaitingWiped /\ OwnSid
  BY <1>2, <1>3 DEF OwnQueue, WaitingOpen, WaitingWiped, OwnSid, Waiting, Init
<1>6. Signouts /\ SigninStays
  BY <1>2, ItemsOfOne DEF Signouts, SigninStays, Init
<1>. QED
  BY <1>1, <1>4, <1>5, <1>6 DEF Inv

(* A new connection finds its session wiped: CMD_INCOME and CMD_CONNECT    *)
(* never meet what an earlier connection on the descriptor has left.       *)
THEOREM FreshSessionHolds == Spec => []FreshSession
<1>1. Inv => FreshSession
  <2>. SUFFICES ASSUME Inv, NEW fd \in Fd, NEW i \in DOMAIN wq[fd], wq[fd][i].cmd \in NewCmds
                PROVE  vSess[fd] = NoSess
    BY DEF FreshSession, NewCmds
  <2>1. wq[fd][i] \in Items(wq[fd])
    BY DEF Items
  <2>2. IsNew(wq[fd][i], fd)
    BY <2>1 DEF Inv, OwnQueue, IsNew
  <2>. QED
    BY <2>1, <2>2 DEF Inv, WaitingWiped, Holds
<1>. QED
  BY <1>1, InitHolds, NextKeeps, PTL DEF Spec

=============================================================================
