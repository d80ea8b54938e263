------------------------------- MODULE EGate --------------------------------
(***************************************************************************)
(* The gate of egate.c: clients (MODE_CLI), map servers (MODE_SRV) and the *)
(* tool server (MODE_TOOL) are sessions in the table vSess, indexed by     *)
(* file descriptor.  Each descriptor is served by one worker thread; a     *)
(* single exchange thread owns the table vPid2Sid from player or map       *)
(* number to session and handles the commands.  The threads share vSess    *)
(* without a lock: a worker and the exchange thread both write a session's *)
(* pid, map and state, and each thread's steps are separate actions here.  *)
(*                                                                         *)
(* Workers send to the exchange thread through exchange_msg (a Que), the   *)
(* exchange thread to a worker through its mailbox (a Mailbox); both are   *)
(* FIFO queues here.  A worker collects the messages of a turn in out and  *)
(* appends them to exchange_msg at its end.                                *)
(*                                                                         *)
(* Map servers are the game processes of warx_pub/script.  They certify    *)
(* players (player_t.lua firstPacket2), forget them (onBreak) and move     *)
(* them: a player's home is emap[p], where its record always is; while it  *)
(* is a guest on another map that map has a record too (cross_migrate and  *)
(* cross_migrate_back of player_t.lua, the agent_* calls of agent_t.lua).  *)
(***************************************************************************)
EXTENDS Integers, Sequences, FiniteSets

CONSTANTS
  Fd,       \* file descriptors of connections
  Player,   \* player numbers (pid >= 10000)
  Map,      \* map server numbers (pid < 9000)
  PidTool,  \* PID_TOOL, 9001
  None,     \* a pid, map or sid that is 0
  Encode,   \* the -e option: clients are sent a seed before they may speak
  ToolUp,   \* the tool server accepts connections
  emap,     \* emap[p]: the home of player p
  Account,  \* Account[p]: its open_id
  MayMove,  \* players move to other maps and back
  SrvDrops, \* map servers lose their connection and make another
  Chatty,   \* clients and map servers send packets of their own
  MaxConns, \* bound: connections made
  MaxQueue  \* bound: they send and move only while the queues are shorter

ASSUME GateAssumption ==
  /\ None \notin Fd \union Player \union Map \union {PidTool}
  /\ None \notin Nat \X Fd   \* make_sid counts from 1: no sid is 0
  /\ Player \intersect Map = {}
  /\ PidTool \notin Player \union Map
  /\ IsFiniteSet(Player)
  /\ emap \in [Player -> Map] /\ DOMAIN Account = Player
  /\ {Encode, ToolUp, MayMove, SrvDrops, Chatty} \subseteq BOOLEAN
  /\ MaxConns \in Nat /\ MaxQueue \in Nat

(* make_sid: a serial number and the descriptor; (sn << 16) + fd in the    *)
(* code, where sn starts again after 32767 connections, more than MaxConns *)
Sid == Nat \X Fd
FdOf(sid) == sid[2]

Mode == {"CLI", "SRV", "TOOL"}
State == {"SHAKE", "NEW", "LOGIN", "ON", "BREAK"}
Pid == Player \union Map \union {PidTool}

VARIABLES
  made,     \* connections made so far (bound only)
  sn,       \* the serial number in make_sid
  open,     \* descriptors the kernel has handed out and not taken back
  polled,   \* descriptors registered in their worker's epoll
  vSess,    \* the session table
  out,      \* out[fd]: msgRecv of the worker turn that serves fd
  exq,      \* exchange_msg
  xpc,      \* the exchange thread: "next", "assign" and "on" inside
            \* CMD_SIGNIN_CLI, "wipe" inside close_sess
  wq,       \* wq[fd]: what is on its way to fd's peer or fd's worker: the
            \* worker's mailbox, then bufwq and the socket
  vPid2Sid, \* owned by the exchange thread
  gSidTool,
  gCountSck, gCountSrv, gCountPly,
  sent,     \* sent[fd]: packets of the map server on fd not yet read
  srvFd,    \* srvFd[m]: the descriptor map server m talks on, or None
  gPlys,    \* gPlys[m][p]: what map server m has of player p: its map and
            \* sockid, whether its gid is set, whether it is in gOnlines
  conn,     \* history: the number of fd's latest connection
  certified, \* history: <<connection, pid>> when the peer has been certified
            \* as that player, or has connected as that server
  left,     \* history: <<sid, pid>> of the sessions that broke signed in
  overlapped \* history: the numbers of connections of one map server that
            \* were open at the same time

counts == <<gCountSck, gCountSrv, gCountPly>>
servers == <<sent, srvFd, gPlys>>
history == <<conn, certified, left, overlapped>>
worker == <<made, sn, open, polled, out, gSidTool>>
vars == <<worker, vSess, exq, xpc, wq, vPid2Sid, counts, servers, history>>

(* What memset in close_sess leaves. *)
NoSess == [sid |-> None, mode |-> None, state |-> None, pid |-> None, map |-> None]

NoPly == [map |-> None, sockid |-> None, gid |-> FALSE, online |-> FALSE]

(* The map servers have loaded their players: one that is a guest on map   *)
(* at[p] has a record there and one at home.  Nobody is online.            *)
Loaded(at) ==
  [m \in Map |-> [p \in Player |->
     IF m \in {emap[p], at[p]} THEN [NoPly EXCEPT !.map = at[p]] ELSE NoPly]]

Init ==
  /\ made = 0 /\ sn = 0
  /\ open = {} /\ polled = {}
  /\ vSess = [fd \in Fd |-> NoSess]
  /\ out = [fd \in Fd |-> << >>]
  /\ exq = << >>
  /\ xpc = "next"
  /\ wq = [fd \in Fd |-> << >>]
  /\ vPid2Sid = [p \in Pid |-> None]
  /\ gSidTool = None
  /\ gCountSck = 0 /\ gCountSrv = 0 /\ gCountPly = 0
  /\ sent = [fd \in Fd |-> << >>]
  /\ srvFd = [m \in Map |-> None]
  /\ \E at \in [Player -> Map] : (MayMove \/ at = emap) /\ gPlys = Loaded(at)
  /\ conn = [fd \in Fd |-> 0]
  /\ certified = {}
  /\ left = {}
  /\ overlapped = {}

-----------------------------------------------------------------------------
(* Messages: commands, and packets to a pid. *)

Income(fd, mode) == [cmd |-> "INCOME", fd |-> fd, mode |-> mode]
Connect(fd) == [cmd |-> "CONNECT", fd |-> fd]
SigninSrv(sid, pid) == [cmd |-> "SIGNIN_SRV", sid |-> sid, pid |-> pid]
SigninCli(sid, pid, map) ==
  [cmd |-> "SIGNIN_CLI", sid |-> sid, pid |-> pid, map |-> map]
Signout(sid) == [cmd |-> "SIGNOUT", sid |-> sid]
SendAll(map) == [cmd |-> "SEND_ALL", map |-> map]
SendMul(pids) == [cmd |-> "SEND_MUL", pids |-> pids]
Packet(to, type, arg) == [cmd |-> "PACKET", to |-> to, type |-> type, arg |-> arg]

(* A packet once the exchange thread has put a session on it. *)
Routed(sid, to, type, arg) ==
  [cmd |-> "PACKET", sid |-> sid, to |-> to, type |-> type, arg |-> arg]

(* make_packet_fix: the gate's own notice to a session that loses pid. *)
make_packet_fix(sid, pid, type) == Routed(sid, pid, type, pid)

(* get_sess: the session a sid still names. *)
get_sess(sid) == sid # None /\ vSess[FdOf(sid)].sid = sid

Emit(fd, msgs) == out' = [out EXCEPT ![fd] = @ \o msgs]

(* QuePutAll at the end of a turn. *)
Flush(fd) ==
  /\ out[fd] # << >>
  /\ exq' = exq \o out[fd]
  /\ out' = [out EXCEPT ![fd] = << >>]
  /\ UNCHANGED <<made, sn, open, polled, gSidTool, vSess, xpc, wq, vPid2Sid,
                 counts, servers, history>>

-----------------------------------------------------------------------------
(* Connections. *)

(* onAccept: the exchange thread is told first, and tells the worker of    *)
(* the new descriptor.  Map server m connects when it has no connection;   *)
(* the gate may not have seen the end of its last one.                     *)
Accept(fd, mode, m) ==
  /\ fd \notin open
  /\ made < MaxConns
  /\ made' = made + 1
  /\ open' = open \union {fd}
  /\ Emit(fd, <<Income(fd, mode)>>)
  /\ conn' = [conn EXCEPT ![fd] = made + 1]
  /\ UNCHANGED <<sn, polled, gSidTool, vSess, exq, xpc, wq, vPid2Sid, counts,
                 gPlys, left>>
  /\ IF mode = "SRV"
     THEN /\ srvFd[m] = None
          /\ srvFd' = [srvFd EXCEPT ![m] = fd]
          /\ sent' = [sent EXCEPT ![fd] = <<[type |-> "SET_MAP_ID", map |-> m]>>]
          /\ certified' = certified \union {<<made + 1, m>>}
          /\ LET old == {conn[f] : f \in {g \in open : <<conn[g], m>> \in certified}}
             IN  overlapped' = IF old = {} THEN overlapped
                               ELSE overlapped \union old \union {made + 1}
     ELSE /\ sent' = [sent EXCEPT ![fd] = << >>]
          /\ UNCHANGED <<srvFd, certified, overlapped>>

(* start_connect on the main thread, which queues the command itself. *)
start_connect(fd) ==
  /\ ToolUp
  /\ gSidTool = None
  /\ fd \notin open
  /\ made < MaxConns
  /\ made' = made + 1
  /\ open' = open \union {fd}
  /\ exq' = Append(exq, Connect(fd))
  /\ sent' = [sent EXCEPT ![fd] = << >>]
  /\ conn' = [conn EXCEPT ![fd] = made + 1]
  /\ certified' = certified \union {<<made + 1, PidTool>>}
  /\ UNCHANGED <<sn, polled, out, gSidTool, vSess, xpc, wq, vPid2Sid, counts,
                 srvFd, gPlys, left, overlapped>>

NextIs(fd, cmd) == wq[fd] # << >> /\ Head(wq[fd]).cmd = cmd
Took(fd) == wq' = [wq EXCEPT ![fd] = Tail(@)]

(* Mutant: a sid without the serial number. *)
DoIncomeNoSerial(fd) ==
  /\ NextIs(fd, "INCOME")
  /\ Took(fd)
  /\ sn' = sn + 1
  /\ polled' = polled \union {fd}
  /\ LET mode == Head(wq[fd]).mode
     IN  vSess' = [vSess EXCEPT
           ![fd].sid = <<1, fd>>,
           ![fd].mode = mode,
           ![fd].state = IF Encode /\ mode = "CLI" THEN "SHAKE" ELSE "NEW"]
  /\ UNCHANGED <<made, open, out, gSidTool, exq, xpc, vPid2Sid, counts, servers,
                 history>>

(* do_cmd CMD_INCOME: pid and map are as close_sess left them.  The sn of  *)
(* make_sid is a static variable that the workers increment without a      *)
(* lock; here each increment is one step.                                  *)
DoIncome(fd) ==
  /\ NextIs(fd, "INCOME")
  /\ Took(fd)
  /\ sn' = sn + 1
  /\ polled' = polled \union {fd}
  /\ LET mode == Head(wq[fd]).mode
     IN  vSess' = [vSess EXCEPT
           ![fd].sid = <<sn + 1, fd>>,
           ![fd].mode = mode,
           ![fd].state = IF Encode /\ mode = "CLI" THEN "SHAKE" ELSE "NEW"]
  /\ UNCHANGED <<made, open, out, gSidTool, exq, xpc, vPid2Sid, counts, servers,
                 history>>

(* do_cmd CMD_CONNECT for MODE_TOOL. *)
DoConnect(fd) ==
  /\ NextIs(fd, "CONNECT")
  /\ Took(fd)
  /\ sn' = sn + 1
  /\ polled' = polled \union {fd}
  /\ LET sid == <<sn + 1, fd>>
     IN  /\ vSess' = [vSess EXCEPT
              ![fd].sid = sid, ![fd].mode = "TOOL",
              ![fd].state = "ON", ![fd].pid = PidTool]
         /\ gSidTool' = sid
         /\ Emit(fd, <<SigninSrv(sid, PidTool)>>)
  /\ UNCHANGED <<made, open, exq, xpc, vPid2Sid, counts, servers, history>>

(* EPOLLOUT in STATE_SHAKE: send the seed. *)
Shake(fd) ==
  /\ fd \in polled
  /\ vSess[fd].state = "SHAKE"
  /\ vSess' = [vSess EXCEPT ![fd].state = "NEW"]
  /\ UNCHANGED <<worker, exq, xpc, wq, vPid2Sid, counts, servers, history>>

-----------------------------------------------------------------------------
(* A worker reads. *)

(* The bound on chatter. *)
Calm ==
  /\ Len(exq) < MaxQueue
  /\ \A fd \in Fd : /\ Len(wq[fd]) < MaxQueue /\ Len(out[fd]) < MaxQueue
                    /\ Len(sent[fd]) < MaxQueue

(* A turn that serves EPOLLIN of fd, which is not asked for in SHAKE. *)
Turn(fd, mode) ==
  /\ fd \in polled
  /\ vSess[fd].mode = mode
  /\ vSess[fd].state # "SHAKE"
  /\ out[fd] = << >>
  /\ UNCHANGED <<made, sn, open, exq, xpc, wq, vPid2Sid, counts, srvFd, gPlys,
                 conn, certified, overlapped>>

(* Mutant: the map server gets no news. *)
break_sess_quietly(fd) ==
  LET s == vSess[fd]
  IN  /\ vSess' = [vSess EXCEPT ![fd].state = "BREAK"]
      /\ polled' = polled \ {fd}
      /\ Emit(fd, <<Signout(s.sid)>>)
      /\ left' = IF s.pid \in Player THEN left \union {<<s.sid, s.pid>>} ELSE left

(* break_sess: the signout first, then the news for the map server if a    *)
(* player is signed in at this moment.                                     *)
break_sess(fd) ==
  LET s == vSess[fd]
      news == IF s.mode = "CLI" /\ s.pid # None
              THEN <<Packet(s.map, "MSG_CLOSE", s.pid)>>
              ELSE << >>
  IN  /\ vSess' = [vSess EXCEPT ![fd].state = "BREAK"]
      /\ polled' = polled \ {fd}
      /\ Emit(fd, <<Signout(s.sid)>> \o news)
      /\ left' = IF s.pid \in Player THEN left \union {<<s.sid, s.pid>>} ELSE left

(* NET_FIRST_PACKET from a client that names map m.  (The number of the    *)
(* connection is history, not in the packet.)                              *)
FirstPacket(fd, m) ==
  /\ Turn(fd, "CLI")
  /\ UNCHANGED <<gSidTool, sent>>
  /\ IF vSess[fd].pid = None /\ vSess[fd].state = "NEW"
     THEN /\ vSess' = [vSess EXCEPT ![fd].state = "LOGIN"]
          /\ Emit(fd, <<Packet(m, "FIRST_PACKET2", <<vSess[fd].sid, conn[fd]>>)>>)
          /\ UNCHANGED <<polled, left>>
     ELSE break_sess(fd)

(* Any other packet of a client (the echo, which changes nothing but its   *)
(* own send queue, is left out) goes to the map server of its player; a    *)
(* client that is not signed in is cut off.                                *)
ClientPacket(fd) ==
  /\ Turn(fd, "CLI")
  /\ Chatty \/ MayMove
  /\ Calm
  /\ UNCHANGED <<gSidTool, sent>>
  /\ LET s == vSess[fd]
     IN  IF s.state = "ON" /\ s.pid # None
         THEN /\ Emit(fd, <<Packet(s.map, "REQUEST", s.pid)>>)
              /\ UNCHANGED <<vSess, polled, left>>
         ELSE break_sess(fd)

(* NET_P2P and NET_P2PS: straight to other players, from whatever state.   *)
ClientToPlayers(fd, to) ==
  /\ Turn(fd, "CLI")
  /\ Chatty /\ Calm
  /\ Emit(fd, [i \in DOMAIN to |-> Packet(to[i], "P2P", vSess[fd].pid)])
  /\ UNCHANGED <<gSidTool, sent, vSess, polled, left>>

(* do_read: the client has closed its end, or sends what is not a packet. *)
ClientBreak(fd) ==
  /\ Turn(fd, "CLI")
  /\ break_sess(fd)
  /\ UNCHANGED <<gSidTool, sent>>

(* The next packet of the map server on fd. *)
Reads(fd, type) ==
  /\ Turn(fd, "SRV")
  /\ sent[fd] # << >> /\ Head(sent[fd]).type = type
  /\ sent' = [sent EXCEPT ![fd] = Tail(@)]
  /\ UNCHANGED <<polled, gSidTool, left>>

(* NET_SET_MAP_ID: the worker writes the session, the exchange thread will *)
(* write the table.                                                        *)
SetMapId(fd) ==
  /\ Reads(fd, "SET_MAP_ID")
  /\ LET m == Head(sent[fd]).map
     IN  /\ vSess' = [vSess EXCEPT ![fd].map = m, ![fd].pid = m, ![fd].state = "ON"]
         /\ Emit(fd, <<SigninSrv(vSess[fd].sid, m)>>)

(* Mutant: the map of the server that speaks. *)
SetSrvIdOwnMap(fd) ==
  /\ Reads(fd, "SET_SRV_ID")
  /\ LET r == Head(sent[fd])
     IN  Emit(fd, <<SigninCli(r.sid, r.pid, vSess[fd].map)>>)
  /\ UNCHANGED vSess

(* NET_SET_SRV_ID: a player has been certified on a session, or is moved   *)
(* to another map.                                                         *)
SetSrvId(fd) ==
  /\ Reads(fd, "SET_SRV_ID")
  /\ LET r == Head(sent[fd]) IN Emit(fd, <<SigninCli(r.sid, r.pid, r.map)>>)
  /\ UNCHANGED vSess

(* A packet for one player or map, for all players of the map, for a list. *)
ServerPacket(fd) ==
  /\ Reads(fd, "TO")
  /\ LET r == Head(sent[fd]) IN Emit(fd, <<Packet(r.to, r.what, r.arg)>>)
  /\ UNCHANGED vSess

ServerToAll(fd) ==
  /\ Reads(fd, "TO_ALL")
  /\ Emit(fd, <<SendAll(vSess[fd].map)>>)
  /\ UNCHANGED vSess

ServerToMany(fd) ==
  /\ Reads(fd, "TO_MANY")
  /\ Emit(fd, <<SendMul(Head(sent[fd]).pids)>>)
  /\ UNCHANGED vSess

(* Mutant: the map is not written into the query. *)
AskToolUnsigned(fd) ==
  /\ Reads(fd, "QRY_TOOL")
  /\ Emit(fd, <<Packet(PidTool, "QRY_TOOL", PidTool)>>)
  /\ UNCHANGED vSess

(* NET_QRY_TOOL: the map that asks is written into the packet. *)
AskTool(fd) ==
  /\ Reads(fd, "QRY_TOOL")
  /\ Emit(fd, <<Packet(PidTool, "QRY_TOOL", vSess[fd].map)>>)
  /\ UNCHANGED vSess

(* NET_SEND_TO_SCK goes from worker to worker, past the exchange thread,   *)
(* to the session named in its first word.  The map server (sendToSock)    *)
(* puts the number of sids there, which is the sid of no session, and the  *)
(* worker of that number drops the packet.                                 *)
ServerToSock(fd) ==
  /\ Reads(fd, "TO_SCK")
  /\ UNCHANGED <<out, vSess>>

(* The end of a map server's connection, after what it has sent. *)
SrvGone(fd) ==
  /\ Turn(fd, "SRV")
  /\ \A m \in Map : srvFd[m] # fd
  /\ sent[fd] = << >>
  /\ break_sess(fd)
  /\ UNCHANGED <<sent, gSidTool>>

(* The tool server's connection ends: recv returns 0 (gSidTool is reset),  *)
(* or the packet is malformed (it is not).                                 *)
ToolBreak(fd, eof) ==
  /\ Turn(fd, "TOOL")
  /\ break_sess(fd)
  /\ gSidTool' = IF eof THEN None ELSE gSidTool
  /\ UNCHANGED sent

(* NET_ACK_TOOL goes to the map that asked. *)
ToolPacket(fd) ==
  /\ Turn(fd, "TOOL")
  /\ sent[fd] # << >> /\ Head(sent[fd]).type = "ACK_TOOL"
  /\ Emit(fd, <<Packet(Head(sent[fd]).to, "ACK_TOOL", None)>>)
  /\ sent' = [sent EXCEPT ![fd] = Tail(@)]
  /\ UNCHANGED <<vSess, polled, gSidTool, left>>

-----------------------------------------------------------------------------
(* The exchange thread handles the head of exchange_msg. *)

Head_is(cmd) == exq # << >> /\ Head(exq).cmd = cmd
Handles(cmd) ==
  /\ xpc = "next" /\ Head_is(cmd)
  /\ exq' = Tail(exq)
  /\ UNCHANGED <<worker, servers, history>>

(* 0 for a pid that is not in the table. *)
sid_from_pid(pid) == IF pid \in Pid THEN vPid2Sid[pid] ELSE None

(* A packet goes to the session its pid has in the table, or is dropped    *)
(* (there is no core server, gSidCore = 0).                                *)
Route ==
  /\ Handles("PACKET")
  /\ LET b == Head(exq)
         sid == sid_from_pid(b.to)
     IN  wq' = IF sid = None THEN wq
               ELSE [wq EXCEPT ![FdOf(sid)] = Append(@, Routed(sid, b.to, b.type, b.arg))]
  /\ UNCHANGED <<vSess, xpc, vPid2Sid, counts>>

(* CMD_INCOME and CMD_CONNECT go on to the worker of the descriptor. *)
ForwardIncome ==
  /\ Handles("INCOME")
  /\ gCountSck' = gCountSck + 1
  /\ wq' = [wq EXCEPT ![Head(exq).fd] = Append(@, Head(exq))]
  /\ UNCHANGED <<vSess, xpc, vPid2Sid, gCountSrv, gCountPly>>

ForwardConnect ==
  /\ Handles("CONNECT")
  /\ wq' = [wq EXCEPT ![Head(exq).fd] = Append(@, Head(exq))]
  /\ UNCHANGED <<vSess, xpc, vPid2Sid, counts>>

(* add_cli and rem_cli. *)
add_cli(sid, pid) == vPid2Sid' = [vPid2Sid EXCEPT ![pid] = sid]
rem_cli(pid) == vPid2Sid' = [vPid2Sid EXCEPT ![pid] = None]

(* Mutant: no add_cli. *)
SigninServerNoAdd ==
  /\ Handles("SIGNIN_SRV")
  /\ LET b == Head(exq) IN
     IF get_sess(b.sid)
     THEN /\ vSess' = [vSess EXCEPT ![FdOf(b.sid)].state = "ON"]
          /\ gCountSrv' = gCountSrv + 1
     ELSE UNCHANGED <<vSess, gCountSrv>>
  /\ UNCHANGED <<xpc, wq, vPid2Sid, gCountSck, gCountPly>>

SigninServer ==
  /\ Handles("SIGNIN_SRV")
  /\ LET b == Head(exq) IN
     IF get_sess(b.sid)
     THEN /\ vSess' = [vSess EXCEPT ![FdOf(b.sid)].state = "ON"]
          /\ add_cli(b.sid, b.pid)
          /\ gCountSrv' = gCountSrv + 1
     ELSE UNCHANGED <<vSess, vPid2Sid, gCountSrv>>
  /\ UNCHANGED <<xpc, wq, gCountSck, gCountPly>>

(* CMD_SIGNIN_CLI for a session that is gone. *)
SigninLate ==
  /\ Handles("SIGNIN_CLI")
  /\ ~get_sess(Head(exq).sid)
  /\ UNCHANGED <<vSess, xpc, wq, vPid2Sid, counts>>

InSignin(pc) ==
  /\ xpc = pc /\ Head_is("SIGNIN_CLI")
  /\ UNCHANGED <<worker, servers, history>>

(* Mutant: the old session keeps its pid. *)
SigninKickKeepsPid ==
  /\ InSignin("next")
  /\ get_sess(Head(exq).sid)
  /\ LET pid == Head(exq).pid
         tsid == sid_from_pid(pid)
     IN  IF get_sess(tsid)
         THEN /\ wq' = [wq EXCEPT ![FdOf(tsid)] = Append(@, make_packet_fix(tsid, pid, "DUPLICATE"))]
              /\ gCountPly' = gCountPly - 1
         ELSE UNCHANGED <<wq, gCountPly>>
  /\ xpc' = "assign"
  /\ UNCHANGED <<exq, vSess, vPid2Sid, gCountSck, gCountSrv>>

(* Mutant: the old session is not counted off. *)
SigninKickKeepsCount ==
  /\ InSignin("next")
  /\ get_sess(Head(exq).sid)
  /\ LET pid == Head(exq).pid
         tsid == sid_from_pid(pid)
         tfd == FdOf(tsid)
     IN  IF get_sess(tsid)
         THEN /\ vSess' = [vSess EXCEPT ![tfd].pid = None, ![tfd].map = None]
              /\ wq' = [wq EXCEPT ![tfd] = Append(@, make_packet_fix(tsid, pid, "DUPLICATE"))]
         ELSE UNCHANGED <<vSess, wq>>
  /\ xpc' = "assign"
  /\ UNCHANGED <<exq, vPid2Sid, counts>>

(* First the session that has the player now loses it, if there is one. *)
SigninKick ==
  /\ InSignin("next")
  /\ get_sess(Head(exq).sid)
  /\ LET pid == Head(exq).pid
         tsid == sid_from_pid(pid)
         tfd == FdOf(tsid)
     IN  IF get_sess(tsid)
         THEN /\ vSess' = [vSess EXCEPT ![tfd].pid = None, ![tfd].map = None]
              /\ wq' = [wq EXCEPT ![tfd] = Append(@, make_packet_fix(tsid, pid, "DUPLICATE"))]
              /\ gCountPly' = gCountPly - 1
         ELSE UNCHANGED <<vSess, wq, gCountPly>>
  /\ xpc' = "assign"
  /\ UNCHANGED <<exq, vPid2Sid, gCountSck, gCountSrv>>

(* Then the new session gets map and pid ... *)
SigninAssign ==
  /\ InSignin("assign")
  /\ LET b == Head(exq)
         fd == FdOf(b.sid)
     IN  vSess' = [vSess EXCEPT ![fd].map = b.map, ![fd].pid = b.pid]
  /\ xpc' = "on"
  /\ UNCHANGED <<exq, wq, vPid2Sid, counts>>

(* ... and is on, whatever its worker has made of it in the meantime. *)
SigninOn ==
  /\ InSignin("on")
  /\ LET b == Head(exq)
     IN  /\ vSess' = [vSess EXCEPT ![FdOf(b.sid)].state = "ON"]
         /\ add_cli(b.sid, b.pid)
  /\ gCountPly' = gCountPly + 1
  /\ xpc' = "next"
  /\ exq' = Tail(exq)
  /\ UNCHANGED <<wq, gCountSck, gCountSrv>>

(* Mutant: a server is not counted off. *)
SignoutCloseKeepsSrv ==
  /\ xpc = "next" /\ Head_is("SIGNOUT")
  /\ LET sid == Head(exq).sid
         fd == FdOf(sid)
         pid == vSess[fd].pid
     IN  IF get_sess(sid)
         THEN /\ IF pid = None THEN UNCHANGED vPid2Sid ELSE rem_cli(pid)
              /\ gCountSrv' = gCountSrv
              /\ gCountPly' = IF pid \in Player THEN gCountPly - 1 ELSE gCountPly
              /\ open' = open \ {fd}
              /\ xpc' = "wipe"
              /\ UNCHANGED exq
         ELSE /\ exq' = Tail(exq)
              /\ UNCHANGED <<open, xpc, vPid2Sid, gCountSrv, gCountPly>>
  /\ UNCHANGED <<made, sn, polled, out, gSidTool, vSess, wq, gCountSck, servers,
                 history>>

(* Mutant: only a session that is signed in is closed. *)
SignoutCloseSignedIn ==
  /\ xpc = "next" /\ Head_is("SIGNOUT")
  /\ LET sid == Head(exq).sid
         fd == FdOf(sid)
         pid == vSess[fd].pid
     IN  IF get_sess(sid) /\ pid # None
         THEN /\ IF pid = None THEN UNCHANGED vPid2Sid ELSE rem_cli(pid)
              /\ gCountSrv' = IF pid \in Map THEN gCountSrv - 1 ELSE gCountSrv
              /\ gCountPly' = IF pid \in Player THEN gCountPly - 1 ELSE gCountPly
              /\ open' = open \ {fd}
              /\ xpc' = "wipe"
              /\ UNCHANGED exq
         ELSE /\ exq' = Tail(exq)
              /\ UNCHANGED <<open, xpc, vPid2Sid, gCountSrv, gCountPly>>
  /\ UNCHANGED <<made, sn, polled, out, gSidTool, vSess, wq, gCountSck, servers,
                 history>>

(* CMD_SIGNOUT up to the close() in close_sess: from there on the kernel   *)
(* may hand out the descriptor again.                                      *)
SignoutClose ==
  /\ xpc = "next" /\ Head_is("SIGNOUT")
  /\ LET sid == Head(exq).sid
         fd == FdOf(sid)
         pid == vSess[fd].pid
     IN  IF get_sess(sid)
         THEN /\ IF pid = None THEN UNCHANGED vPid2Sid ELSE rem_cli(pid)
              /\ gCountSrv' = IF pid \in Map THEN gCountSrv - 1 ELSE gCountSrv
              /\ gCountPly' = IF pid \in Player THEN gCountPly - 1 ELSE gCountPly
              /\ open' = open \ {fd}
              /\ xpc' = "wipe"
              /\ UNCHANGED exq
         ELSE /\ exq' = Tail(exq)
              /\ UNCHANGED <<open, xpc, vPid2Sid, gCountSrv, gCountPly>>
  /\ UNCHANGED <<made, sn, polled, out, gSidTool, vSess, wq, gCountSck, servers,
                 history>>

(* Mutant: the pid is left behind. *)
SignoutWipeKeepsPid ==
  /\ xpc = "wipe" /\ Head_is("SIGNOUT")
  /\ LET fd == FdOf(Head(exq).sid)
     IN  vSess' = [vSess EXCEPT ![fd] = [NoSess EXCEPT !.pid = vSess[fd].pid]]
  /\ gCountSck' = gCountSck - 1
  /\ xpc' = "next"
  /\ exq' = Tail(exq)
  /\ UNCHANGED <<worker, wq, vPid2Sid, gCountSrv, gCountPly, servers, history>>

(* The rest of close_sess. *)
SignoutWipe ==
  /\ xpc = "wipe" /\ Head_is("SIGNOUT")
  /\ vSess' = [vSess EXCEPT ![FdOf(Head(exq).sid)] = NoSess]
  /\ gCountSck' = gCountSck - 1
  /\ xpc' = "next"
  /\ exq' = Tail(exq)
  /\ UNCHANGED <<worker, wq, vPid2Sid, gCountSrv, gCountPly, servers, history>>

(* A copy for each of a set of sessions. *)
Copies(fds, type) ==
  wq' = [fd \in Fd |-> IF fd \in fds
                       THEN Append(wq[fd], Routed(vSess[fd].sid, vSess[fd].pid, type, None))
                       ELSE wq[fd]]

SendAllCli ==
  /\ Handles("SEND_ALL")
  /\ Copies({fd \in Fd : /\ vSess[fd].map = Head(exq).map
                         /\ vSess[fd].state = "ON" /\ vSess[fd].mode = "CLI"}, "NEWS")
  /\ UNCHANGED <<vSess, xpc, vPid2Sid, counts>>

SendMulCli ==
  /\ Handles("SEND_MUL")
  /\ Copies({FdOf(sid) : sid \in {s \in {sid_from_pid(p) : p \in Head(exq).pids} : get_sess(s)}},
            "NEWS")
  /\ UNCHANGED <<vSess, xpc, vPid2Sid, counts>>

Exchange ==
  \/ Route \/ ForwardIncome \/ ForwardConnect
  \/ SigninServer \/ SigninLate \/ SigninKick \/ SigninAssign \/ SigninOn
  \/ SignoutClose \/ SignoutWipe \/ SendAllCli \/ SendMulCli

-----------------------------------------------------------------------------
(* Packets reach their peer. *)

(* The worker has put a packet on the bufwq of the session it is for, and  *)
(* the socket has taken it; a packet whose session is gone is dropped.     *)
Arrives(fd) ==
  /\ NextIs(fd, "PACKET")
  /\ Took(fd)
  /\ UNCHANGED <<worker, vSess, exq, xpc, vPid2Sid, counts, conn, left, overlapped>>

Current(fd) == fd \in polled /\ Head(wq[fd]).sid = vSess[fd].sid

Discard(fd) ==
  /\ Arrives(fd)
  /\ ~Current(fd) \/ (vSess[fd].mode = "SRV" /\ \A m \in Map : srvFd[m] # fd)
  /\ UNCHANGED <<servers, certified>>

(* A client gets a packet; the tool answers one. *)
ReachClient(fd) ==
  /\ Arrives(fd)
  /\ Current(fd)
  /\ vSess[fd].mode = "CLI"
  /\ UNCHANGED <<servers, certified>>

ReachTool(fd) ==
  /\ Arrives(fd)
  /\ Current(fd)
  /\ vSess[fd].mode = "TOOL"
  /\ Head(wq[fd]).type = "QRY_TOOL"
  /\ sent' = [sent EXCEPT ![fd] = Append(@, [type |-> "ACK_TOOL", to |-> Head(wq[fd]).arg])]
  /\ UNCHANGED <<srvFd, gPlys, certified>>

Say(m, msgs) == sent' = [sent EXCEPT ![srvFd[m]] = @ \o msgs]
SetSrv(sid, map, pid) == [type |-> "SET_SRV_ID", sid |-> sid, map |-> map, pid |-> pid]
To(to, what, arg) == [type |-> "TO", to |-> to, what |-> what, arg |-> arg]

ReachServer(m, type) ==
  LET fd == srvFd[m]
  IN  /\ fd # None
      /\ Arrives(fd)
      /\ Current(fd)
      /\ Head(wq[fd]).type = type
      /\ UNCHANGED srvFd

(* What it is about. *)
Gets(m) == Head(wq[srvFd[m]]).arg

(* The players in gPlys of map server m, and what becomes of one. *)
Plys(m) == {p \in Player : gPlys[m][p].map # None}
Become(m, p, r) == gPlys' = [gPlys EXCEPT ![m][p] = r]
Off(m, p) == [gPlys[m][p] EXCEPT !.gid = FALSE, !.online = FALSE]

(* onBreak tells the home of a guest; sid is what it was called with. *)
CrossBreak(p, sid) == To(emap[p], "CROSS_BREAK", <<p, sid>>)

(* The elements of a set in some order, as pairs() gives them. *)
Orders(S) == {f \in [1..Cardinality(S) -> S] : \A p \in S : \E i \in DOMAIN f : f[i] = p}

(* firstPacket2 refuses, or certifies player p: what the account is online *)
(* as is broken first, then the gate is told of p's session, which is at   *)
(* once another map's when p is a guest there.                             *)
Refuse(m) ==
  /\ ReachServer(m, "FIRST_PACKET2")
  /\ Say(m, <<[type |-> "TO_SCK"]>>)
  /\ UNCHANGED <<gPlys, certified>>

Certify(m, p) ==
  /\ ReachServer(m, "FIRST_PACKET2")
  /\ p \in Plys(m)
  /\ LET sid == Gets(m)[1]
         at == gPlys[m][p].map
         broken == {q \in Plys(m) : /\ Account[q] = Account[p]
                                    /\ gPlys[m][q].gid /\ gPlys[m][q].online}
     IN  /\ gPlys' = [gPlys EXCEPT ![m] = [q \in Player |->
              IF q = p THEN [map |-> at, sockid |-> sid, gid |-> TRUE,
                             online |-> at # m \/ (gPlys[m][p].online /\ p \notin broken)]
              ELSE IF q \in broken THEN Off(m, q) ELSE gPlys[m][q]]]
         /\ \E qs \in Orders({q \in broken : emap[q] # m}) :
              Say(m, [i \in DOMAIN qs |-> CrossBreak(qs[i], gPlys[m][qs[i]].sockid)]
                     \o <<SetSrv(sid, at, p)>>
                     \o (IF at = m THEN << >> ELSE <<To(at, "AGENT_LOGIN", <<p, sid>>)>>))
         /\ certified' = certified \union {<<Gets(m)[2], p>>}

(* A call about a player who is not in gPlys, which changes nothing. *)
Stranger(m) ==
  /\ \/ /\ \E type \in {"REQUEST", "MSG_CLOSE"} : ReachServer(m, type)
        /\ Gets(m) \notin Plys(m)
     \/ /\ \E type \in {"AGENT_LOGIN", "MIGRATE_ACK", "MIGRATE_BACK_ACK", "CROSS_BREAK"} :
             ReachServer(m, type)
        /\ Gets(m)[1] \notin Plys(m)
  /\ UNCHANGED <<sent, gPlys, certified>>

(* onBreak of the player, whatever session it is on: the gate's notice     *)
(* names none.  (dispatch has just marked the player online.)              *)
OnBreak(m) ==
  /\ ReachServer(m, "MSG_CLOSE")
  /\ Gets(m) \in Plys(m)
  /\ LET p == Gets(m)
     IN  /\ Become(m, p, Off(m, p))
         /\ Say(m, IF emap[p] = m THEN << >> ELSE <<CrossBreak(p, None)>>)
  /\ UNCHANGED certified

(* onCrossServerBreak. *)
OnCrossServerBreak(m) ==
  /\ ReachServer(m, "CROSS_BREAK")
  /\ Gets(m)[1] \in Plys(m)
  /\ LET a == Gets(m)
     IN  Become(m, a[1], IF gPlys[m][a[1]].sockid = a[2] THEN Off(m, a[1]) ELSE gPlys[m][a[1]])
  /\ UNCHANGED <<sent, certified>>

(* A call of a player, who is online from then on, and cross_migrate, the  *)
(* call that asks to move from home to another map.                        *)
Request(m) ==
  /\ ReachServer(m, "REQUEST")
  /\ Gets(m) \in Plys(m)
  /\ LET p == Gets(m)
         r == gPlys[m][p]
     IN  /\ Become(m, p, [r EXCEPT !.gid = TRUE, !.online = TRUE])
         /\ \/ UNCHANGED sent
            \/ /\ MayMove /\ emap[p] = m
               /\ \E other \in Map \ {m} :
                    Say(m, <<To(other, "AGENT_MIGRATE", <<p, r.sockid, m>>)>>)
  /\ UNCHANGED certified

AckTool(m) ==
  /\ ReachServer(m, "ACK_TOOL")
  /\ UNCHANGED <<sent, gPlys, certified>>

(* agent_login: the player's session has been given to this map. *)
AgentLogin(m) ==
  /\ ReachServer(m, "AGENT_LOGIN")
  /\ Gets(m)[1] \in Plys(m)
  /\ LET a == Gets(m)
     IN  Become(m, a[1], [gPlys[m][a[1]] EXCEPT !.gid = TRUE, !.sockid = a[2]])
  /\ UNCHANGED <<sent, certified>>

(* agent_migrate: player_data_push makes a record of the guest. *)
AgentMigrate(m) ==
  /\ ReachServer(m, "AGENT_MIGRATE")
  /\ LET a == Gets(m)
     IN  /\ Become(m, a[1], [map |-> m, sockid |-> a[2], gid |-> FALSE,
                             online |-> gPlys[m][a[1]].online])
         /\ Say(m, <<To(a[3], "MIGRATE_ACK", <<a[1], m>>)>>)
  /\ UNCHANGED certified

(* The player's session is given to the other map. *)
HandOver(m, p, other) ==
  <<SetSrv(gPlys[m][p].sockid, other, p),
    To(other, "AGENT_LOGIN", <<p, gPlys[m][p].sockid>>)>>

(* agent_migrate_ack: home keeps the record, and all of it but the map. *)
AgentMigrateAck(m) ==
  /\ ReachServer(m, "MIGRATE_ACK")
  /\ Gets(m)[1] \in Plys(m)
  /\ LET p == Gets(m)[1]
         other == Gets(m)[2]
     IN  /\ Say(m, HandOver(m, p, other))
         /\ Become(m, p, IF emap[p] = m THEN [gPlys[m][p] EXCEPT !.map = other] ELSE NoPly)
  /\ UNCHANGED certified

(* agent_migrate_back: player_data_reset, which waits for the database     *)
(* before it changes anything here, then player_data_push.                 *)
AgentMigrateBack(m) ==
  /\ ReachServer(m, "MIGRATE_BACK")
  /\ LET a == Gets(m)
     IN  /\ Become(m, a[1], [NoPly EXCEPT !.map = m, !.sockid = a[2]])
         /\ Say(m, <<To(a[3], "MIGRATE_BACK_ACK", <<a[1], m>>)>>)
  /\ UNCHANGED certified

(* agent_migrate_back_ack. *)
AgentMigrateBackAck(m) ==
  /\ ReachServer(m, "MIGRATE_BACK_ACK")
  /\ Gets(m)[1] \in Plys(m)
  /\ LET p == Gets(m)[1]
     IN  /\ Say(m, IF gPlys[m][p].gid THEN HandOver(m, p, Gets(m)[2]) ELSE << >>)
         /\ Become(m, p, NoPly)
  /\ UNCHANGED certified

(* A map server of its own accord. *)
Talks(m) ==
  /\ srvFd[m] # None
  /\ sent[srvFd[m]] = << >>
  /\ Calm
  /\ UNCHANGED <<worker, vSess, exq, xpc, wq, vPid2Sid, counts, srvFd, gPlys, history>>

Chatter(m, p) ==
  /\ Chatty
  /\ Talks(m)
  /\ \E r \in {To(p, "NEWS", p), [type |-> "TO_ALL"],
               [type |-> "TO_MANY", pids |-> {p}], [type |-> "QRY_TOOL"]} :
       Say(m, <<r>>)

(* cross_migrate_back, called by the player, by a timer or at the end of   *)
(* the war: a guest asks its home to take it back.                         *)
MigrateBack(m, p) ==
  /\ MayMove
  /\ Talks(m)
  /\ p \in Plys(m)
  /\ emap[p] # m
  /\ Say(m, <<To(emap[p], "MIGRATE_BACK", <<p, gPlys[m][p].sockid, m>>)>>)

(* The map server's end of the connection closes. *)
SrvDrop(m) ==
  /\ SrvDrops
  /\ srvFd[m] \in polled
  /\ srvFd' = [srvFd EXCEPT ![m] = None]
  /\ UNCHANGED <<worker, vSess, exq, xpc, wq, vPid2Sid, counts, sent, gPlys,
                 history>>

-----------------------------------------------------------------------------
Worker(fd) ==
  \/ Flush(fd) \/ DoIncome(fd) \/ DoConnect(fd) \/ Shake(fd)
  \/ SetMapId(fd) \/ SetSrvId(fd)
  \/ ServerPacket(fd) \/ ServerToAll(fd) \/ ServerToMany(fd)
  \/ AskTool(fd) \/ ServerToSock(fd) \/ ToolPacket(fd) \/ SrvGone(fd)

Peer(fd) ==
  \/ \E m \in Map : Accept(fd, "CLI", m) \/ Accept(fd, "SRV", m) \/ FirstPacket(fd, m)
  \/ start_connect(fd)
  \/ ClientPacket(fd) \/ ClientBreak(fd)
  \/ \E n \in 1..Cardinality(Player) : \E to \in [1..n -> Player] : ClientToPlayers(fd, to)
  \/ \E eof \in BOOLEAN : ToolBreak(fd, eof)

Handle(m) ==
  \/ Refuse(m) \/ \E p \in Player : Certify(m, p)
  \/ Stranger(m) \/ OnBreak(m) \/ OnCrossServerBreak(m)
  \/ Request(m) \/ AckTool(m) \/ AgentLogin(m)
  \/ AgentMigrate(m) \/ AgentMigrateAck(m)
  \/ AgentMigrateBack(m) \/ AgentMigrateBackAck(m)

Server(m) ==
  \/ SrvDrop(m)
  \/ \E p \in Player : Chatter(m, p) \/ MigrateBack(m, p)

Next ==
  \/ \E fd \in Fd : Worker(fd) \/ Peer(fd) \/ Discard(fd) \/ ReachClient(fd) \/ ReachTool(fd)
  \/ Exchange
  \/ \E m \in Map : Handle(m) \/ Server(m)

Spec == Init /\ [][Next]_vars

(* The threads run, sockets take what is sent and map servers handle what  *)
(* they get.  Nobody has to connect, speak or leave.                       *)
Fairness ==
  /\ \A fd \in Fd : WF_vars(Worker(fd)) /\ WF_vars(Discard(fd) \/ ReachClient(fd) \/ ReachTool(fd))
  /\ WF_vars(Exchange)
  /\ \A m \in Map : WF_vars(Handle(m))

FairSpec == Spec /\ Fairness

-----------------------------------------------------------------------------
PidOrNone == Pid \union {None}
MapOrNone == Map \union {None}
SidOrNone == Sid \union {None}
Sess == [sid : SidOrNone, mode : Mode \union {None}, state : State \union {None},
         pid : PidOrNone, map : MapOrNone]

(* What a packet carries, by its type. *)
ForPlayer == {"P2P", "NEWS", "DUPLICATE"}
Agents == {"AGENT_LOGIN", "AGENT_MIGRATE", "MIGRATE_ACK", "MIGRATE_BACK",
           "MIGRATE_BACK_ACK", "CROSS_BREAK"}
ForServer == {"FIRST_PACKET2", "REQUEST", "MSG_CLOSE", "ACK_TOOL"} \union Agents
Type == ForPlayer \union ForServer \union {"QRY_TOOL"}
Arg == PidOrNone \union (SidOrNone \X Nat) \union (Player \X SidOrNone) \union
       (Player \X SidOrNone \X Map) \union (Player \X Map)
Carries(type, arg) ==
  CASE type = "FIRST_PACKET2" -> arg \in SidOrNone \X Nat
    [] type \in {"AGENT_LOGIN", "CROSS_BREAK"} -> arg \in Player \X SidOrNone
    [] type \in {"AGENT_MIGRATE", "MIGRATE_BACK"} -> arg \in Player \X SidOrNone \X Map
    [] type \in {"MIGRATE_ACK", "MIGRATE_BACK_ACK"} -> arg \in Player \X Map
    [] type = "QRY_TOOL" -> arg \in MapOrNone
    [] OTHER -> arg \in PidOrNone

Packets ==
  {b \in [cmd : {"PACKET"}, to : PidOrNone, type : Type, arg : Arg] : Carries(b.type, b.arg)}
RoutedPackets ==
  {b \in [cmd : {"PACKET"}, sid : SidOrNone, to : PidOrNone, type : Type, arg : Arg] :
     Carries(b.type, b.arg)}
NewConns ==
  [cmd : {"INCOME"}, fd : Fd, mode : {"CLI", "SRV"}] \union [cmd : {"CONNECT"}, fd : Fd]
Commands ==
  NewConns \union Packets \union
  [cmd : {"SIGNIN_SRV"}, sid : SidOrNone, pid : Map \union {PidTool}] \union
  [cmd : {"SIGNIN_CLI"}, sid : SidOrNone, pid : Player, map : Map] \union
  [cmd : {"SIGNOUT"}, sid : SidOrNone] \union
  [cmd : {"SEND_ALL"}, map : MapOrNone] \union
  [cmd : {"SEND_MUL"}, pids : SUBSET Player]

(* What map servers have of a player. *)
Ply == [map : MapOrNone, sockid : SidOrNone, gid : BOOLEAN, online : BOOLEAN]

(* What map servers and the tool server write. *)
Said ==
  [type : {"SET_MAP_ID"}, map : Map] \union
  [type : {"SET_SRV_ID"}, sid : SidOrNone, map : Map, pid : Player] \union
  {r \in [type : {"TO"}, to : PidOrNone, what : Type, arg : Arg] : Carries(r.what, r.arg)} \union
  [type : {"TO_ALL", "QRY_TOOL", "TO_SCK"}] \union
  [type : {"TO_MANY"}, pids : SUBSET Player] \union
  [type : {"ACK_TOOL"}, to : MapOrNone]

(* Every variable keeps its range: no command or packet is ever without    *)
(* what the code that handles it reads.                                    *)
TypeOK ==
  /\ made \in 0..MaxConns /\ sn \in Nat
  /\ open \in SUBSET Fd /\ polled \in SUBSET Fd
  /\ vSess \in [Fd -> Sess]
  /\ out \in [Fd -> Seq(Commands)]
  /\ exq \in Seq(Commands)
  /\ xpc \in {"next", "assign", "on", "wipe"}
  /\ wq \in [Fd -> Seq(RoutedPackets \union NewConns)]
  /\ vPid2Sid \in [Pid -> SidOrNone]
  /\ gSidTool \in SidOrNone
  /\ gCountSck \in Int /\ gCountSrv \in Int /\ gCountPly \in Int
  /\ sent \in [Fd -> Seq(Said)]
  /\ srvFd \in [Map -> Fd \union {None}]
  /\ gPlys \in [Map -> [Player -> Ply]]
  /\ conn \in [Fd -> Nat]

(* A player has one session at most: whenever the exchange thread is       *)
(* between two commands, vPid2Sid[p] is the live client session whose pid  *)
(* is p, and no session has pid p when p is not in the table.  Takeovers,  *)
(* late signins and workers that break a session in between keep it so.    *)
TableMatchesSessions ==
  xpc = "next" => \A p \in Player :
    LET sid == vPid2Sid[p]
    IN  /\ sid # None => /\ get_sess(sid)
                         /\ vSess[FdOf(sid)].mode = "CLI"
        /\ \A fd \in Fd : vSess[fd].pid = p <=> sid # None /\ fd = FdOf(sid)

(* What reaches a peer for pid p reaches a connection that was certified   *)
(* as p: a descriptor's next connection gets nothing meant for the one     *)
(* before it, and is not signed in by a NET_SET_SRV_ID meant for that.     *)
OnlyToCertified ==
  \A fd \in polled :
    /\ vSess[fd].pid # None => <<conn[fd], vSess[fd].pid>> \in certified
    /\ \A i \in DOMAIN wq[fd] :
         LET b == wq[fd][i]
         IN  b.cmd = "PACKET" /\ b.sid = vSess[fd].sid
               => <<conn[fd], b.to>> \in certified

(* What the peers are sent is of a kind they take: a packet for a map      *)
(* server never reaches a client or the tool, nor one of theirs another.   *)
KindOf(type) ==
  IF type \in ForServer THEN "SRV" ELSE IF type = "QRY_TOOL" THEN "TOOL" ELSE "CLI"
RightKind ==
  \A fd \in polled : \A i \in DOMAIN wq[fd] :
    wq[fd][i].cmd = "PACKET" /\ wq[fd][i].sid = vSess[fd].sid
      => vSess[fd].mode = KindOf(wq[fd][i].type)

(* CMD_INCOME and CMD_CONNECT find the session wiped: do_cmd sets neither  *)
(* pid nor map, and close_sess gives the descriptor back before its memset *)
FreshSession ==
  \A fd \in Fd : \A i \in DOMAIN wq[fd] :
    wq[fd][i].cmd \in {"INCOME", "CONNECT"} => vSess[fd] = NoSess

(* gCountPly counts the players in the table. *)
PlayersCounted ==
  xpc = "next" =>
    gCountPly = Cardinality({p \in Player : vPid2Sid[p] # None})

(* What status() checks and reports as an ERROR otherwise: signed-in       *)
(* servers and players are never more than the connections.                *)
CountsAddUp == gCountSrv + gCountPly <= gCountSck

(* The counters say what the table does, and pass the check. *)
CountsAgree == PlayersCounted /\ CountsAddUp

(* A map server whose signin has been handled is in the table as long as   *)
(* its connection is polled, so that packets for it are not dropped, if no *)
(* other connection of the same server has been open together with it:     *)
(* CMD_SIGNOUT of that one calls rem_cli(pid) whatever sid the table has.  *)
ServerStaysMapped ==
  \A fd \in polled :
    LET s == vSess[fd]
        pending(q) == \E i \in DOMAIN q : q[i] = SigninSrv(s.sid, s.pid)
    IN  s.mode = "SRV" /\ s.state = "ON" /\ conn[fd] \notin overlapped =>
          pending(out[fd]) \/ pending(exq) \/ vPid2Sid[s.pid] = s.sid

(* When nothing is in flight, a map server that takes a player for online  *)
(* on a session, knows the map the session's packets go to for the map of  *)
(* the player, and is that map or the player's home; and that map has the  *)
(* player.  Moves, returns, breaks and the sign-ins of guests take session *)
(* and player along.                                                       *)
Settled ==
  /\ exq = << >> /\ xpc = "next"
  /\ \A fd \in Fd : out[fd] = << >> /\ wq[fd] = << >> /\ sent[fd] = << >>

MapFollowsPlayer ==
  Settled => \A fd \in polled, m \in Map, p \in Player :
    LET s == vSess[fd]
        r == gPlys[m][p]
    IN  s.pid = p /\ r.gid /\ r.sockid = s.sid =>
          /\ r.map = s.map /\ gPlys[s.map][p].map = s.map
          /\ m \in {s.map, emap[p]}

(* When a client that is signed in as p breaks, the map server stops       *)
(* taking p for online on that session, unless a call that another session  *)
(* of p made arrives after the notice.                                     *)
ServerLearns ==
  \A fd \in Fd, n \in 1..MaxConns, p \in Player :
    <<<<n, fd>>, p>> \in left
      ~> \A m \in Map : ~(gPlys[m][p].gid /\ gPlys[m][p].sockid = <<n, fd>>)

(* A descriptor its worker has given up is closed, and does not stay in    *)
(* between (it may at once be the descriptor of the next connection).      *)
DescriptorsComeBack ==
  \A fd \in Fd :
    (fd \in open /\ fd \notin polled) ~> (fd \notin open \/ fd \in polled)

(* CMD_SIGNIN_CLI logs "ERROR, signin, ... why?" unless the session is in  *)
(* STATE_LOGIN with no pid.                                                *)
SigninFindsLogin ==
  xpc = "assign" =>
    LET s == vSess[FdOf(Head(exq).sid)] IN s.state = "LOGIN" /\ s.pid = None

=============================================================================
