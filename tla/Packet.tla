------------------------------- MODULE Packet -------------------------------
(***************************************************************************)
(* handle.c: how a frame of the Lua thread reads the packets that have     *)
(* come (pullBuf) and writes those it sends (pushBuf), while any of its    *)
(* handlers may end in a Lua error.  Cells are two bytes.  What is sent    *)
(* comes back by way of the network, several packets of a session in one   *)
(* buffer.                                                                 *)
(***************************************************************************)
EXTENDS Integers, SequencesExt

CONSTANTS
  Sid,        \* sessions
  BUF_SIZE,   \* room of a new buffer, in cells
  MaxString,  \* 65535 bytes: longer strings are cut
  Args,       \* lists of <<"int", v>>, <<"string", length>>, <<"pack", length>>
  MaxPackets, \* bound: packets begun, packets of peers and notices
  None

VARIABLES
  frame,      \* "out"; in lua_loop: "begun", "packets" while the pk coroutines run, "rest"
  buf,        \* pushBuf's buffer: its session, its cells up to cur and its room, or None
  gRpcBufQ, gSndBufq, gRcvBufq, gRecvPackQ,
  pull,       \* pullBuf's buffer: its session, mode, cells, cur and end, or None
  adding,     \* the arguments still to be written and those written, or None
  reading,    \* the types of the arguments still to be read
  sent,       \* the packets sent to a session, each its fields (history)
  taken,      \* the packets Lua was given of a session, each what it has pulled (history)
  begun,      \* packets begun and notices (history)
  over        \* a cell was written past the end of a buffer

vars == <<frame, buf, gRpcBufQ, gSndBufq, gRcvBufq, gRecvPackQ, pull, adding, reading, sent, taken, begun, over>>
pushing == <<buf, adding, gRpcBufQ, sent, begun, over>>
network == <<gSndBufq, gRcvBufq>>
pulling == <<gRecvPackQ, pull, reading, taken>>

Word(n) == <<<<"hi", n>>, <<"lo", n>>>>
Read(cells, p) == cells[p + 1][2]       \* ntohl of the word at p

(* What OP_I4, OP_S and OP_PACK write. *)
Cells(f) ==
  CASE f[1] = "int"    -> Word(f[2])
    [] f[1] = "string" -> <<<<"short", f[2]>>>> \o [i \in 1..f[2] |-> <<"char", i>>]
    [] f[1] = "pack"   -> Word(f[2]) \o [i \in 1..f[2] |-> <<"char", i>>]

Kinds(fs) == [i \in DOMAIN fs |-> fs[i][1]]
Head4(fs) == Word(0) \o <<<<"hi", Kinds(fs)>>, <<"lo", Kinds(fs)>>>>   \* pid and pktype
Cut(f) == IF f[1] = "string" /\ f[2] > MaxString THEN <<"string", MaxString>> ELSE f

Init ==
  /\ frame = "out" /\ buf = None /\ pull = None /\ adding = None /\ reading = <<>>
  /\ gRpcBufQ = <<>> /\ gSndBufq = <<>> /\ gRcvBufq = <<>> /\ gRecvPackQ = <<>>
  /\ sent = [s \in Sid |-> <<>>] /\ taken = [s \in Sid |-> <<>>]
  /\ begun = 0 /\ over = FALSE

-----------------------------------------------------------------------------
(* Writing. *)

new_buf(size) == [sid |-> None, cells |-> <<>>, room |-> Max({size, BUF_SIZE})]

(* CHECK_BUF: what has been written moves to a buffer of twice the size. *)
Grown(b, size) ==
  IF b.room - Len(b.cells) < size THEN [b EXCEPT !.room = new_buf((Len(b.cells) + size) * 2).room]
  ELSE b

Written(b, cells) == [Grown(b, Len(cells)) EXCEPT !.cells = @ \o cells]
Overrun(b) == Len(b.cells) > b.room

(* Whatever an error has left in the buffer is written over; the first word
   is for the length. *)
pushHead(s, fs) ==
  /\ frame \in {"packets", "rest"} /\ adding = None /\ begun < MaxPackets
  /\ LET b == IF buf = None THEN new_buf(0) ELSE buf
     IN  buf' = Written([b EXCEPT !.sid = s, !.cells = <<>>], Word(0) \o Head4(fs))
  /\ adding' = [todo |-> fs, done |-> <<>>] /\ begun' = begun + 1
  /\ over' = (over \/ Overrun(buf'))
  /\ UNCHANGED <<frame, gRpcBufQ, sent, network, pulling>>

(* pushInt, pushString, pushPack *)
push ==
  /\ adding # None /\ adding.todo # <<>>
  /\ LET f == Cut(Head(adding.todo))
     IN  /\ buf' = Written(buf, Cells(f))
         /\ adding' = [todo |-> Tail(adding.todo), done |-> Append(adding.done, f)]
  /\ over' = (over \/ Overrun(buf'))
  /\ UNCHANGED <<frame, gRpcBufQ, sent, begun, network, pulling>>

(* luaL_check...: the packet is given up, the buffer stays as it is. *)
PushFails ==
  /\ adding # None /\ adding' = None
  /\ UNCHANGED <<frame, buf, gRpcBufQ, sent, begun, over, network, pulling>>

Finished(cells) == Word(Len(cells) - 2) \o SubSeq(cells, 3, Len(cells))

pushOver ==
  /\ adding # None /\ adding.todo = <<>>
  /\ gRpcBufQ' = Append(gRpcBufQ, [sid |-> buf.sid, cells |-> Finished(buf.cells)])
  /\ sent' = [sent EXCEPT ![buf.sid] = Append(@, adding.done)]
  /\ buf' = None /\ adding' = None
  /\ UNCHANGED <<frame, begun, over, network, pulling>>

(* The buffer goes to the roi thread instead. *)
pushAround ==
  /\ adding # None /\ adding.todo = <<>> /\ buf' = None /\ adding' = None
  /\ UNCHANGED <<frame, gRpcBufQ, sent, begun, over, network, pulling>>

(* A packet Lua has made itself, in a buffer of its own. *)
pushPkg(s) ==
  /\ frame \in {"packets", "rest"} /\ adding = None /\ begun < MaxPackets
  /\ gRpcBufQ' = Append(gRpcBufQ, [sid |-> s, cells |-> Finished(Word(0) \o Head4(<<>>))])
  /\ sent' = [sent EXCEPT ![s] = Append(@, <<>>)] /\ begun' = begun + 1
  /\ UNCHANGED <<frame, buf, adding, over, network, pulling>>

-----------------------------------------------------------------------------
(* Reading. *)

Unread(p) == p.cur   \* Mutant: what the handler has left is not skipped
Ahead(p) == p.end

(* OP_NEXT: the next packet of the buffer, or of the next one that has any. *)
RECURSIVE NextOf(_, _)
NextOf(p, q) ==
  CASE p = None /\ q = <<>> -> [pull |-> None, q |-> <<>>]
    [] p = None /\ q # <<>> -> NextOf(Head(q), Tail(q))
    [] p # None ->
         LET at == Ahead(p)
             end == at + 2 + Read(p.cells, at)
         IN  IF at + 2 > Len(p.cells) THEN NextOf(None, q)
             ELSE IF end > Len(p.cells) \/ (p.mode = 0 /\ at + 6 > end) THEN NextOf(None, q)
             ELSE [pull |-> [p EXCEPT !.cur = at + 2, !.end = end], q |-> q]

(* pullNext, and the pid and the type of the packet: do_threadPK goes on
   until there is none. *)
pullNext ==
  /\ frame \in {"begun", "packets"} /\ adding = None
  /\ LET n == NextOf(pull, gRecvPackQ)
         p == n.pull
         game == p # None /\ p.mode = 0
     IN  /\ gRecvPackQ' = n.q
         /\ frame' = IF p = None THEN "rest" ELSE "packets"
         /\ reading' = IF game THEN Read(p.cells, p.cur + 2) ELSE <<>>
         /\ pull' = IF game THEN [p EXCEPT !.cur = @ + 4] ELSE p
         /\ taken' = IF game THEN [taken EXCEPT ![p.sid] = Append(@, <<>>)] ELSE taken
  /\ UNCHANGED <<network, pushing>>

(* pullInt, pullString, pullPack: CHECK_REMAIN skips the rest of a packet
   that is too short. *)
pullArg ==
  /\ frame = "packets" /\ reading # <<>>
  /\ LET kind == Head(reading)
         lead == IF kind = "string" THEN 1 ELSE 2
         n == IF kind = "int" THEN 0 ELSE Read(pull.cells, pull.cur)
         short == pull.end - pull.cur < lead \/ pull.end - pull.cur - lead < n
         got == <<kind, IF kind = "int" THEN Read(pull.cells, pull.cur) ELSE n>>
     IN  IF short THEN pull' = [pull EXCEPT !.cur = pull.end] /\ reading' = <<>> /\ UNCHANGED taken
         ELSE /\ pull' = [pull EXCEPT !.cur = @ + lead + n] /\ reading' = Tail(reading)
              /\ taken' = [taken EXCEPT ![pull.sid] = [@ EXCEPT ![Len(@)] = Append(@, got)]]
  /\ UNCHANGED <<frame, gRecvPackQ, network, pushing>>

-----------------------------------------------------------------------------
(* lua_loop: a frame takes what has come; the Lua code before the packets
   may fail, and then they stay where they are. *)
BeginFrame ==
  /\ frame = "out"
  /\ gRecvPackQ' = gRecvPackQ \o gRcvBufq /\ gRcvBufq' = <<>>
  /\ gRpcBufQ' = <<>>
  /\ frame' = IF gRcvBufq # <<>> THEN "begun" ELSE "rest"
  /\ UNCHANGED <<buf, adding, sent, begun, over, gSndBufq, pull, reading, taken>>

EndFrame ==
  /\ frame \in {"begun", "rest"} /\ adding = None
  /\ gSndBufq' = gSndBufq \o gRpcBufQ /\ gRpcBufQ' = <<>>
  /\ frame' = "out"
  /\ UNCHANGED <<buf, adding, sent, begun, over, gRcvBufq, pulling>>

Received(s, mode, cells) ==
  gRcvBufq' = Append(gRcvBufq, [sid |-> s, mode |-> mode, cells |-> cells, cur |-> 0, end |-> 0])

(* The network: the first n packets of a session in one buffer. *)
Arrive(s, n) ==
  LET mine == SetToSortSeq({j \in DOMAIN gSndBufq : gSndBufq[j].sid = s}, <)
      some == SubSeq(mine, 1, n)
  IN  /\ Len(mine) >= n
      /\ Received(s, 0, FlattenSeq([i \in 1..n |-> gSndBufq[some[i]].cells]))
      /\ gSndBufq' = FoldRight(LAMBDA j, q : RemoveAt(q, j), some, gSndBufq)
      /\ UNCHANGED <<frame, pushing, pulling>>

(* notify: a notice about a session; the code that handles it may leave its
   words unread. *)
Notice(s) ==
  /\ begun < MaxPackets /\ begun' = begun + 1
  /\ Received(s, 1, Word(2) \o Word(7))
  /\ UNCHANGED <<frame, buf, adding, gRpcBufQ, sent, over, gSndBufq, pulling>>

(* A peer whose packet is shorter than its string: no argument can be read. *)
Peer(s) ==
  LET f == <<"string", 1>>
      cells == Word(0) \o Head4(<<f, f>>) \o <<<<"short", 9>>, <<"char", 1>>>>
  IN  /\ frame = "out" /\ begun < MaxPackets /\ begun' = begun + 1
      /\ gSndBufq' = Append(gSndBufq, [sid |-> s, cells |-> Finished(cells)])
      /\ sent' = [sent EXCEPT ![s] = Append(@, <<>>)]
      /\ UNCHANGED <<frame, buf, adding, gRpcBufQ, over, gRcvBufq, pulling>>

Next ==
  \/ BeginFrame \/ EndFrame \/ push \/ PushFails \/ pushOver \/ pushAround \/ pullNext \/ pullArg
  \/ \E s \in Sid :
       \/ \E fs \in Args : pushHead(s, fs)
       \/ \E n \in 1..MaxPackets : Arrive(s, n)
       \/ pushPkg(s) \/ Notice(s) \/ Peer(s)

Spec == Init /\ [][Next]_vars

(* What is handed to Lua of a session is what was sent to it, packet by
   packet and argument by argument, however many errors have cut packets short
   while they were written and whatever the handlers leave unread; nothing is
   lost once it is all read, and no buffer is written past its end. *)
HandledAsSent ==
  /\ ~over
  /\ \A s \in Sid :
       /\ Len(taken[s]) <= Len(sent[s])
       /\ \A i \in DOMAIN taken[s] : IsPrefix(taken[s][i], sent[s][i])
       /\ frame = "out" /\ <<gRpcBufQ, gSndBufq, gRcvBufq, gRecvPackQ>> = <<<<>>, <<>>, <<>>, <<>>>>
            /\ pull = None => Len(taken[s]) = Len(sent[s])

=============================================================================
