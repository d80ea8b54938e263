------------------------------ MODULE NetSess ------------------------------
(***************************************************************************)
(* The network of a map server, net.c over buf.c: the sessions of the      *)
(* event thread, the list gSndBufq from the Lua thread to it, the lists    *)
(* gRcvBufqTmp and gRcvBufq back, and the thread that connects.  A session *)
(* id is the connection it was made for: makesid does not repeat an id     *)
(* before its serial has gone round.  A byte stream is a sequence of       *)
(* units; the first unit of a packet tells its size.                       *)
(***************************************************************************)
EXTENDS Naturals, SequencesExt

CONSTANTS Conn,       \* the connections of a run, 1..n, in the order they are made
          Called,     \* those made by connect_to, the others come to the listener
          Fd,         \* descriptors the kernel hands out
          Size,       \* sizes of the packets a peer sends; 0 is malformed
          Room,       \* BUF_SIZE
          MaxPacket,  \* MAX_SERVER_PACKET_SIZE
          MaxTraffic  \* bound: packets of peers, buffers of Lua and closes of either

ASSUME NetAssumption ==
  /\ Conn \subseteq Nat \ {0} /\ IsFiniteSet(Conn) /\ \A c \in Conn : 1..c \subseteq Conn
  /\ Called \subseteq Conn /\ 0 \notin Fd
  /\ Size \subseteq Nat /\ {Room, MaxPacket} \subseteq Nat \ {0} /\ MaxTraffic \in Nat

VARIABLES
  fdOf,      \* the descriptor in a session id, 0 before makesid
  held,      \* connections whose descriptor is open
  inq,       \* units that have arrived on a connection and not been read
  gone,      \* connections the peer has closed
  wire,      \* units written to a connection (history)
  sess,      \* gSess
  gSndBufq, gRcvBufqTmp, gRcvBufq, gConnectQue,
  tick,      \* the event thread: "loop", or where in on_tick
  todo,      \* the list q of on_tick
  came,      \* packets the peer has sent (history)
  out,       \* buffers Lua has sent (history)
  asked,     \* sessions Lua has asked to close
  seen,      \* what Lua has been told of a session (history)
  raced      \* a notice met gRcvBufqTmp in the middle of another change (history)

net == <<sess, gSndBufq, gRcvBufqTmp, gRcvBufq, gConnectQue, tick, todo>>
kernel == <<fdOf, held, inq, gone, wire>>
ghost == <<came, out, asked, seen, raced>>
vars == <<net, kernel, ghost>>

Unit == [of : Nat, i : Nat, size : Nat]
Units(n, size) == IF size = 0 THEN <<[of |-> n, i |-> 1, size |-> 0]>>
                  ELSE [i \in 1..size |-> [of |-> n, i |-> i, size |-> size]]
Free == [sid |-> 0, state |-> "close", bufr |-> << >>, cap |-> Room,
         bufw |-> << >>, bufwq |-> << >>, evw |-> FALSE]

Init ==
  /\ fdOf = [c \in Conn |-> 0] /\ held = {}
  /\ inq = [c \in Conn |-> << >>] /\ gone = {} /\ wire = [c \in Conn |-> << >>]
  /\ sess = [f \in Fd |-> Free]
  /\ gSndBufq = << >> /\ gRcvBufqTmp = << >> /\ gRcvBufq = << >> /\ gConnectQue = << >>
  /\ tick = "loop" /\ todo = << >>
  /\ came = [c \in Conn |-> << >>] /\ out = [c \in Conn |-> 0]
  /\ asked = {} /\ seen = [c \in Conn |-> << >>] /\ raced = FALSE

Session(c) == fdOf[c] # 0 /\ sess[fdOf[c]].sid = c     \* getSessBySid
(* What Lua is told of a session: the packets 1, 2, ... and these notices. *)
CONN_COMP == <<"comp", 0>>
CONN_FAIL == <<"fail", 0>>
CLOSE == <<"close", 0>>
Packet(k) == <<"packet", k>>
Note(c, what) == [sid |-> c, what |-> <<what>>]
Work(s) == s.bufw # << >> \/ s.bufwq # << >>

(* The bound on traffic is not reached. *)
Quiet ==
  LET n(c) == Len(came[c]) + out[c]
  IN  Cardinality(asked) + Cardinality(gone) + FoldSet(LAMBDA c, k : k + n(c), 0, Conn) < MaxTraffic

(* makesid for the next connection, on a descriptor the kernel has free.   *)
makesid(c, f) ==
  /\ fdOf[c] = 0 /\ \A b \in 1..(c - 1) : fdOf[b] # 0
  /\ f \notin {fdOf[b] : b \in held}
  /\ fdOf' = [fdOf EXCEPT ![c] = f] /\ held' = held \union {c}

-----------------------------------------------------------------------------
(* The event thread. *)

(* Mutant: the id stays. *)
WipedButId(s) == [Free EXCEPT !.sid = s.sid, !.state = s.state]
Wiped(s) == [Free EXCEPT !.state = s.state, !.evw = s.evw /\ ~Work(s)]

close_session(f, s) ==
  /\ gRcvBufqTmp' = Append(gRcvBufqTmp, Note(s.sid, CLOSE))
  /\ sess' = [sess EXCEPT ![f] = Wiped(s)]
  /\ held' = held \ {s.sid}

accept_callback(c) ==
  /\ c \notin Called /\ tick = "loop"
  /\ \E f \in Fd : makesid(c, f)
  /\ gSndBufq' = Append(gSndBufq, [sid |-> 0, cmd |-> "income", arg |-> c, seed |-> TRUE])
  /\ UNCHANGED <<sess, gRcvBufqTmp, gRcvBufq, gConnectQue, tick, todo, inq, gone, wire, ghost>>

(* Mutant: nothing is fetched while there is nothing to send. *)
SomeToSend == gSndBufq # << >>
SomeToDo == gRcvBufqTmp # << >> \/ gSndBufq # << >>

(* A new socket is writable: its seed goes out on the next poll, before    *)
(* the timer of the next tick is due.                                      *)
on_tick ==
  /\ tick = "loop" /\ \A f \in Fd : sess[f].sid # 0 => sess[f].state # "seed"
  /\ SomeToDo
  /\ gRcvBufq' = gRcvBufq \o gRcvBufqTmp
  /\ tick' = "spliced"
  /\ UNCHANGED <<sess, gSndBufq, gRcvBufqTmp, gConnectQue, todo, kernel, ghost>>

StillSpliced == gRcvBufqTmp       \* Mutant: the list is not emptied
AfterSplice == << >>

(* INIT_LIST_HEAD(&gRcvBufqTmp) after the unlock, and the list to send.    *)
TakeSndBufq ==
  /\ tick = "spliced"
  /\ gRcvBufqTmp' = AfterSplice
  /\ todo' = gSndBufq /\ gSndBufq' = << >>
  /\ tick' = IF todo' = << >> THEN "loop" ELSE "todo"
  /\ UNCHANGED <<sess, gRcvBufq, gConnectQue, kernel, ghost>>

Arm(s) == s.bufw = << >> /\ s.bufwq = << >>

AddIncome(b) ==
  /\ sess' = [sess EXCEPT ![fdOf[b.arg]] =
       [Free EXCEPT !.sid = b.arg, !.state = IF b.seed THEN "seed" ELSE "ok", !.evw = b.seed]]
  /\ gRcvBufqTmp' = Append(gRcvBufqTmp, Note(b.arg, CONN_COMP))
  /\ UNCHANGED held

HandleBuf ==
  /\ tick = "todo" /\ todo' = Tail(todo)
  /\ tick' = IF todo' = << >> THEN "loop" ELSE "todo"
  /\ LET b == Head(todo) IN
     \/ /\ b.sid # 0 /\ Session(b.sid)
        /\ sess' = [sess EXCEPT ![fdOf[b.sid]].evw = @ \/ Arm(sess[fdOf[b.sid]]),
                                ![fdOf[b.sid]].bufwq = Append(@, b.arg)]
        /\ UNCHANGED <<held, gRcvBufqTmp>>
     \/ b.sid = 0 /\ b.cmd = "income" /\ AddIncome(b)
     \/ b.sid = 0 /\ b.cmd = "close" /\ Session(b.arg) /\ close_session(fdOf[b.arg], sess[fdOf[b.arg]])
     \/ /\ IF b.sid = 0 THEN b.cmd = "close" /\ ~Session(b.arg) ELSE ~Session(b.sid)
        /\ UNCHANGED <<sess, held, gRcvBufqTmp>>
  /\ UNCHANGED <<gSndBufq, gRcvBufq, gConnectQue, fdOf, inq, gone, wire, ghost>>

NextBuf(s) == Head(s.bufwq)

(* The kernel takes n units of the buffer; the seed of an accepted session *)
(* goes first.  libevent calls evw before evr, so the seed is out before   *)
(* the first read.                                                         *)
common_write(f, n) ==
  LET s == sess[f]
      buf == IF s.bufw # << >> THEN s.bufw ELSE IF s.bufwq # << >> THEN NextBuf(s) ELSE << >>
      rest == [s EXCEPT !.state = "ok", !.bufw = SubSeq(buf, n + 1, Len(buf)),
                        !.bufwq = IF s.bufw = << >> /\ @ # << >> THEN Tail(@) ELSE @]
  IN
  /\ tick = "loop" /\ s.evw /\ s.sid # 0
  /\ n \in 0..Len(buf) /\ (n = 0 => buf = << >>)
  /\ wire' = [wire EXCEPT ![s.sid] =
       @ \o (IF s.state = "seed" THEN Units(0, 1) ELSE << >>) \o SubSeq(buf, 1, n)]
  /\ sess' = [sess EXCEPT ![f] = [rest EXCEPT !.evw = Work(rest)]]
  /\ UNCHANGED <<gSndBufq, gRcvBufqTmp, gRcvBufq, gConnectQue, tick, todo,
                 fdOf, held, inq, gone, ghost>>

(* send() fails: the peer has closed. *)
WriteFails(f) ==
  /\ tick = "loop" /\ sess[f].evw /\ sess[f].sid \in gone
  /\ close_session(f, [sess[f] EXCEPT !.evw = FALSE])
  /\ UNCHANGED <<gSndBufq, gRcvBufq, gConnectQue, tick, todo, fdOf, inq, gone, wire, ghost>>

Whole(buf) == Max({0} \union {j \in DOMAIN buf : buf[j].i = buf[j].size})
Malformed(buf) == buf[1].i # 1 \/ \E j \in DOMAIN buf : buf[j].size = 0
PacketsOf(buf) ==
  FlattenSeq([j \in DOMAIN buf |-> IF buf[j].i = buf[j].size THEN <<Packet(buf[j].of)>> ELSE << >>])

(* Mutant: the rest of a packet stays behind in the buffer that is handed over. *)
NoRest(buf, n) == << >>
Rest(buf, n) == SubSeq(buf, n + 1, Len(buf))

(* Mutant: a buffer does not grow. *)
SameRoom(buf, cap) == cap
Grown(buf, cap) ==
  IF Len(buf) = cap /\ buf[1].size < MaxPacket /\ buf[1].size > cap THEN buf[1].size ELSE cap

Fits(s) == Min({Len(inq[s.sid]), s.cap - Len(s.bufr)})

(* recv takes n units, what has arrived so far and fits; the whole packets *)
(* go to Lua in one buffer, the rest starts a new one.                     *)
common_read(f, n) ==
  LET s == sess[f]
      buf == s.bufr \o SubSeq(inq[s.sid], 1, n)
      done == Whole(buf)
  IN
  /\ tick = "loop" /\ s.sid # 0 /\ s.state = "ok" /\ n \in 1..Fits(s)
  /\ inq' = [inq EXCEPT ![s.sid] = SubSeq(@, n + 1, Len(@))]
  /\ IF Malformed(buf) THEN close_session(f, s)
     ELSE /\ UNCHANGED held
          /\ IF done > 0
             THEN /\ gRcvBufqTmp' = Append(gRcvBufqTmp, [sid |-> s.sid, what |-> PacketsOf(buf)])
                  /\ sess' = [sess EXCEPT ![f].bufr = Rest(buf, done),
                                          ![f].cap = Max({Room, Len(buf) - done})]
             ELSE /\ sess' = [sess EXCEPT ![f].bufr = buf, ![f].cap = Grown(buf, @)]
                  /\ UNCHANGED gRcvBufqTmp
  /\ UNCHANGED <<gSndBufq, gRcvBufq, gConnectQue, tick, todo, fdOf, gone, wire, ghost>>

(* recv has nothing left of a closed connection, or no room to read into.  *)
ReadFails(f) ==
  LET s == sess[f] IN
  /\ tick = "loop" /\ s.sid # 0 /\ s.state = "ok"
  /\ \/ inq[s.sid] = << >> /\ s.sid \in gone
     \/ Len(s.bufr) = s.cap /\ (inq[s.sid] # << >> \/ s.sid \in gone)
  /\ close_session(f, s)
  /\ UNCHANGED <<gSndBufq, gRcvBufq, gConnectQue, tick, todo, fdOf, inq, gone, wire, ghost>>

-----------------------------------------------------------------------------
(* The thread that connects. *)

ConnectDone ==
  /\ gConnectQue # << >> /\ gConnectQue' = Tail(gConnectQue)
  /\ gSndBufq' = Append(gSndBufq, [sid |-> 0, cmd |-> "income", arg |-> Head(gConnectQue), seed |-> FALSE])
  /\ UNCHANGED <<sess, gRcvBufqTmp, gRcvBufq, tick, todo, kernel, ghost>>

(* The notice goes to gRcvBufqTmp without a lock: between the splice and   *)
(* INIT_LIST_HEAD it is forgotten, and of two adds at once one is lost.    *)
(* The descriptor stays open.                                              *)
ConnectFails ==
  /\ gConnectQue # << >> /\ gConnectQue' = Tail(gConnectQue)
  /\ LET fail == Note(Head(gConnectQue), CONN_FAIL) IN
     \/ /\ gRcvBufqTmp' = Append(gRcvBufqTmp, fail)
        /\ raced' = (raced \/ tick = "spliced")
     \/ /\ gRcvBufqTmp # << >>
        /\ \E kept \in {fail, Last(gRcvBufqTmp)} : gRcvBufqTmp' = Append(Front(gRcvBufqTmp), kept)
        /\ raced' = TRUE
  /\ UNCHANGED <<sess, gSndBufq, gRcvBufq, tick, todo, kernel, came, out, asked, seen>>

-----------------------------------------------------------------------------
(* The Lua thread. *)

connect_to(c) ==
  /\ c \in Called /\ \E f \in Fd : makesid(c, f)
  /\ gConnectQue' = Append(gConnectQue, c)
  /\ UNCHANGED <<sess, gSndBufq, gRcvBufqTmp, gRcvBufq, tick, todo, inq, gone, wire, ghost>>

(* connect_to returns the id; of an accepted session Lua learns by notice. *)
Told(c) == IF c \in Called THEN fdOf[c] # 0 ELSE seen[c] # << >>

send_buf(c) ==
  /\ Told(c) /\ Quiet
  /\ out' = [out EXCEPT ![c] = @ + 1]
  /\ gSndBufq' = Append(gSndBufq, [sid |-> c, arg |-> Units(out'[c], 2)])
  /\ UNCHANGED <<sess, gRcvBufqTmp, gRcvBufq, gConnectQue, tick, todo, kernel, came, asked, seen, raced>>

disconnect(c) ==
  /\ Told(c) /\ c \notin asked /\ Quiet
  /\ asked' = asked \union {c}
  /\ gSndBufq' = Append(gSndBufq, [sid |-> 0, cmd |-> "close", arg |-> c])
  /\ UNCHANGED <<sess, gRcvBufqTmp, gRcvBufq, gConnectQue, tick, todo, kernel, came, out, seen, raced>>

What(q, c) == FlattenSeq([i \in DOMAIN q |-> IF q[i].sid = c THEN q[i].what ELSE << >>])

recv_bufq ==
  /\ gRcvBufq # << >> /\ gRcvBufq' = << >>
  /\ seen' = [c \in Conn |-> seen[c] \o What(gRcvBufq, c)]
  /\ UNCHANGED <<sess, gSndBufq, gRcvBufqTmp, gConnectQue, tick, todo, kernel, came, out, asked, raced>>

-----------------------------------------------------------------------------
(* The peers. *)

PeerSends(c, size) ==
  /\ c \in held \ gone /\ c \notin ToSet(gConnectQue) /\ Quiet
  /\ came' = [came EXCEPT ![c] = Append(@, size)]
  /\ inq' = [inq EXCEPT ![c] = @ \o Units(Len(came'[c]), size)]
  /\ UNCHANGED <<net, fdOf, held, gone, wire, out, asked, seen, raced>>

PeerCloses(c) ==
  /\ c \in held \ gone /\ c \notin ToSet(gConnectQue) /\ Quiet
  /\ gone' = gone \union {c}
  /\ UNCHANGED <<net, fdOf, held, inq, wire, ghost>>

EventStep ==
  \/ on_tick \/ TakeSndBufq \/ HandleBuf
  \/ \E f \in Fd : \/ ReadFails(f) \/ WriteFails(f)
                   \/ \E n \in 0..2 : common_write(f, n)
                   \/ \E n \in 1..MaxPacket : common_read(f, n)

(* Nothing is claimed of a run after the race. *)
Next ==
  /\ ~raced
  /\ \/ EventStep \/ ConnectDone \/ ConnectFails \/ recv_bufq
     \/ \E c \in Conn : accept_callback(c) \/ connect_to(c) \/ send_buf(c) \/ disconnect(c)
     \/ \E c \in Conn : PeerCloses(c) \/ \E size \in Size : PeerSends(c, size)

(* epoll serves every ready descriptor, the timer comes round, connect()   *)
(* returns, and Lua takes its list on every turn of the main loop.         *)
Fairness ==
  /\ WF_vars(~raced /\ on_tick) /\ WF_vars(~raced /\ TakeSndBufq)
  /\ WF_vars(~raced /\ HandleBuf)
  /\ \A f \in Fd : /\ WF_vars(~raced /\ \E n \in 1..MaxPacket : common_read(f, n)) /\ WF_vars(~raced /\ ReadFails(f))
                   /\ WF_vars(~raced /\ \E n \in 0..2 : common_write(f, n))
  /\ WF_vars(~raced /\ (ConnectDone \/ ConnectFails)) /\ WF_vars(~raced /\ recv_bufq)

Spec == Init /\ [][Next]_vars /\ Fairness

-----------------------------------------------------------------------------

(* A session works on the descriptor of its own connection, which is open, *)
(* although close() lets the kernel hand the descriptor to connect_to in   *)
(* the other thread at once.                                               *)
OwnDescriptor == \A f \in Fd : sess[f].sid # 0 => sess[f].sid \in held /\ fdOf[sess[f].sid] = f

(* All that Lua is told of a session, the notices on their way included.   *)
Heard(c) ==
  seen[c] \o What(gRcvBufq, c) \o (IF tick = "spliced" THEN << >> ELSE What(gRcvBufqTmp, c))

(* Nothing so far; or only that the connect failed; or that it is there,   *)
(* its first packets and at last, perhaps, its end.                        *)
NoticesInOrder(notices) ==
  \/ notices \in {<< >>, <<CONN_FAIL>>}
  \/ \E m \in 0..Len(notices) :
       LET packets == <<CONN_COMP>> \o [k \in 1..m |-> Packet(k)]
       IN  notices \in {packets, Append(packets, CLOSE)}

(* Unit v comes right after u: the next of its packet, or the first of the *)
(* packet that follows (any, after the seed).                              *)
Follows(u, v) ==
  IF u.i < u.size THEN v = [u EXCEPT !.i = @ + 1]
  ELSE v.i = 1 /\ (u.of = 0 \/ v.of = u.of + 1)

InSequence(units) ==
  /\ units # << >> => units[1].i = 1
  /\ \A j \in 1..(Len(units) - 1) : Follows(units[j], units[j + 1])

(* The wire has the seed if it was accepted, then the buffers from one on. *)
WireInOrder(c) ==
  /\ \A j \in DOMAIN wire[c] :
       LET u == wire[c][j]
       IN  /\ u.of = 0 <=> j = 1 /\ c \notin Called
           /\ u.of # 0 => u.of <= out[c] /\ u.size = 2
  /\ InSequence(wire[c])

(* Through the three lists Lua hears of a session in order: that it is     *)
(* there, its packets without a gap, one notice of the end and nothing     *)
(* after it.  What is written to a connection is the buffers sent to that  *)
(* very session, in order and whole, from the first that found it.         *)
InOrder ==
  \A c \in Conn : (~raced => NoticesInOrder(Heard(c))) /\ WireInOrder(c)

(* A session ends only because its peer has gone, Lua has asked, or the    *)
(* peer sent what no buffer can hold: never because a packet came in       *)
(* pieces or filled the buffer to the last byte.                           *)
EndsWithCause ==
  [][\A f \in Fd : LET c == sess[f].sid IN
       c # 0 /\ sess'[f].sid # c =>
         c \in gone \union asked \/ \E i \in DOMAIN came[c] : came[c][i] = 0 \/ came[c][i] >= MaxPacket]_vars

(* When peers and Lua fall silent everything arrives: each connect has its *)
(* answer, and each session that is still there has written every buffer   *)
(* it was given and handed to Lua every packet that came.                  *)
Settled ==
  \A c \in Conn :
    /\ c \in Called /\ fdOf[c] # 0 => seen[c] # << >>
    /\ Session(c) => /\ ~Work(sess[fdOf[c]])
                     /\ \A k \in DOMAIN came[c] :
                          (\A i \in 1..k : came[c][i] \in 1..(MaxPacket - 1)) => Packet(k) \in ToSet(seen[c])
EverythingArrives == <>raced \/ <>[]Settled

=============================================================================
