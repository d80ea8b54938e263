--------------------------- MODULE NetSessProofs ----------------------------
(***************************************************************************)
(* For any connections, descriptors, sizes and bounds: a session of the    *)
(* event thread works on the descriptor of its own connection, although    *)
(* close() hands the descriptor back while announcements, buffers and      *)
(* closes that name other connections are on their way between the         *)
(* threads; it ends only for a cause, because what is left to read of its  *)
(* connection always begins with a packet, whole or with its rest still to *)
(* come; and it passes everything on in order, in both directions, because *)
(* what is on the wire, in the session and on the lists is one line of     *)
(* whole buffers, and what Lua has heard, what is noted, what is read and  *)
(* what has come are one line of whole packets.                            *)
(***************************************************************************)
EXTENDS NetSess, SequenceTheorems, WellFoundedInduction, TLAPS

Fields == {"sid", "state", "bufr", "cap", "bufw", "bufwq", "evw"}

(* What gSndBufq carries: a new connection, a close, a buffer to send.     *)
Buf == [sid : {0}, cmd : {"income"}, arg : Conn, seed : BOOLEAN]
         \union [sid : {0}, cmd : {"close"}, arg : Conn]
         \union [sid : Conn, arg : Seq(Unit)]

Income(b) == b.sid = 0 /\ b.cmd = "income"

(* Connection c waits for its session at position i of this list.          *)
At(list, i, c) ==
  \/ list = "connect" /\ i \in DOMAIN gConnectQue /\ gConnectQue[i] = c
  \/ list = "send" /\ i \in DOMAIN gSndBufq /\ Income(gSndBufq[i]) /\ gSndBufq[i].arg = c
  \/ list = "todo" /\ i \in DOMAIN todo /\ Income(todo[i]) /\ todo[i].arg = c

Types ==
  /\ gConnectQue \in Seq(Conn) /\ gSndBufq \in Seq(Buf) /\ todo \in Seq(Buf)
  /\ tick \in {"loop", "spliced", "todo"} /\ (tick = "todo" <=> todo # << >>)
  /\ out \in [Conn -> Nat]
  /\ fdOf \in [Conn -> Fd \union {0}] /\ held \subseteq Conn
  /\ DOMAIN sess = Fd /\ \A f \in Fd : DOMAIN sess[f] = Fields

(* No two open descriptors are the same.                                   *)
Open ==
  /\ \A c \in held : fdOf[c] # 0
  /\ \A b, c \in held : fdOf[b] = fdOf[c] => b = c

(* A connection on its way has its descriptor and no session yet.          *)
Waits ==
  \A list, i, c : At(list, i, c) => c \in held /\ \A f \in Fd : sess[f].sid # c

(* It is on its way once.                                                  *)
Once ==
  \A k, l, i, j, c : At(k, i, c) /\ At(l, j, c) => k = l /\ i = j

Inv == Types /\ Open /\ OwnDescriptor /\ Waits /\ Once

(* A step by which no connection begins to wait. *)
NoneNew == \A l, i, c : At(l, i, c)' => \E k, j : At(k, j, c)

-----------------------------------------------------------------------------
(* Sequences and records. *)

LEMMA AppendAt ==
  ASSUME NEW S, NEW q \in Seq(S), NEW x \in S
  PROVE  /\ Append(q, x) \in Seq(S)
         /\ Append(q, x) # << >>
         /\ DOMAIN Append(q, x) = 1..(Len(q) + 1) /\ DOMAIN q = 1..Len(q) /\ Len(q) \in Nat
         /\ \A i \in DOMAIN q : Append(q, x)[i] = q[i]
         /\ Append(q, x)[Len(q) + 1] = x
  OBVIOUS

LEMMA TailAt ==
  ASSUME NEW S, NEW q \in Seq(S), q # << >>
  PROVE  /\ Tail(q) \in Seq(S) /\ Head(q) = q[1] /\ q[1] \in S /\ 1 \in DOMAIN q
         /\ \A i \in DOMAIN Tail(q) : i + 1 \in DOMAIN q /\ i \in Nat /\ i + 1 # 1 /\ Tail(q)[i] = q[i + 1]
<1>1. /\ Len(q) \in Nat \ {0} /\ DOMAIN q = 1..Len(q) /\ DOMAIN Tail(q) = 1..(Len(q) - 1)
      /\ Tail(q) \in Seq(S) /\ Head(q) = q[1] /\ q[1] \in S
  OBVIOUS
<1>2. \A i \in 1..(Len(q) - 1) : Tail(q)[i] = q[i + 1]
  OBVIOUS
<1>. QED
  BY <1>1, <1>2

LEMMA WipedIs ==
  ASSUME NEW s
  PROVE  Wiped(s).sid = 0 /\ DOMAIN Wiped(s) = Fields
  BY DEF Wiped, Free, Fields

LEMMA UnitsType == \A n \in Nat : Units(n, 2) \in Seq(Unit)
<1> SUFFICES ASSUME NEW n \in Nat PROVE Units(n, 2) \in Seq(Unit)
  OBVIOUS
<1>1. Units(n, 2) = [i \in 1..2 |-> [of |-> n, i |-> i, size |-> 2]]
  BY SMT DEF Units
<1>2. \A i \in 1..2 : [of |-> n, i |-> i, size |-> 2] \in Unit
  BY DEF Unit
<1>3. [i \in 1..2 |-> [of |-> n, i |-> i, size |-> 2]] \in [1..2 -> Unit]
  BY <1>2
<1>4. [1..2 -> Unit] \subseteq Seq(Unit)
  BY SeqDef, 2 \in Nat
<1>. QED
  BY <1>1, <1>3, <1>4

-----------------------------------------------------------------------------
(* The ways the state of a connection changes. *)

(* No session begins or ends. *)
SameSids ==
  /\ DOMAIN sess' = Fd /\ \A f \in Fd : DOMAIN sess'[f] = Fields /\ sess'[f].sid = sess[f].sid
  /\ fdOf' = fdOf /\ held' = held

SameLists == gConnectQue' = gConnectQue /\ gSndBufq' = gSndBufq /\ todo' = todo

(* The session on f has ended. *)
Ended(f) ==
  /\ DOMAIN sess' = Fd /\ \A g \in Fd : DOMAIN sess'[g] = Fields
  /\ sess'[f].sid = 0 /\ \A g \in Fd \ {f} : sess'[g].sid = sess[g].sid
  /\ fdOf' = fdOf /\ held' = held \ {sess[f].sid}

LEMMA Ends ==
  ASSUME Inv, NEW f \in Fd, NEW s, s.sid = sess[f].sid, close_session(f, s), fdOf' = fdOf
  PROVE  Ended(f)
  BY WipedIs DEF Inv, Types, close_session, Ended

(* The types that a step which moves nothing has to keep. *)
SameTypes ==
  /\ tick' \in {"loop", "spliced", "todo"} /\ (tick' = "todo" <=> todo' # << >>)
  /\ out' \in [Conn -> Nat]

LEMMA Still == Inv /\ SameSids /\ SameLists /\ SameTypes => Inv'
<1> SUFFICES ASSUME Inv, SameSids, SameLists, SameTypes PROVE Inv'
  OBVIOUS
<1>. USE DEF Inv, SameSids, SameLists, SameTypes
<1>1. Types'
  BY DEF Types
<1>2. Open'
  BY DEF Open
<1>3. OwnDescriptor'
  BY DEF OwnDescriptor
<1>4. \A list, i, c : At(list, i, c)' <=> At(list, i, c)
  BY DEF At
<1>5. Waits'
  BY <1>4 DEF Waits
<1>6. Once'
  BY <1>4 DEF Once
<1>. QED
  BY <1>1, <1>2, <1>3, <1>5, <1>6

(* A session ends, and its descriptor may be handed out again. *)
LEMMA EndsStill ==
  ASSUME Inv, NEW f \in Fd, Ended(f), 0 \notin Conn,
         gConnectQue' = gConnectQue, gSndBufq' = gSndBufq, SameTypes, todo' \in Seq(Buf),
         \/ todo' = todo
         \/ todo # << >> /\ todo' = Tail(todo)
  PROVE  Inv'
<1>. USE DEF Inv, Ended, SameTypes
<1>1. Types'
  BY DEF Types
<1>2. Open'
  BY DEF Open
<1>3. OwnDescriptor'
  <2> SUFFICES ASSUME NEW g \in Fd, sess'[g].sid # 0
               PROVE  sess'[g].sid \in held' /\ fdOf'[sess'[g].sid] = g
    BY DEF OwnDescriptor
  <2>1. g # f /\ sess'[g].sid = sess[g].sid
    OBVIOUS
  <2>2. sess[g].sid \in held /\ fdOf[sess[g].sid] = g
    BY <2>1 DEF OwnDescriptor
  <2>3. sess[f].sid # 0 => fdOf[sess[f].sid] = f
    BY DEF OwnDescriptor
  <2>. QED
    BY <2>1, <2>2, <2>3
<1>4. /\ \A i, c : At("connect", i, c)' => At("connect", i, c)
      /\ \A i, c : At("send", i, c)' => At("send", i, c)
  BY DEF At
<1>5. CASE todo' = todo
  <2>1. \A list, i, c : At(list, i, c)' => At(list, i, c)
    BY <1>4, <1>5 DEF At
  <2>2. Waits'
    <3> SUFFICES ASSUME NEW list, NEW i, NEW c, At(list, i, c)'
                 PROVE  c \in held' /\ \A g \in Fd : sess'[g].sid # c
      BY DEF Waits
    <3>1. c \in held /\ \A g \in Fd : sess[g].sid # c
      BY <2>1 DEF Waits
    <3>2. c # 0
      BY <3>1 DEF Types
    <3>. QED
      BY <3>1, <3>2
  <2>. QED
    BY <1>1, <1>2, <1>3, <2>1, <2>2 DEF Once
<1>6. CASE todo # << >> /\ todo' = Tail(todo)
  <2>1. \A i, c : At("todo", i, c)' => i \in Nat /\ At("todo", i + 1, c)
    BY <1>6, TailAt DEF At, Types
  <2>2. Waits'
    <3> SUFFICES ASSUME NEW list, NEW i, NEW c, At(list, i, c)'
                 PROVE  c \in held' /\ \A g \in Fd : sess'[g].sid # c
      BY DEF Waits
    <3>0. list \in {"connect", "send", "todo"}
      BY DEF At
    <3>1. c \in held /\ \A g \in Fd : sess[g].sid # c
      BY <3>0, <1>4, <2>1 DEF Waits
    <3>2. c # 0
      BY <3>1 DEF Types
    <3>. QED
      BY <3>1, <3>2
  <2>3. Once'
    <3> SUFFICES ASSUME NEW k, NEW l, NEW i, NEW j, NEW c, At(k, i, c)', At(l, j, c)'
                 PROVE  k = l /\ i = j
      BY DEF Once
    <3>1. k \in {"connect", "send", "todo"} /\ l \in {"connect", "send", "todo"}
      BY DEF At
    <3>2. At(k, IF k = "todo" THEN i + 1 ELSE i, c) /\ (k = "todo" => i \in Nat)
      BY <1>4, <2>1, <3>1
    <3>3. At(l, IF l = "todo" THEN j + 1 ELSE j, c) /\ (l = "todo" => j \in Nat)
      BY <1>4, <2>1, <3>1
    <3>4. k = l /\ (IF k = "todo" THEN i + 1 ELSE i) = (IF l = "todo" THEN j + 1 ELSE j)
      BY <3>2, <3>3 DEF Once
    <3>. QED
      BY <3>2, <3>3, <3>4
  <2>. QED
    BY <1>1, <1>2, <1>3, <2>2, <2>3
<1>. QED
  BY <1>5, <1>6

-----------------------------------------------------------------------------
(* The event thread. *)

LEMMA OnTick == Inv /\ on_tick => Inv'
<1> SUFFICES ASSUME Inv, on_tick PROVE Inv'
  OBVIOUS
<1>1. SameSids /\ SameLists /\ SameTypes
  BY DEF on_tick, SameSids, SameLists, SameTypes, Inv, Types, kernel, ghost
<1>. QED
  BY <1>1, Still

LEMMA WriteStep == \A f \in Fd : \A n : Inv /\ common_write(f, n) => Inv'
<1> SUFFICES ASSUME NEW f \in Fd, NEW n, Inv, common_write(f, n) PROVE Inv'
  OBVIOUS
<1>. DEFINE s == sess[f]
            buf == IF s.bufw # << >> THEN s.bufw ELSE IF s.bufwq # << >> THEN NextBuf(s) ELSE << >>
            rest == [s EXCEPT !.state = "ok", !.bufw = SubSeq(buf, n + 1, Len(buf)),
                              !.bufwq = IF s.bufw = << >> /\ @ # << >> THEN Tail(@) ELSE @]
<1>1. sess' = [sess EXCEPT ![f] = [rest EXCEPT !.evw = Work(rest)]]
  BY DEF common_write
<1>. HIDE DEF buf
<1>2. DOMAIN s = Fields
  BY DEF Inv, Types
<1>3. DOMAIN rest = Fields /\ rest.sid = s.sid
  BY <1>2 DEF Fields
<1>. HIDE DEF rest
<1>4. DOMAIN [rest EXCEPT !.evw = Work(rest)] = Fields /\ [rest EXCEPT !.evw = Work(rest)].sid = s.sid
  BY <1>3 DEF Fields
<1>5. SameSids /\ SameLists /\ SameTypes
  BY <1>1, <1>4 DEF common_write, SameSids, SameLists, SameTypes, Inv, Types, ghost
<1>. QED
  BY <1>5, Still

LEMMA ReadStep == \A f \in Fd : \A n : 0 \notin Conn /\ Inv /\ common_read(f, n) => Inv'
<1> SUFFICES ASSUME NEW f \in Fd, NEW n, 0 \notin Conn, Inv, common_read(f, n) PROVE Inv'
  OBVIOUS
<1>. DEFINE s == sess[f]
            buf == s.bufr \o SubSeq(inq[s.sid], 1, n)
            done == Whole(buf)
<1>0. SameLists /\ SameTypes /\ fdOf' = fdOf
  BY DEF common_read, SameLists, SameTypes, Inv, Types, ghost
<1>1. CASE Malformed(buf)
  <2>1. close_session(f, s)
    BY <1>1 DEF common_read
  <2>2. Ended(f)
    BY <2>1, <1>0, Ends
  <2>. QED
    BY <1>0, <2>2, EndsStill DEF SameLists, Inv, Types
<1>2. CASE ~Malformed(buf)
  <2>1. /\ held' = held
        /\ \/ sess' = [sess EXCEPT ![f].bufr = Rest(buf, done), ![f].cap = Max({Room, Len(buf) - done})]
           \/ sess' = [sess EXCEPT ![f].bufr = buf, ![f].cap = Grown(buf, @)]
    BY <1>2 DEF common_read
  <2>. HIDE DEF buf, done
  <2>2. DOMAIN s = Fields /\ DOMAIN sess = Fd
    BY DEF Inv, Types
  <2>3. SameSids
    BY <1>0, <2>1, <2>2 DEF SameSids, Fields, Inv, Types
  <2>. QED
    BY <1>0, <2>3, Still
<1>. QED
  BY <1>1, <1>2

LEMMA FailStep ==
  ASSUME NEW f \in Fd, 0 \notin Conn, Inv, ReadFails(f) \/ WriteFails(f)
  PROVE  Inv'
<1>1. PICK s : s.sid = sess[f].sid /\ close_session(f, s)
  <2>1. CASE ReadFails(f)
    BY <2>1 DEF ReadFails
  <2>2. CASE WriteFails(f)
    <3>1. [sess[f] EXCEPT !.evw = FALSE].sid = sess[f].sid
      BY DEF Inv, Types, Fields
    <3>. QED
      BY <2>2, <3>1 DEF WriteFails
  <2>. QED
    BY <2>1, <2>2
<1>2. SameLists /\ SameTypes /\ fdOf' = fdOf
  BY DEF ReadFails, WriteFails, SameLists, SameTypes, Inv, Types, ghost
<1>3. Ended(f)
  BY <1>1, <1>2, Ends
<1>. QED
  BY <1>2, <1>3, EndsStill DEF SameLists, Inv, Types
(* The session a step leaves alone, of a connection that waited before.    *)
LEMMA WaitsStill ==
  ASSUME Inv, SameSids, NoneNew
  PROVE  Open' /\ OwnDescriptor' /\ Waits'
<1>. USE DEF Inv, SameSids, NoneNew
<1>1. Open'
  BY DEF Open
<1>2. OwnDescriptor'
  BY DEF OwnDescriptor
<1>3. Waits'
  BY DEF Waits
<1>. QED
  BY <1>1, <1>2, <1>3

LEMMA TakeStep == Inv /\ TakeSndBufq => Inv' /\ NoneNew
<1> SUFFICES ASSUME Inv, TakeSndBufq PROVE Inv' /\ NoneNew
  OBVIOUS
<1>1. SameSids
  BY DEF TakeSndBufq, SameSids, kernel, Inv, Types
<1>2. Types'
  BY <1>1 DEF TakeSndBufq, SameSids, kernel, ghost, Inv, Types
<1>3. /\ \A i, c : At("connect", i, c)' => At("connect", i, c)
      /\ \A i, c : ~At("send", i, c)'
      /\ \A i, c : At("todo", i, c)' => At("send", i, c)
  BY DEF TakeSndBufq, At
<1>4. \A l, i, c : At(l, i, c)' => l \in {"connect", "send", "todo"}
  BY DEF At
<1>5. \A l, i, c : At(l, i, c)' => l # "send" /\ At(IF l = "todo" THEN "send" ELSE l, i, c)
  BY <1>3, <1>4
<1>6. Once'
  BY <1>4, <1>5 DEF Once, Inv
<1>7. NoneNew
  BY <1>5 DEF NoneNew
<1>. QED
  BY <1>1, <1>2, <1>6, <1>7, WaitsStill DEF Inv

(* A step of HandleBuf without its effect on sessions: the first buffer is *)
(* taken off the list.                                                     *)
Shorter ==
  /\ todo # << >> /\ todo' = Tail(todo) /\ tick' = IF todo' = << >> THEN "loop" ELSE "todo"
  /\ gConnectQue' = gConnectQue /\ gSndBufq' = gSndBufq /\ out' = out /\ fdOf' = fdOf

LEMMA ShorterOnce ==
  ASSUME Inv, Shorter
  PROVE  /\ SameTypes /\ todo' \in Seq(Buf) /\ Head(todo) \in Buf /\ Once'
         /\ \A l, i, c : At(l, i, c)' => (\E j : At(l, j, c)) /\ ~(Income(Head(todo)) /\ Head(todo).arg = c)
         /\ Income(Head(todo)) => At("todo", 1, Head(todo).arg)
<1>. USE DEF Inv, Shorter
<1>1. SameTypes /\ todo' \in Seq(Buf) /\ Head(todo) \in Buf /\ 1 \in DOMAIN todo /\ Head(todo) = todo[1]
  BY TailAt DEF SameTypes, Types
<1>2. \A i, c : At("todo", i, c)' => i \in Nat /\ i + 1 # 1 /\ At("todo", i + 1, c)
  BY TailAt DEF At, Types
<1>3. \A l, i, c : At(l, i, c)' => l \in {"connect", "send", "todo"}
  BY DEF At
<1>4. \A l, i, c : At(l, i, c)' => IF l = "todo" THEN i \in Nat /\ i + 1 # 1 /\ At(l, i + 1, c) ELSE At(l, i, c)
  BY <1>2, <1>3 DEF At
<1>5. Income(Head(todo)) => At("todo", 1, Head(todo).arg)
  BY <1>1 DEF At
<1>6. Once'
  <2> SUFFICES ASSUME NEW k, NEW l, NEW i, NEW j, NEW c, At(k, i, c)', At(l, j, c)'
               PROVE  k = l /\ i = j
    BY DEF Once
  <2>1. At(k, IF k = "todo" THEN i + 1 ELSE i, c) /\ (k = "todo" => i \in Nat)
    BY <1>4
  <2>2. At(l, IF l = "todo" THEN j + 1 ELSE j, c) /\ (l = "todo" => j \in Nat)
    BY <1>4
  <2>3. k = l /\ (IF k = "todo" THEN i + 1 ELSE i) = (IF l = "todo" THEN j + 1 ELSE j)
    BY <2>1, <2>2 DEF Once
  <2>. QED
    BY <2>1, <2>2, <2>3
<1>7. ASSUME NEW l, NEW i, NEW c, At(l, i, c)'
      PROVE  (\E j : At(l, j, c)) /\ ~(Income(Head(todo)) /\ Head(todo).arg = c)
  <2>1. \E j : At(l, j, c) /\ ~(l = "todo" /\ j = 1)
    BY <1>4, <1>7
  <2>. QED
    BY <2>1, <1>5 DEF Once
<1>. QED
  BY <1>1, <1>5, <1>6, <1>7

LEMMA IncomeStep ==
  ASSUME Inv, 0 \notin Conn, Shorter, Income(Head(todo)), AddIncome(Head(todo))
  PROVE  Inv'
<1>. DEFINE b == Head(todo)
            c == b.arg
            new == [Free EXCEPT !.sid = b.arg, !.state = IF b.seed THEN "seed" ELSE "ok", !.evw = b.seed]
<1>1. /\ At("todo", 1, c)
      /\ \A l, i, d : At(l, i, d)' => (\E j : At(l, j, d)) /\ d # c
      /\ Once' /\ SameTypes /\ todo' \in Seq(Buf)
  BY ShorterOnce
<1>2. c \in held /\ \A f \in Fd : sess[f].sid # c
  BY <1>1 DEF Inv, Waits
<1>3. fdOf[c] \in Fd /\ c \in Conn
  BY <1>2 DEF Inv, Types, Open
<1>4. sess' = [sess EXCEPT ![fdOf[c]] = new] /\ held' = held /\ fdOf' = fdOf
  BY DEF AddIncome, Shorter
<1>5. new.sid = c /\ DOMAIN new = Fields
  BY DEF Free, Fields
<1>. HIDE DEF new, c, b
<1>6. /\ DOMAIN sess' = Fd /\ \A f \in Fd : DOMAIN sess'[f] = Fields
      /\ sess'[fdOf[c]].sid = c /\ \A f \in Fd \ {fdOf[c]} : sess'[f].sid = sess[f].sid
  BY <1>3, <1>4, <1>5 DEF Inv, Types
<1>7. Types'
  BY <1>1, <1>4, <1>6 DEF Inv, Types, SameTypes, Shorter
<1>8. Open'
  BY <1>4 DEF Inv, Open
<1>9. OwnDescriptor'
  BY <1>2, <1>4, <1>6 DEF Inv, OwnDescriptor
<1>10. Waits'
  <2> SUFFICES ASSUME NEW l, NEW i, NEW d, At(l, i, d)'
               PROVE  d \in held' /\ \A f \in Fd : sess'[f].sid # d
    BY DEF Waits
  <2>1. d # c /\ d \in held /\ \A f \in Fd : sess[f].sid # d
    BY <1>1 DEF Inv, Waits
  <2>. QED
    BY <2>1, <1>4, <1>6
<1>. QED
  BY <1>1, <1>7, <1>8, <1>9, <1>10 DEF Inv

LEMMA HandleStep == 0 \notin Conn /\ Inv /\ HandleBuf => Inv'
<1> SUFFICES ASSUME 0 \notin Conn, Inv, HandleBuf PROVE Inv'
  OBVIOUS
<1>. DEFINE b == Head(todo)
<1>1. Shorter
  BY DEF HandleBuf, Shorter, Inv, Types, ghost
<1>2. SameTypes /\ todo' \in Seq(Buf) /\ b \in Buf /\ Once' /\ NoneNew
  BY <1>1, ShorterOnce DEF NoneNew
<1>3. ASSUME SameSids PROVE Inv'
  <2>1. Types'
    BY <1>1, <1>2, <1>3 DEF Inv, Types, SameTypes, SameSids, Shorter
  <2>2. Open' /\ OwnDescriptor' /\ Waits'
    BY <1>2, <1>3, WaitsStill
  <2>. QED
    BY <1>2, <2>1, <2>2 DEF Inv
<1>4. CASE b.sid # 0 /\ Session(b.sid)
           /\ sess' = [sess EXCEPT ![fdOf[b.sid]].evw = @ \/ Arm(sess[fdOf[b.sid]]),
                                   ![fdOf[b.sid]].bufwq = Append(@, b.arg)]
           /\ UNCHANGED <<held, gRcvBufqTmp>>
  <2>1. SameSids
    BY <1>1, <1>4 DEF SameSids, Inv, Types, Fields, Shorter
  <2>. QED
    BY <2>1, <1>3
<1>5. CASE b.sid = 0 /\ b.cmd = "income" /\ AddIncome(b)
  BY <1>1, <1>5, IncomeStep DEF Income
<1>6. CASE b.sid = 0 /\ b.cmd = "close" /\ Session(b.arg) /\ close_session(fdOf[b.arg], sess[fdOf[b.arg]])
  <2>1. b.arg \in Conn
    BY <1>2, <1>6 DEF Buf
  <2>2. fdOf[b.arg] \in Fd
    BY <1>6, <2>1 DEF Session, Inv, Types
  <2>3. Ended(fdOf[b.arg])
    BY <1>1, <1>6, <2>2, Ends DEF Shorter
  <2>. QED
    BY <1>1, <1>2, <2>2, <2>3, EndsStill DEF Shorter
<1>7. CASE UNCHANGED <<sess, held, gRcvBufqTmp>>
  <2>1. SameSids
    BY <1>1, <1>7 DEF SameSids, Inv, Types, Shorter
  <2>. QED
    BY <2>1, <1>3
<1>. QED
  BY <1>4, <1>5, <1>6, <1>7 DEF HandleBuf
-----------------------------------------------------------------------------
(* The other threads and the peers. *)

(* A connection that is made gets a descriptor no open connection has.     *)
LEMMA MadeStill ==
  ASSUME Inv, 0 \notin Fd, 0 \notin Conn, NEW c \in Conn, NEW f \in Fd, makesid(c, f), sess' = sess,
         \A l, i, d : At(l, i, d)' => d = c \/ \E k, j : At(k, j, d)
  PROVE  /\ Open' /\ OwnDescriptor' /\ Waits' /\ \A l, i : ~At(l, i, c)
         /\ fdOf' \in [Conn -> Fd \union {0}] /\ held' \subseteq Conn
<1>. USE DEF Inv
<1>1. c \notin held /\ \A g \in Fd : sess[g].sid # c
  BY DEF makesid, Open, OwnDescriptor
<1>2. \A l, i : ~At(l, i, c)
  BY <1>1 DEF Waits
<1>3. /\ held' = held \union {c} /\ fdOf' \in [Conn -> Fd \union {0}]
      /\ fdOf'[c] = f /\ \A d \in Conn \ {c} : fdOf'[d] = fdOf[d]
      /\ \A d \in held : fdOf[d] # f
  BY DEF makesid, Types
<1>4. Open'
  BY <1>1, <1>3 DEF Open, Types
<1>5. OwnDescriptor'
  BY <1>1, <1>3 DEF OwnDescriptor, Types
<1>6. Waits'
  BY <1>1, <1>3 DEF Waits
<1>. QED
  BY <1>2, <1>3, <1>4, <1>5, <1>6 DEF Types

(* A list grows by one entry at its end: of a connection that waited       *)
(* nowhere, or of none.                                                    *)
LEMMA SendGrows ==
  ASSUME Inv, NEW b \in Buf, gSndBufq' = Append(gSndBufq, b), gConnectQue' = gConnectQue, todo' = todo
  PROVE  /\ gSndBufq' \in Seq(Buf)
         /\ \A l, i, c : At(l, i, c)' =>
              At(l, i, c) \/ (l = "send" /\ i = Len(gSndBufq) + 1 /\ Income(b) /\ c = b.arg)
<1>1. /\ gSndBufq' \in Seq(Buf)
      /\ DOMAIN gSndBufq' = 1..(Len(gSndBufq) + 1) /\ DOMAIN gSndBufq = 1..Len(gSndBufq) /\ Len(gSndBufq) \in Nat
      /\ \A i \in DOMAIN gSndBufq : gSndBufq'[i] = gSndBufq[i]
      /\ gSndBufq'[Len(gSndBufq) + 1] = b
  BY AppendAt DEF Inv, Types
<1>2. \A i \in DOMAIN gSndBufq' : i \in DOMAIN gSndBufq \/ i = Len(gSndBufq) + 1
  BY <1>1
<1>. QED
  BY <1>1, <1>2 DEF At

LEMMA AcceptStep ==
  ASSUME NEW c \in Conn, 0 \notin Fd, 0 \notin Conn, Inv, accept_callback(c)
  PROVE  Inv' /\ \A l, i, d : At(l, i, d)' => At(l, i, d) \/ d = c
<1>. DEFINE b == [sid |-> 0, cmd |-> "income", arg |-> c, seed |-> TRUE]
<1>1. PICK f \in Fd : makesid(c, f)
  BY DEF accept_callback
<1>2. /\ gSndBufq' = Append(gSndBufq, b) /\ gConnectQue' = gConnectQue /\ todo' = todo
      /\ sess' = sess /\ tick' = tick /\ out' = out
  BY DEF accept_callback, ghost
<1>3. b \in Buf /\ b.arg = c
  BY DEF Buf
<1>. HIDE DEF b
<1>4. /\ gSndBufq' \in Seq(Buf)
      /\ \A l, i, d : At(l, i, d)' => At(l, i, d) \/ (l = "send" /\ i = Len(gSndBufq) + 1 /\ d = c)
  BY <1>2, <1>3, SendGrows
<1>. \A l, i, d : At(l, i, d)' => d = c \/ \E k, j : At(k, j, d)
  BY <1>4
<1>5. /\ Open' /\ OwnDescriptor' /\ Waits' /\ \A l, i : ~At(l, i, c)
      /\ fdOf' \in [Conn -> Fd \union {0}] /\ held' \subseteq Conn
  BY <1>1, <1>2, MadeStill
<1>6. Types'
  BY <1>2, <1>4, <1>5 DEF Inv, Types
<1>7. Once'
  BY <1>4, <1>5 DEF Inv, Once
<1>. QED
  BY <1>4, <1>5, <1>6, <1>7 DEF Inv

LEMMA ConnectStep ==
  ASSUME NEW c \in Conn, 0 \notin Fd, 0 \notin Conn, Inv, connect_to(c)
  PROVE  Inv' /\ \A l, i, d : At(l, i, d)' => At(l, i, d) \/ d = c
<1>1. PICK f \in Fd : makesid(c, f)
  BY DEF connect_to
<1>2. /\ gConnectQue' = Append(gConnectQue, c) /\ gSndBufq' = gSndBufq /\ todo' = todo
      /\ sess' = sess /\ tick' = tick /\ out' = out
  BY DEF connect_to, ghost
<1>3. /\ gConnectQue' \in Seq(Conn)
      /\ DOMAIN gConnectQue' = 1..(Len(gConnectQue) + 1) /\ DOMAIN gConnectQue = 1..Len(gConnectQue)
      /\ Len(gConnectQue) \in Nat
      /\ \A i \in DOMAIN gConnectQue : gConnectQue'[i] = gConnectQue[i]
      /\ gConnectQue'[Len(gConnectQue) + 1] = c
  BY <1>2, AppendAt DEF Inv, Types
<1>4. \A i \in DOMAIN gConnectQue' : i \in DOMAIN gConnectQue \/ i = Len(gConnectQue) + 1
  BY <1>3
<1>5. \A l, i, d : At(l, i, d)' => At(l, i, d) \/ (l = "connect" /\ i = Len(gConnectQue) + 1 /\ d = c)
  BY <1>2, <1>3, <1>4 DEF At
<1>6. /\ Open' /\ OwnDescriptor' /\ Waits' /\ \A l, i : ~At(l, i, c)
      /\ fdOf' \in [Conn -> Fd \union {0}] /\ held' \subseteq Conn
  BY <1>1, <1>2, <1>5, MadeStill
<1>7. Types'
  BY <1>2, <1>3, <1>6 DEF Inv, Types
<1>8. Once'
  BY <1>5, <1>6 DEF Inv, Once
<1>. QED
  BY <1>5, <1>6, <1>7, <1>8 DEF Inv

(* The first of gConnectQue is taken off, and waits nowhere but perhaps at *)
(* the end of gSndBufq.                                                    *)
LEMMA ConnectedStill ==
  ASSUME Inv, gConnectQue # << >>, gConnectQue' = Tail(gConnectQue), SameSids, todo' = todo, SameTypes,
         \/ gSndBufq' = gSndBufq
         \/ gSndBufq' = Append(gSndBufq, [sid |-> 0, cmd |-> "income", arg |-> Head(gConnectQue), seed |-> FALSE])
  PROVE  Inv' /\ NoneNew
<1>. USE DEF Inv
<1>. DEFINE c == Head(gConnectQue)
            b == [sid |-> 0, cmd |-> "income", arg |-> c, seed |-> FALSE]
<1>1. /\ gConnectQue' \in Seq(Conn) /\ c \in Conn /\ At("connect", 1, c)
      /\ \A i, d : At("connect", i, d)' => i \in Nat /\ i + 1 # 1 /\ At("connect", i + 1, d)
  BY TailAt DEF At, Types
<1>2. b \in Buf /\ b.arg = c
  BY <1>1 DEF Buf
<1>. HIDE DEF b
<1>3. gSndBufq' \in Seq(Buf) /\ Len(gSndBufq) \in Nat /\ DOMAIN gSndBufq = 1..Len(gSndBufq)
  <2>1. gSndBufq \in Seq(Buf)
    BY DEF Types
  <2>2. gSndBufq' = gSndBufq \/ gSndBufq' = Append(gSndBufq, b)
    BY DEF b
  <2>. QED
    BY <1>2, <2>1, <2>2, AppendAt
<1>4. \A i, d : At("send", i, d)' => At("send", i, d) \/ (i = Len(gSndBufq) + 1 /\ d = c)
  <2>1. CASE gSndBufq' = gSndBufq
    BY <2>1 DEF At
  <2>2. CASE gSndBufq' = Append(gSndBufq, b)
    <3>1. /\ DOMAIN gSndBufq' = 1..(Len(gSndBufq) + 1)
          /\ \A i \in DOMAIN gSndBufq : gSndBufq'[i] = gSndBufq[i]
          /\ gSndBufq'[Len(gSndBufq) + 1] = b
      BY <1>2, <2>2, AppendAt DEF Types
    <3>2. \A i \in DOMAIN gSndBufq' : i \in DOMAIN gSndBufq \/ i = Len(gSndBufq) + 1
      BY <1>3, <3>1
    <3>. QED
      BY <1>2, <3>1, <3>2 DEF At
  <2>. QED
    BY <2>1, <2>2 DEF b
<1>5. \A i, d : At("todo", i, d)' => At("todo", i, d)
  BY DEF At
<1>6. \A l, i, d : At(l, i, d)' => l \in {"connect", "send", "todo"}
  BY DEF At
<1>7. ~At("send", Len(gSndBufq) + 1, c)
  BY <1>3 DEF At
<1>8. NoneNew
  BY <1>1, <1>4, <1>5, <1>6 DEF NoneNew
<1>9. Once'
  <2> SUFFICES ASSUME NEW k, NEW l, NEW i, NEW j, NEW d, At(k, i, d)', At(l, j, d)'
               PROVE  k = l /\ i = j
    BY DEF Once
  <2>1. CASE d = c
    <3>1. k # "connect" /\ l # "connect"
      BY <1>1, <2>1 DEF Once
    <3>2. k = "send" /\ i = Len(gSndBufq) + 1
      BY <1>1, <1>4, <1>5, <1>6, <2>1, <3>1 DEF Once
    <3>3. l = "send" /\ j = Len(gSndBufq) + 1
      BY <1>1, <1>4, <1>5, <1>6, <2>1, <3>1 DEF Once
    <3>. QED
      BY <3>2, <3>3
  <2>2. CASE d # c
    <3>1. At(k, IF k = "connect" THEN i + 1 ELSE i, d) /\ (k = "connect" => i \in Nat)
      BY <1>1, <1>4, <1>5, <1>6, <2>2
    <3>2. At(l, IF l = "connect" THEN j + 1 ELSE j, d) /\ (l = "connect" => j \in Nat)
      BY <1>1, <1>4, <1>5, <1>6, <2>2
    <3>3. k = l /\ (IF k = "connect" THEN i + 1 ELSE i) = (IF l = "connect" THEN j + 1 ELSE j)
      BY <3>1, <3>2 DEF Once
    <3>. QED
      BY <3>1, <3>2, <3>3
  <2>. QED
    BY <2>1, <2>2
<1>10. Types'
  BY <1>1, <1>3 DEF Types, SameTypes, SameSids
<1>. QED
  BY <1>8, <1>9, <1>10, WaitsStill

LEMMA ConnectorStep == Inv /\ (ConnectDone \/ ConnectFails) => Inv' /\ NoneNew
<1> SUFFICES ASSUME Inv, ConnectDone \/ ConnectFails PROVE Inv' /\ NoneNew
  OBVIOUS
<1>1. SameSids /\ todo' = todo /\ SameTypes
  BY DEF ConnectDone, ConnectFails, SameSids, SameTypes, kernel, ghost, Inv, Types
<1>. QED
  BY <1>1, ConnectedStill DEF ConnectDone, ConnectFails

(* Buffers and closes name a session, and none waits for them. *)
LEMMA LuaStep ==
  ASSUME Inv, 0 \notin Conn, NEW c \in Conn, send_buf(c) \/ disconnect(c)
  PROVE  Inv' /\ NoneNew
<1>1. PICK b \in Buf : ~Income(b) /\ gSndBufq' = Append(gSndBufq, b)
  <2>1. CASE send_buf(c)
    <3>1. out'[c] \in Nat
      BY <2>1 DEF send_buf, Inv, Types
    <3>2. [sid |-> c, arg |-> Units(out'[c], 2)] \in Buf
      BY <3>1, UnitsType DEF Buf
    <3>. QED
      BY <2>1, <3>2 DEF send_buf, Income
  <2>2. CASE disconnect(c)
    <3>1. [sid |-> 0, cmd |-> "close", arg |-> c] \in Buf
      BY DEF Buf
    <3>. QED
      BY <2>2, <3>1 DEF disconnect, Income
  <2>. QED
    BY <2>1, <2>2
<1>2. /\ SameSids /\ SameTypes /\ gConnectQue' = gConnectQue /\ todo' = todo
  BY DEF send_buf, disconnect, SameSids, SameTypes, kernel, Inv, Types
<1>3. /\ gSndBufq' \in Seq(Buf)
      /\ \A l, i, d : At(l, i, d)' => At(l, i, d)
  BY <1>1, <1>2, SendGrows
<1>4. Types'
  BY <1>2, <1>3 DEF Inv, Types, SameTypes, SameSids
<1>5. Once'
  BY <1>3 DEF Inv, Once
<1>6. NoneNew
  BY <1>3 DEF NoneNew
<1>. QED
  BY <1>2, <1>4, <1>5, <1>6, WaitsStill DEF Inv

LEMMA QuietStep ==
  ASSUME Inv, NEW c, NEW size, recv_bufq \/ PeerCloses(c) \/ PeerSends(c, size)
  PROVE  Inv'
<1>1. SameSids /\ SameLists /\ SameTypes
  BY DEF recv_bufq, PeerCloses, PeerSends, SameSids, SameLists, SameTypes, net, kernel, ghost, Inv, Types
<1>. QED
  BY <1>1, Still

-----------------------------------------------------------------------------

LEMMA NextInv ==
  ASSUME Inv, 0 \notin Fd, 0 \notin Conn, [Next]_vars
  PROVE  Inv'
<1>1. CASE EventStep
  <2>1. ASSUME NEW f \in Fd, \/ ReadFails(f) \/ WriteFails(f)
                             \/ \E n \in 0..2 : common_write(f, n)
                             \/ \E n \in 1..MaxPacket : common_read(f, n)
        PROVE  Inv'
    BY <2>1, FailStep, WriteStep, ReadStep
  <2>. QED
    BY <1>1, <2>1, OnTick, TakeStep, HandleStep DEF EventStep
<1>2. CASE ConnectDone \/ ConnectFails
  BY <1>2, ConnectorStep
<1>3. CASE recv_bufq
  BY <1>3, QuietStep
<1>4. ASSUME NEW c \in Conn, accept_callback(c) \/ connect_to(c) \/ send_buf(c) \/ disconnect(c)
      PROVE  Inv'
  BY <1>4, AcceptStep, ConnectStep, LuaStep
<1>5. ASSUME NEW c \in Conn, PeerCloses(c) \/ \E size \in Size : PeerSends(c, size)
      PROVE  Inv'
  BY <1>5, QuietStep
<1>6. CASE UNCHANGED vars
  <2>1. SameSids /\ SameLists /\ SameTypes
    BY <1>6 DEF SameSids, SameLists, SameTypes, vars, net, kernel, ghost, Inv, Types
  <2>. QED
    BY <2>1, Still
<1>. QED
  BY <1>1, <1>2, <1>3, <1>4, <1>5, <1>6 DEF Next

LEMMA InitInv == Init => Inv
<1> SUFFICES ASSUME Init PROVE Inv
  OBVIOUS
<1>1. DOMAIN Free = Fields /\ Free.sid = 0
  BY DEF Free, Fields
<1>2. Types
  BY <1>1 DEF Init, Types
<1>3. \A l, i, c : ~At(l, i, c)
  BY DEF Init, At
<1>4. Open /\ OwnDescriptor /\ Waits /\ Once
  BY <1>1, <1>3 DEF Init, Open, OwnDescriptor, Waits, Once
<1>. QED
  BY <1>2, <1>4 DEF Inv

(* Whatever the descriptors and the connections, and however the threads   *)
(* interleave: a session of the event thread works on the descriptor of    *)
(* its own connection, which is open (net.c: gSess[fd], close_session,     *)
(* on_tick and connect_to on another thread).                              *)
THEOREM OwnDescriptorHolds == Spec => []OwnDescriptor
<1>0. 0 \notin Fd /\ 0 \notin Conn
  BY NetAssumption
<1>1. Inv /\ [Next]_vars => Inv'
  BY <1>0, NextInv
<1>2. Inv => OwnDescriptor
  BY DEF Inv
<1>. QED
  BY <1>0, <1>1, <1>2, InitInv, PTL DEF Spec

-----------------------------------------------------------------------------
(* The stream of units on a connection. *)

Span(size) == IF size = 0 THEN 1 ELSE size

(* A unit is in its place in a packet of this size that lies whole in q.   *)
InPacket(q, j) ==
  /\ q[j].i \in 1..Span(q[j].size) /\ q[j].i <= j
  /\ \A k \in 1..Span(q[j].size) :
       /\ j - q[j].i + k \in DOMAIN q
       /\ q[j - q[j].i + k].i = k /\ q[j - q[j].i + k].size = q[j].size

(* q is what is left to take of the packets of these sizes. *)
Stream(sizes, q) ==
  \A j \in DOMAIN q : /\ q[j].of \in DOMAIN sizes /\ q[j].size = sizes[q[j].of]
                      /\ InPacket(q, j)

LEMMA CatAt ==
  ASSUME NEW S, NEW p \in Seq(S), NEW q \in Seq(S)
  PROVE  /\ p \o q \in Seq(S) /\ Len(p) \in Nat /\ Len(q) \in Nat
         /\ DOMAIN p = 1..Len(p) /\ DOMAIN q = 1..Len(q)
         /\ Len(p \o q) = Len(p) + Len(q) /\ DOMAIN (p \o q) = 1..(Len(p) + Len(q))
         /\ \A i \in 1..Len(p) : (p \o q)[i] = p[i]
         /\ \A i \in 1..Len(q) : (p \o q)[Len(p) + i] = q[i]
  OBVIOUS

LEMMA FirstOf ==
  ASSUME NEW S, NEW q \in Seq(S), NEW n \in 0..Len(q)
  PROVE  /\ SubSeq(q, 1, n) \in Seq(S) /\ Len(SubSeq(q, 1, n)) = n
         /\ \A i \in 1..n : SubSeq(q, 1, n)[i] = q[i]
  OBVIOUS

LEMMA RestOf ==
  ASSUME NEW S, NEW q \in Seq(S), NEW n \in 0..Len(q)
  PROVE  /\ SubSeq(q, n + 1, Len(q)) \in Seq(S) /\ Len(SubSeq(q, n + 1, Len(q))) = Len(q) - n
         /\ \A i \in 1..(Len(q) - n) : SubSeq(q, n + 1, Len(q))[i] = q[n + i]
<1>1. Len(q) \in Nat /\ n \in Int /\ \A i \in n+1..Len(q) : q[i] \in S
  OBVIOUS
<1>2. /\ SubSeq(q, n + 1, Len(q)) \in Seq(S)
      /\ Len(SubSeq(q, n + 1, Len(q))) = IF n+1 <= Len(q) THEN Len(q) - (n+1) + 1 ELSE 0
      /\ \A i \in 1..(Len(q) - (n+1) + 1) : SubSeq(q, n+1, Len(q))[i] = q[n+1+i-1]
  BY <1>1, n + 1 \in Int, Len(q) \in Int, SubSeqProperties
<1>. QED
  BY <1>1, <1>2

(* What is read from one end and left at the other is the same stream. *)
LEMMA Reread ==
  ASSUME NEW S, NEW p \in Seq(S), NEW q \in Seq(S), NEW n \in 0..Len(q)
  PROVE  (p \o SubSeq(q, 1, n)) \o SubSeq(q, n + 1, Len(q)) = p \o q
<1>. DEFINE f == SubSeq(q, 1, n)
            r == SubSeq(q, n + 1, Len(q))
<1>1. /\ f \in Seq(S) /\ Len(f) = n /\ \A i \in 1..n : f[i] = q[i]
      /\ r \in Seq(S) /\ Len(r) = Len(q) - n /\ \A i \in 1..(Len(q) - n) : r[i] = q[n + i]
      /\ Len(q) \in Nat /\ n \in Nat
  BY FirstOf, RestOf
<1>. HIDE DEF f, r
<1>2. /\ f \o r \in Seq(S) /\ Len(f \o r) = Len(q)
      /\ \A i \in 1..n : (f \o r)[i] = f[i]
      /\ \A i \in 1..(Len(q) - n) : (f \o r)[n + i] = r[i]
  BY <1>1, CatAt
<1>3. ASSUME NEW i \in 1..Len(f \o r) PROVE (f \o r)[i] = q[i]
  <2>1. CASE i <= n
    BY <1>1, <1>2, <2>1
  <2>2. CASE i > n
    <3>1. i - n \in 1..(Len(q) - n) /\ n + (i - n) = i
      BY <1>1, <1>2, <2>2
    <3>2. (f \o r)[n + (i - n)] = q[n + (i - n)]
      BY <1>1, <1>2, <3>1
    <3>. QED
      BY <3>1, <3>2
  <2>. QED
    BY <1>1, <1>2, <2>1, <2>2
<1>4. f \o r = q
  BY <1>2, <1>3, SeqEqual
<1>5. (p \o f) \o r = p \o (f \o r)
  BY <1>1, ConcatAssociative
<1>. QED
  BY <1>4, <1>5 DEF f, r

LEMMA RestOfCat ==
  ASSUME NEW S, NEW p \in Seq(S), NEW q \in Seq(S), NEW n \in 0..Len(p)
  PROVE  SubSeq(p \o q, n + 1, Len(p \o q)) = SubSeq(p, n + 1, Len(p)) \o q
<1>. DEFINE r == SubSeq(p, n + 1, Len(p))
            t == SubSeq(p \o q, n + 1, Len(p \o q))
<1>1. /\ r \in Seq(S) /\ Len(r) = Len(p) - n /\ \A i \in 1..(Len(p) - n) : r[i] = p[n + i]
  BY RestOf
<1>2. /\ p \o q \in Seq(S) /\ Len(p \o q) = Len(p) + Len(q) /\ n \in 0..Len(p \o q)
      /\ Len(p) \in Nat /\ Len(q) \in Nat
  BY CatAt
<1>3. t \in Seq(S) /\ Len(t) = Len(p) + Len(q) - n /\ \A i \in 1..(Len(p) + Len(q) - n) : t[i] = (p \o q)[n + i]
  BY <1>2, RestOf
<1>. HIDE DEF r, t
<1>4. r \o q \in Seq(S) /\ Len(r \o q) = Len(r) + Len(q)
  BY <1>1, CatAt
<1>5. ASSUME NEW i \in 1..Len(t) PROVE t[i] = (r \o q)[i]
  <2>1. CASE i <= Len(p) - n
    <3>1. (r \o q)[i] = r[i]
      BY <1>1, <1>2, <2>1, CatAt
    <3>2. n + i \in 1..Len(p)
      BY <1>2, <2>1
    <3>. QED
      BY <1>1, <1>2, <1>3, <2>1, <3>1, <3>2, CatAt
  <2>2. CASE i > Len(p) - n
    <3>1. i - Len(r) \in 1..Len(q) /\ Len(r) + (i - Len(r)) = i /\ Len(p) + (i - Len(r)) = n + i
      BY <1>1, <1>2, <1>3, <2>2
    <3>2. (r \o q)[Len(r) + (i - Len(r))] = q[i - Len(r)]
      BY <1>1, <3>1, CatAt
    <3>3. (p \o q)[Len(p) + (i - Len(r))] = q[i - Len(r)]
      BY <3>1, CatAt
    <3>. QED
      BY <1>2, <1>3, <3>1, <3>2, <3>3
  <2>. QED
    BY <1>1, <1>2, <1>3, <2>1, <2>2
<1>6. Len(t) = Len(r \o q)
  BY <1>1, <1>2, <1>3, <1>4
<1>7. t = r \o q
  BY <1>3, <1>4, <1>5, <1>6, SeqEqual
<1>. QED
  BY <1>7 DEF r, t

(* What a peer sends is one more packet of the stream. *)
LEMMA UnitsAt ==
  ASSUME NEW n \in Nat, NEW size \in Nat
  PROVE  /\ Units(n, size) \in Seq(Unit) /\ Len(Units(n, size)) = Span(size)
         /\ \A k \in 1..Span(size) : Units(n, size)[k] = [of |-> n, i |-> k, size |-> size]
<1>1. CASE size = 0
  <2>1. [of |-> n, i |-> 1, size |-> 0] \in Unit
    BY DEF Unit
  <2>2. Units(n, size) = <<[of |-> n, i |-> 1, size |-> size]>> /\ Span(size) = 1
    BY <1>1 DEF Units, Span
  <2>3. \A k \in 1..1 : Units(n, size)[k] = [of |-> n, i |-> k, size |-> size]
    BY <2>2
  <2>4. Units(n, size) \in Seq(Unit) /\ Len(Units(n, size)) = 1
    BY <1>1, <2>1, <2>2
  <2>. QED
    BY <2>2, <2>3, <2>4
<1>2. CASE size # 0
  <2>1. Units(n, size) = [i \in 1..size |-> [of |-> n, i |-> i, size |-> size]]
    BY <1>2 DEF Units
  <2>2. \A i \in 1..size : [of |-> n, i |-> i, size |-> size] \in Unit
    BY DEF Unit
  <2>3. Units(n, size) \in [1..size -> Unit]
    BY <2>1, <2>2
  <2>4. Units(n, size) \in Seq(Unit) /\ Len(Units(n, size)) = size
    BY <2>3, SeqDef
  <2>. QED
    BY <1>2, <2>1, <2>4 DEF Span
<1>. QED
  BY <1>1, <1>2

LEMMA SpanNat == \A size \in Nat : Span(size) \in Nat /\ Span(size) >= 1 /\ (size # 0 => Span(size) = size)
  BY DEF Span

LEMMA UnitIs ==
  ASSUME NEW q \in Seq(Unit), NEW j \in 1..Len(q)
  PROVE  /\ q[j] \in Unit /\ q[j].of \in Nat /\ q[j].i \in Nat /\ q[j].size \in Nat
         /\ Span(q[j].size) \in Nat /\ Span(q[j].size) >= 1
<1>1. q[j] \in Unit
  OBVIOUS
<1>2. q[j].of \in Nat /\ q[j].i \in Nat /\ q[j].size \in Nat
  BY <1>1 DEF Unit
<1>. QED
  BY <1>1, <1>2, SpanNat

LEMMA StreamCat ==
  ASSUME NEW sizes, NEW q \in Seq(Unit), NEW u \in Seq(Unit), Stream(sizes, q), Stream(sizes, u)
  PROVE  Stream(sizes, q \o u)
<1>1. PICK t \in Seq(Unit) : t = q \o u
  BY CatAt
<1>2. /\ Len(q) \in Nat /\ Len(u) \in Nat /\ DOMAIN q = 1..Len(q) /\ DOMAIN u = 1..Len(u)
      /\ DOMAIN t = 1..(Len(q) + Len(u))
      /\ \A i \in 1..Len(q) : t[i] = q[i]
      /\ \A i \in 1..Len(u) : t[Len(q) + i] = u[i]
  BY <1>1, CatAt
<1>3. ASSUME NEW j \in 1..Len(q)
      PROVE  t[j].of \in DOMAIN sizes /\ t[j].size = sizes[t[j].of] /\ InPacket(t, j)
  <2>1. q[j].of \in DOMAIN sizes /\ q[j].size = sizes[q[j].of] /\ InPacket(q, j)
    BY <1>2 DEF Stream
  <2>2. t[j] = q[j]
    BY <1>2
  <2>3. ASSUME NEW k \in 1..Span(q[j].size)
        PROVE  /\ j - q[j].i + k \in DOMAIN t
               /\ t[j - q[j].i + k].i = k /\ t[j - q[j].i + k].size = q[j].size
    <3>1. /\ j - q[j].i + k \in 1..Len(q)
          /\ q[j - q[j].i + k].i = k /\ q[j - q[j].i + k].size = q[j].size
      BY <1>2, <2>1 DEF InPacket
    <3>2. j - q[j].i + k \in DOMAIN t /\ t[j - q[j].i + k] = q[j - q[j].i + k]
      BY <1>2, <3>1
    <3>. QED
      BY <3>1, <3>2
  <2>4. InPacket(t, j)
    BY <2>1, <2>2, <2>3 DEF InPacket
  <2>. QED
    BY <2>1, <2>2, <2>4
<1>4. ASSUME NEW j \in 1..Len(u)
      PROVE  LET i == Len(q) + j
             IN  t[i].of \in DOMAIN sizes /\ t[i].size = sizes[t[i].of] /\ InPacket(t, i)
  <2>. DEFINE i == Len(q) + j
  <2>1. u[j].of \in DOMAIN sizes /\ u[j].size = sizes[u[j].of] /\ InPacket(u, j)
    BY <1>2 DEF Stream
  <2>2. t[i] = u[j] /\ u[j].i \in Nat
    BY <1>2, UnitIs
  <2>3. ASSUME NEW k \in 1..Span(u[j].size)
        PROVE  /\ i - u[j].i + k \in DOMAIN t
               /\ t[i - u[j].i + k].i = k /\ t[i - u[j].i + k].size = u[j].size
    <3>. DEFINE m == j - u[j].i + k
    <3>1. m \in 1..Len(u) /\ u[m].i = k /\ u[m].size = u[j].size
      BY <1>2, <2>1 DEF InPacket
    <3>2. k \in Nat /\ i - u[j].i + k = Len(q) + m
      BY <1>2, <2>2, UnitIs
    <3>. HIDE DEF m
    <3>3. Len(q) + m \in DOMAIN t /\ t[Len(q) + m] = u[m]
      BY <1>2, <3>1
    <3>. QED
      BY <3>1, <3>2, <3>3
  <2>4. u[j].i \in 1..Span(u[j].size) /\ u[j].i <= i
    BY <1>2, <2>1, <2>2 DEF InPacket
  <2>5. InPacket(t, i)
    BY <2>2, <2>3, <2>4 DEF InPacket
  <2>. QED
    BY <2>1, <2>2, <2>5
<1>5. \A i \in DOMAIN t : i \in 1..Len(q) \/ \E j \in 1..Len(u) : i = Len(q) + j
  <2> SUFFICES ASSUME NEW i \in DOMAIN t, i \notin 1..Len(q) PROVE \E j \in 1..Len(u) : i = Len(q) + j
    OBVIOUS
  <2>1. i - Len(q) \in 1..Len(u) /\ i = Len(q) + (i - Len(q))
    BY <1>2
  <2>. QED
    BY <2>1
<1>6. Stream(sizes, t)
  BY <1>3, <1>4, <1>5 DEF Stream
<1>. QED
  BY <1>1, <1>6

LEMMA StreamGrows ==
  ASSUME NEW sizes \in Seq(Nat), NEW q \in Seq(Unit), NEW size \in Nat, Stream(sizes, q)
  PROVE  Stream(Append(sizes, size), q \o Units(Len(sizes) + 1, size))
<1>1. PICK n \in Nat, more \in Seq(Nat) : n = Len(sizes) + 1 /\ more = Append(sizes, size)
  <2>1. Len(sizes) + 1 \in Nat /\ Append(sizes, size) \in Seq(Nat)
    OBVIOUS
  <2>. QED
    BY <2>1
<1>2. /\ n \in DOMAIN more /\ more[n] = size
      /\ \A i \in DOMAIN sizes : i \in DOMAIN more /\ more[i] = sizes[i]
  BY <1>1
<1>3. PICK u \in Seq(Unit) : u = Units(n, size)
  BY UnitsAt
<1>4. Len(u) = Span(size) /\ \A k \in 1..Span(size) : u[k] = [of |-> n, i |-> k, size |-> size]
  BY <1>3, UnitsAt
<1>5. Span(size) \in Nat /\ DOMAIN u = 1..Span(size)
  BY <1>4, SpanNat
<1>6. ASSUME NEW j \in 1..Span(size) PROVE InPacket(u, j)
  <2>1. u[j] = [of |-> n, i |-> j, size |-> size]
    BY <1>4
  <2>2. \A k \in 1..Span(size) : j - j + k = k
    BY <1>5
  <2>. QED
    BY <1>4, <1>5, <2>1, <2>2 DEF InPacket
<1>7. Stream(more, u)
  BY <1>2, <1>4, <1>5, <1>6 DEF Stream
<1>8. Stream(more, q)
  BY <1>2 DEF Stream
<1>. QED
  BY <1>1, <1>3, <1>7, <1>8, StreamCat

(* Whole packets can be taken off its front. *)
LEMMA StreamDrops ==
  ASSUME NEW sizes, NEW q \in Seq(Unit), NEW n \in 0..Len(q), Stream(sizes, q),
         n # 0 => q[n].i = q[n].size
  PROVE  Stream(sizes, SubSeq(q, n + 1, Len(q)))
<1>. DEFINE t == SubSeq(q, n + 1, Len(q))
<1>1. /\ Len(q) \in Nat /\ DOMAIN q = 1..Len(q) /\ DOMAIN t = 1..(Len(q) - n)
      /\ \A i \in 1..(Len(q) - n) : t[i] = q[n + i] /\ n + i \in DOMAIN q
  BY RestOf
<1>2. \A j \in 1..Len(q) : q[j] \in Unit /\ Span(q[j].size) \in Nat /\ q[j].i \in Nat /\ q[j].size \in Nat
  BY UnitIs
<1>. HIDE DEF t
<1> SUFFICES ASSUME NEW i \in 1..(Len(q) - n)
             PROVE  t[i].of \in DOMAIN sizes /\ t[i].size = sizes[t[i].of] /\ InPacket(t, i)
  BY <1>1 DEF Stream, t
<1>3. /\ t[i] = q[n + i] /\ n + i \in 1..Len(q)
      /\ q[n + i].of \in DOMAIN sizes /\ q[n + i].size = sizes[q[n + i].of] /\ InPacket(q, n + i)
  BY <1>1 DEF Stream
<1>. DEFINE u == q[n + i]
<1>4. u.i \in Nat /\ u.size \in Nat /\ Span(u.size) \in Nat /\ n \in Nat /\ i \in Nat /\ i >= 1
  BY <1>1, <1>2, <1>3
<1>5. /\ u.i \in 1..Span(u.size) /\ u.i <= n + i
      /\ \A k \in 1..Span(u.size) : n + i - u.i + k \in DOMAIN q /\ q[n + i - u.i + k].i = k /\ q[n + i - u.i + k].size = u.size
  BY <1>3 DEF InPacket
<1>. HIDE DEF u
<1>6. u.i <= i
  <2>1. PICK a \in Nat, z \in Nat : a = u.i /\ z = Span(u.size)
    BY <1>4
  <2>2. a >= 1 /\ a <= z
    BY <1>5, <2>1
  <2>3. ASSUME a > i PROVE FALSE
    <3>1. PICK k \in Nat : k = a - i
      BY <1>4, <2>3
    <3>2. k \in 1..z /\ n + i - a + k = n /\ k < a
      BY <1>4, <2>1, <2>2, <2>3, <3>1
    <3>3. n \in DOMAIN q /\ q[n].i = k /\ q[n].size = u.size
      BY <1>5, <2>1, <3>2
    <3>4. u.size = k /\ k # 0
      <4>0. n \in 1..Len(q) /\ Len(q) \in Nat
        BY <1>1, <3>3
      <4>a. k >= 1
        BY <2>1, <3>2
      <4>b. n >= 1
        BY <4>0
      <4>1. n # 0 /\ k # 0
        BY <4>0, <4>a, <4>b, SMT
      <4>2. q[n].i = q[n].size
        BY <4>1
      <4>. QED
        BY <3>3, <4>1, <4>2
    <3>5. z = k
      BY <2>1, <3>4, SpanNat
    <3>. QED
      BY <2>1, <2>2, <3>2, <3>5
  <2>. QED
    BY <1>4, <2>1, <2>3
<1>7. ASSUME NEW k \in 1..Span(u.size)
      PROVE  i - u.i + k \in DOMAIN t /\ t[i - u.i + k].i = k /\ t[i - u.i + k].size = u.size
  <2>1. n + i - u.i + k \in 1..Len(q) /\ n + (i - u.i + k) = n + i - u.i + k
    BY <1>1, <1>4, <1>5
  <2>2. i - u.i + k \in 1..(Len(q) - n)
    <3>1. PICK a \in Nat, l \in Nat : a = u.i /\ l = Len(q)
      BY <1>1, <1>4
    <3>2. k \in Nat /\ k >= 1
      BY <1>4
    <3>3. a <= i /\ n + (i - a + k) <= l
      BY <1>6, <2>1, <3>1
    <3>4. i - a + k \in 1..(l - n)
      BY <1>4, <3>2, <3>3
    <3>. QED
      BY <3>1, <3>4
  <2>. QED
    BY <1>1, <1>5, <2>1, <2>2
<1>8. InPacket(t, i)
  BY <1>3, <1>5, <1>6, <1>7 DEF InPacket, u
<1>. QED
  BY <1>3, <1>8

(* The first unit begins its packet, and all of that packet follows.  *)
LEMMA StreamFirst ==
  ASSUME NEW sizes, NEW q \in Seq(Unit), q # << >>, Stream(sizes, q)
  PROVE  /\ q[1].i = 1 /\ q[1].size \in Nat
         /\ q[1].size # 0 => \A k \in 1..q[1].size : k \in DOMAIN q /\ q[k].i = k /\ q[k].size = q[1].size
<1>1. 1 \in DOMAIN q /\ q[1] \in Unit
  OBVIOUS
<1>2. InPacket(q, 1) /\ q[1].i \in Nat /\ q[1].size \in Nat
  BY <1>1 DEF Stream, Unit
<1>3. q[1].i = 1
  BY <1>2, SpanNat DEF InPacket
<1>4. ASSUME q[1].size # 0, NEW k \in 1..q[1].size PROVE k \in DOMAIN q /\ q[k].i = k /\ q[k].size = q[1].size
  <2>1. k \in 1..Span(q[1].size) /\ 1 - q[1].i + k = k
    BY <1>2, <1>3, <1>4, SpanNat
  <2>. QED
    BY <1>2, <2>1 DEF InPacket
<1>. QED
  BY <1>2, <1>3, <1>4

-----------------------------------------------------------------------------
(* The largest of a set, the whole packets of a buffer. *)

LEMMA MaxIs ==
  ASSUME NEW n \in Nat, NEW S, S \subseteq 0..n, S # {}
  PROVE  Max(S) \in S /\ \A y \in S : Max(S) >= y
<1>. DEFINE T == {n - x : x \in S}
<1>1. T \subseteq Nat /\ T # {}
  BY SMT
<1>2. PICK t \in T : \A y \in T : ~ (<<y, t>> \in OpToRel(<, Nat))
  BY <1>1, NatLessThanWellFounded, WFMin
<1>3. \A y \in T : ~(y < t)
  BY <1>1, <1>2 DEF OpToRel
<1>4. PICK m \in S : t = n - m
  OBVIOUS
<1>5. ASSUME NEW y \in S PROVE m >= y
  <2>1. n - y \in T /\ y \in 0..n /\ m \in 0..n
    BY <1>4
  <2>2. ~(n - y < n - m)
    BY <1>3, <1>4, <2>1
  <2>. QED
    BY <2>1, <2>2
<1>6. \E x \in S : \A y \in S : x >= y
  BY <1>4, <1>5
<1>. QED
  BY <1>6 DEF Max

LEMMA MaxOfTwo ==
  ASSUME NEW a \in Nat, NEW b \in Nat, b < a
  PROVE  Max({a, b}) = a
<1>1. {a, b} \subseteq 0..a /\ {a, b} # {}
  OBVIOUS
<1>2. Max({a, b}) \in {a, b} /\ Max({a, b}) >= a
  BY <1>1, MaxIs
<1>. QED
  BY <1>2

LEMMA MinOfTwo ==
  ASSUME NEW a \in Nat, NEW b \in Nat
  PROVE  Min({a, b}) \in Nat /\ Min({a, b}) <= a /\ Min({a, b}) <= b
<1>1. \E x \in {a, b} : \A y \in {a, b} : x =< y
  OBVIOUS
<1>2. Min({a, b}) \in {a, b} /\ \A y \in {a, b} : Min({a, b}) =< y
  BY <1>1 DEF Min
<1>. QED
  BY <1>2

LEMMA WholeIs ==
  ASSUME NEW buf \in Seq(Unit)
  PROVE  /\ Whole(buf) \in 0..Len(buf) /\ Len(buf) \in Nat
         /\ Whole(buf) # 0 => buf[Whole(buf)].i = buf[Whole(buf)].size
         /\ \A j \in DOMAIN buf : j > Whole(buf) => buf[j].i # buf[j].size
<1>. DEFINE S == {0} \union {j \in DOMAIN buf : buf[j].i = buf[j].size}
<1>1. Len(buf) \in Nat /\ DOMAIN buf = 1..Len(buf) /\ S \subseteq 0..Len(buf) /\ S # {}
  OBVIOUS
<1>2. Max(S) \in S /\ \A y \in S : Max(S) >= y
  BY <1>1, MaxIs
<1>3. PICK w \in S : w = Whole(buf) /\ \A y \in S : w >= y
  BY <1>2 DEF Whole
<1>4. w \in 0..Len(buf) /\ (w # 0 => buf[w].i = buf[w].size)
  BY <1>1
<1>5. ASSUME NEW j \in DOMAIN buf, j > w PROVE buf[j].i # buf[j].size
  <2>1. ~(w >= j)
    BY <1>1, <1>4, <1>5
  <2>2. j \notin S
    BY <1>3, <2>1
  <2>. QED
    BY <2>2
<1>. QED
  BY <1>1, <1>3, <1>4, <1>5

(* Between two reads a buffer holds the beginning of one packet, and has   *)
(* room for a unit more or is for a packet that nobody takes.              *)
Buffered(buf, cap) ==
  /\ \A j \in DOMAIN buf : buf[j].i # buf[j].size /\ buf[j].size # 0
  /\ cap >= Room /\ Len(buf) <= cap
  /\ cap > Room => buf # << >> /\ buf[1].size = cap
  /\ Len(buf) = cap => buf[1].size >= MaxPacket

(* Without a whole packet, the packet is longer than the buffer. *)
LEMMA LongerPacket ==
  ASSUME NEW sizes, NEW buf \in Seq(Unit), NEW rest \in Seq(Unit), buf # << >>,
         Stream(sizes, buf \o rest),
         \A j \in DOMAIN buf : buf[j].i # buf[j].size /\ buf[j].size # 0
  PROVE  buf[1].size > Len(buf) /\ buf[1].size \in Nat /\ Len(buf) \in Nat
<1>1. PICK t \in Seq(Unit) : t = buf \o rest
  BY CatAt
<1>2. /\ t # << >> /\ Len(buf) \in Nat \ {0} /\ DOMAIN buf = 1..Len(buf) /\ 1 \in DOMAIN buf
      /\ \A i \in 1..Len(buf) : t[i] = buf[i]
  <2>1. Len(buf) \in Nat \ {0} /\ DOMAIN buf = 1..Len(buf)
    OBVIOUS
  <2>2. Len(t) = Len(buf) + Len(rest) /\ Len(rest) \in Nat /\ \A i \in 1..Len(buf) : t[i] = buf[i]
    BY <1>1, CatAt
  <2>3. t # << >>
    BY <1>1, <2>1, <2>2
  <2>. QED
    BY <2>1, <2>2, <2>3
<1>3. t[1] = buf[1] /\ buf[1].size # 0 /\ t[1].size \in Nat
  BY <1>1, <1>2, StreamFirst
<1>4. \A k \in 1..t[1].size : t[k].i = k /\ t[k].size = t[1].size
  BY <1>1, <1>2, <1>3, StreamFirst
<1>5. ASSUME t[1].size <= Len(buf) PROVE FALSE
  <2>1. PICK n \in Nat : n = t[1].size
    BY <1>3
  <2>2. n \in 1..n /\ n \in 1..Len(buf)
    BY <1>2, <1>3, <1>5, <2>1
  <2>3. t[n].i = n /\ t[n].size = n /\ t[n] = buf[n] /\ n \in DOMAIN buf
    BY <1>2, <1>4, <2>1, <2>2
  <2>. QED
    BY <2>3
<1>. QED
  BY <1>2, <1>3, <1>5

(* What a read leaves behind. *)
LEMMA ReadKeeps ==
  ASSUME NEW sizes, NEW buf \in Seq(Unit), NEW rest \in Seq(Unit), Stream(sizes, buf \o rest),
         Room \in Nat \ {0}, MaxPacket \in Nat, NEW cap \in Nat, Room <= cap, buf # << >>, Len(buf) <= cap,
         ~Malformed(buf), cap > Room => buf[1].size = cap
  PROVE  LET done == Whole(buf)
             left == IF done > 0 THEN Rest(buf, done) ELSE buf
             room == IF done > 0 THEN Max({Room, Len(buf) - done}) ELSE Grown(buf, cap)
         IN  left \in Seq(Unit) /\ room \in Nat /\ Stream(sizes, left \o rest) /\ Buffered(left, room)
<1>1. PICK done \in 0..Len(buf) : done = Whole(buf)
  BY WholeIs
<1>2. /\ Len(buf) \in Nat \ {0} /\ DOMAIN buf = 1..Len(buf) /\ done \in Nat /\ done <= Len(buf)
      /\ done # 0 => buf[done].i = buf[done].size
      /\ \A j \in DOMAIN buf : j > done => buf[j].i # buf[j].size
  BY <1>1, WholeIs
<1>3. \A j \in DOMAIN buf : buf[j].size # 0
  BY DEF Malformed
<1>4. CASE done = 0
  <2>1. \A j \in DOMAIN buf : buf[j].i # buf[j].size /\ buf[j].size # 0
    BY <1>2, <1>3, <1>4
  <2>2. buf[1].size > Len(buf) /\ buf[1].size \in Nat
    BY <2>1, LongerPacket
  <2>3. PICK size \in Nat : size = buf[1].size
    BY <2>2
  <2>4. Grown(buf, cap) = IF Len(buf) = cap /\ size < MaxPacket /\ size > cap THEN size ELSE cap
    BY <2>3 DEF Grown
  <2>5. Grown(buf, cap) \in Nat /\ Buffered(buf, Grown(buf, cap))
    <3>1. CASE Len(buf) = cap /\ size < MaxPacket /\ size > cap
      <4>1. Grown(buf, cap) = size
        BY <2>4, <3>1
      <4>. QED
        BY <1>2, <2>1, <2>3, <3>1, <4>1 DEF Buffered
    <3>2. CASE ~(Len(buf) = cap /\ size < MaxPacket /\ size > cap)
      <4>1. Grown(buf, cap) = cap
        BY <2>4, <3>2
      <4>2. Len(buf) = cap => size >= MaxPacket
        BY <1>2, <2>2, <2>3, <3>2
      <4>. QED
        BY <1>2, <2>1, <2>3, <4>1, <4>2 DEF Buffered
    <3>. QED
      BY <3>1, <3>2
  <2>. QED
    BY <1>1, <1>4, <2>5
<1>5. CASE done > 0
  <2>1. PICK left \in Seq(Unit) : left = Rest(buf, done)
    BY <1>1, RestOf DEF Rest
  <2>2. /\ Len(left) = Len(buf) - done /\ DOMAIN left = 1..(Len(buf) - done)
        /\ \A i \in 1..(Len(buf) - done) : left[i] = buf[done + i]
    BY <1>1, <2>1, RestOf DEF Rest
  <2>3. Stream(sizes, left \o rest)
    <3>1. PICK t \in Seq(Unit) : t = buf \o rest
      BY CatAt
    <3>2. Len(t) = Len(buf) + Len(rest) /\ Len(rest) \in Nat /\ t[done] = buf[done]
      <4>1. done \in 1..Len(buf)
        BY <1>2, <1>5
      <4>. QED
        BY <3>1, <4>1, CatAt
    <3>3. done \in 0..Len(t) /\ t[done].i = t[done].size
      BY <1>2, <1>5, <3>2
    <3>4. Stream(sizes, SubSeq(t, done + 1, Len(t)))
      BY <3>1, <3>3, StreamDrops
    <3>5. SubSeq(t, done + 1, Len(t)) = left \o rest
      BY <1>1, <2>1, <3>1, RestOfCat DEF Rest
    <3>. QED
      BY <3>4, <3>5
  <2>4. \A j \in DOMAIN left : left[j].i # left[j].size /\ left[j].size # 0
    <3> SUFFICES ASSUME NEW j \in 1..(Len(buf) - done) PROVE left[j].i # left[j].size /\ left[j].size # 0
      BY <2>2
    <3>1. done + j \in 1..Len(buf) /\ done + j > done
      BY <1>2
    <3>2. left[j] = buf[done + j]
      BY <2>2
    <3>. QED
      BY <1>2, <1>3, <3>1, <3>2
  <2>5. Len(left) < Room /\ Len(left) \in Nat
    <3>1. CASE cap = Room
      BY <1>2, <1>5, <2>2, <3>1
    <3>2. CASE cap > Room
      <4>1. PICK t \in Seq(Unit) : t = buf \o rest
        BY CatAt
      <4>2. t # << >> /\ \A i \in 1..Len(buf) : t[i] = buf[i]
        <5>1. Len(t) = Len(buf) + Len(rest) /\ Len(rest) \in Nat /\ \A i \in 1..Len(buf) : t[i] = buf[i]
          BY <4>1, CatAt
        <5>2. Len(t) # 0
          BY <1>2, <5>1
        <5>. QED
          BY <5>1, <5>2
      <4>3. t[1].size = cap /\ cap # 0
        BY <1>2, <3>2, <4>2
      <4>4. \A k \in 1..cap : t[k].i = k /\ t[k].size = cap
        BY <4>1, <4>2, <4>3, StreamFirst
      <4>5. done \in 1..cap /\ done \in 1..Len(buf)
        BY <1>2, <1>5
      <4>6. t[done].i = done /\ t[done].size = cap /\ t[done] = buf[done]
        BY <4>2, <4>4, <4>5
      <4>7. done = cap
        BY <1>2, <4>5, <4>6
      <4>. QED
        BY <1>2, <2>2, <4>7
    <3>. QED
      BY <3>1, <3>2
  <2>6. Max({Room, Len(buf) - done}) = Room
    BY <2>2, <2>5, MaxOfTwo
  <2>7. Buffered(left, Room)
    BY <2>4, <2>5 DEF Buffered
  <2>. QED
    BY <1>1, <1>5, <2>1, <2>3, <2>6, <2>7
<1>. QED
  BY <1>2, <1>4, <1>5

-----------------------------------------------------------------------------
(* What every connection has left to read, and why a session may end. *)

Typed ==
  /\ came \in [Conn -> Seq(Nat)] /\ inq \in [Conn -> Seq(Unit)]
  /\ \A f \in Fd : sess[f].bufr \in Seq(Unit) /\ sess[f].cap \in Nat

Waiting(c) == \E l, i : At(l, i, c)

(* Nothing has been read of a connection that has no session yet. *)
Unread == \A c \in Conn : fdOf[c] = 0 \/ Waiting(c) => Stream(came[c], inq[c])

Reads(f) ==
  /\ Stream(came[sess[f].sid], sess[f].bufr \o inq[sess[f].sid])
  /\ Buffered(sess[f].bufr, sess[f].cap)

IsClose(b) == b.sid = 0 /\ b.cmd = "close"

(* Only what Lua has asked for is on its way to be closed. *)
Closes ==
  /\ \A i \in DOMAIN gSndBufq : IsClose(gSndBufq[i]) => gSndBufq[i].arg \in asked
  /\ \A i \in DOMAIN todo : IsClose(todo[i]) => todo[i].arg \in asked

Kept == Typed /\ Unread /\ (\A f \in Fd : sess[f].sid # 0 => Reads(f)) /\ Closes

Cause(c) == c \in gone \union asked \/ \E i \in DOMAIN came[c] : came[c][i] = 0 \/ came[c][i] >= MaxPacket

Caused == \A f \in Fd : sess[f].sid # 0 /\ sess'[f].sid # sess[f].sid => Cause(sess[f].sid)

(* A session that stays has read nothing; one that ends is empty. *)
NoRead ==
  \A f \in Fd :
    \/ sess'[f].sid = 0 /\ sess'[f].bufr = << >> /\ sess'[f].cap = Room
    \/ sess'[f].sid = sess[f].sid /\ sess'[f].bufr = sess[f].bufr /\ sess'[f].cap = sess[f].cap

LEMMA NoReadKeeps ==
  ASSUME Kept, Room \in Nat, NoRead, NoneNew, UNCHANGED <<came, inq>>,
         \A c \in Conn : fdOf'[c] = 0 => fdOf[c] = 0, Closes'
  PROVE  Kept'
<1>. USE DEF Kept, NoRead
<1>1. Typed'
  <2>1. << >> \in Seq(Unit)
    OBVIOUS
  <2>2. \A f \in Fd : sess[f].bufr \in Seq(Unit) /\ sess[f].cap \in Nat
    BY DEF Typed
  <2>3. \A f \in Fd : sess'[f].bufr \in Seq(Unit) /\ sess'[f].cap \in Nat
    BY <2>1, <2>2
  <2>. QED
    BY <2>3 DEF Typed
<1>2. Unread'
  BY DEF Unread, Waiting, NoneNew
<1>3. \A f \in Fd : sess'[f].sid # 0 => Reads(f)'
  BY DEF Reads
<1>. QED
  BY <1>1, <1>2, <1>3

LEMMA Stays ==
  ASSUME \A f \in Fd : sess'[f].sid = sess[f].sid
  PROVE  Caused
  BY DEF Caused

(* The first of the list is taken off, or a buffer put at its end. *)
LEMMA ClosesStill ==
  ASSUME Inv, Closes, asked \subseteq asked',
         gSndBufq' = gSndBufq \/ \E b \in Buf : gSndBufq' = Append(gSndBufq, b) /\ (IsClose(b) => b.arg \in asked'),
         todo' = todo \/ (todo # << >> /\ todo' = Tail(todo))
  PROVE  Closes'
<1>1. \A i \in DOMAIN todo' : IsClose(todo'[i]) => todo'[i].arg \in asked'
  <2>1. CASE todo' = todo
    BY <2>1 DEF Closes
  <2>2. CASE todo # << >> /\ todo' = Tail(todo)
    BY <2>2, TailAt DEF Closes, Inv, Types
  <2>. QED
    BY <2>1, <2>2
<1>2. \A i \in DOMAIN gSndBufq' : IsClose(gSndBufq'[i]) => gSndBufq'[i].arg \in asked'
  <2>1. CASE gSndBufq' = gSndBufq
    BY <2>1 DEF Closes
  <2>2. ASSUME NEW b \in Buf, gSndBufq' = Append(gSndBufq, b), IsClose(b) => b.arg \in asked'
        PROVE  \A i \in DOMAIN gSndBufq' : IsClose(gSndBufq'[i]) => gSndBufq'[i].arg \in asked'
    <3>1. /\ DOMAIN gSndBufq' = 1..(Len(gSndBufq) + 1) /\ DOMAIN gSndBufq = 1..Len(gSndBufq) /\ Len(gSndBufq) \in Nat
          /\ \A i \in DOMAIN gSndBufq : gSndBufq'[i] = gSndBufq[i]
          /\ gSndBufq'[Len(gSndBufq) + 1] = b
      BY <2>2, AppendAt DEF Inv, Types
    <3>2. \A i \in DOMAIN gSndBufq' : i \in DOMAIN gSndBufq \/ i = Len(gSndBufq) + 1
      BY <3>1
    <3>. QED
      BY <2>2, <3>1, <3>2 DEF Closes
  <2>. QED
    BY <2>1, <2>2
<1>. QED
  BY <1>1, <1>2 DEF Closes

LEMMA SameNone == SameLists => NoneNew
<1> SUFFICES ASSUME SameLists PROVE NoneNew
  OBVIOUS
<1>1. \A list, i, c : At(list, i, c)' <=> At(list, i, c)
  BY DEF At, SameLists
<1>. QED
  BY <1>1 DEF NoneNew

(* A session that is closed is wiped. *)
LEMMA ClosedNoRead ==
  ASSUME Inv, NEW f \in Fd, NEW s, close_session(f, s)
  PROVE  NoRead
<1>1. Wiped(s).sid = 0 /\ Wiped(s).bufr = << >> /\ Wiped(s).cap = Room
  BY DEF Wiped, Free
<1>. QED
  BY <1>1 DEF close_session, NoRead, Inv, Types

(* Steps that neither read nor close. *)
LEMMA KeepOnTick == Inv /\ Kept /\ Room \in Nat /\ on_tick => Kept' /\ Caused
<1> SUFFICES ASSUME Inv, Kept, Room \in Nat, on_tick PROVE Kept' /\ Caused
  OBVIOUS
<1>1. NoRead /\ SameLists /\ fdOf' = fdOf /\ asked' = asked /\ UNCHANGED <<came, inq>> /\ sess' = sess
  BY DEF on_tick, NoRead, SameLists, kernel, ghost
<1>2. Closes'
  BY <1>1, ClosesStill DEF Kept, SameLists
<1>. QED
  BY <1>1, <1>2, NoReadKeeps, SameNone, Stays

LEMMA KeepTake == Inv /\ Kept /\ Room \in Nat /\ TakeSndBufq => Kept' /\ Caused
<1> SUFFICES ASSUME Inv, Kept, Room \in Nat, TakeSndBufq PROVE Kept' /\ Caused
  OBVIOUS
<1>1. NoRead /\ fdOf' = fdOf /\ UNCHANGED <<came, inq>> /\ sess' = sess
  BY DEF TakeSndBufq, NoRead, kernel, ghost
<1>2. Closes'
  BY DEF TakeSndBufq, Closes, Kept, ghost
<1>. QED
  BY <1>1, <1>2, NoReadKeeps, TakeStep, Stays

LEMMA KeepWrite ==
  ASSUME NEW f \in Fd, NEW n, Inv, Kept, Room \in Nat, common_write(f, n)
  PROVE  Kept' /\ Caused
<1>. DEFINE s == sess[f]
            buf == IF s.bufw # << >> THEN s.bufw ELSE IF s.bufwq # << >> THEN NextBuf(s) ELSE << >>
            rest == [s EXCEPT !.state = "ok", !.bufw = SubSeq(buf, n + 1, Len(buf)),
                              !.bufwq = IF s.bufw = << >> /\ @ # << >> THEN Tail(@) ELSE @]
<1>1. sess' = [sess EXCEPT ![f] = [rest EXCEPT !.evw = Work(rest)]]
  BY DEF common_write
<1>. HIDE DEF buf
<1>2. DOMAIN s = Fields
  BY DEF Inv, Types
<1>3. DOMAIN rest = Fields /\ rest.sid = s.sid /\ rest.bufr = s.bufr /\ rest.cap = s.cap
  BY <1>2 DEF Fields
<1>. HIDE DEF rest
<1>. DEFINE new == [rest EXCEPT !.evw = Work(rest)]
<1>4. new.sid = s.sid /\ new.bufr = s.bufr /\ new.cap = s.cap
  BY <1>3 DEF Fields
<1>. HIDE DEF new
<1>5. sess' = [sess EXCEPT ![f] = new]
  BY <1>1 DEF new
<1>6. NoRead /\ \A g \in Fd : sess'[g].sid = sess[g].sid
  BY <1>4, <1>5 DEF NoRead, Inv, Types
<1>7. SameLists /\ fdOf' = fdOf /\ asked' = asked /\ UNCHANGED <<came, inq>>
  BY DEF common_write, SameLists, ghost
<1>8. Closes'
  BY <1>7, ClosesStill DEF Kept, SameLists
<1>. QED
  BY <1>6, <1>7, <1>8, NoReadKeeps, SameNone, Stays

LEMMA KeepConnector == Inv /\ Kept /\ Room \in Nat /\ (ConnectDone \/ ConnectFails) => Kept' /\ Caused
<1> SUFFICES ASSUME Inv, Kept, Room \in Nat, ConnectDone \/ ConnectFails PROVE Kept' /\ Caused
  OBVIOUS
<1>1. NoRead /\ fdOf' = fdOf /\ asked' = asked /\ todo' = todo /\ UNCHANGED <<came, inq>> /\ sess' = sess
  BY DEF ConnectDone, ConnectFails, NoRead, kernel, ghost
<1>2. Closes'
  <2>. DEFINE b == [sid |-> 0, cmd |-> "income", arg |-> Head(gConnectQue), seed |-> FALSE]
  <2>1. CASE ConnectDone
    <3>1. Head(gConnectQue) \in Conn
      BY <2>1, TailAt DEF ConnectDone, Inv, Types
    <3>2. b \in Buf /\ ~IsClose(b)
      BY <3>1 DEF Buf, IsClose
    <3>3. gSndBufq' = Append(gSndBufq, b)
      BY <2>1 DEF ConnectDone
    <3>. HIDE DEF b
    <3>. QED
      BY <1>1, <3>2, <3>3, ClosesStill DEF Kept
  <2>2. CASE ConnectFails
    BY <1>1, <2>2, ClosesStill DEF Kept, ConnectFails
  <2>. QED
    BY <2>1, <2>2
<1>. QED
  BY <1>1, <1>2, NoReadKeeps, ConnectorStep, Stays

LEMMA KeepLua ==
  ASSUME Inv, Kept, Room \in Nat, 0 \notin Conn, NEW c \in Conn, send_buf(c) \/ disconnect(c)
  PROVE  Kept' /\ Caused
<1>1. /\ NoRead /\ fdOf' = fdOf /\ asked \subseteq asked' /\ todo' = todo
      /\ UNCHANGED <<came, inq>> /\ sess' = sess
  BY DEF send_buf, disconnect, NoRead, kernel, ghost
<1>2. Closes'
  <2>1. CASE send_buf(c)
    <3>1. out'[c] \in Nat
      BY <2>1 DEF send_buf, Inv, Types
    <3>. DEFINE b == [sid |-> c, arg |-> Units(out'[c], 2)]
    <3>2. b \in Buf /\ ~IsClose(b)
      BY <3>1, UnitsType DEF Buf, IsClose
    <3>3. gSndBufq' = Append(gSndBufq, b)
      BY <2>1 DEF send_buf
    <3>. HIDE DEF b
    <3>. QED
      BY <1>1, <3>2, <3>3, ClosesStill DEF Kept
  <2>2. CASE disconnect(c)
    <3>. DEFINE b == [sid |-> 0, cmd |-> "close", arg |-> c]
    <3>1. b \in Buf /\ b.arg \in asked' /\ gSndBufq' = Append(gSndBufq, b)
      BY <2>2 DEF disconnect, Buf
    <3>. HIDE DEF b
    <3>. QED
      BY <1>1, <3>1, ClosesStill DEF Kept
  <2>. QED
    BY <2>1, <2>2
<1>. QED
  BY <1>1, <1>2, NoReadKeeps, LuaStep, Stays

LEMMA KeepQuiet ==
  ASSUME Inv, Kept, Room \in Nat, NEW c, recv_bufq \/ PeerCloses(c) \/ UNCHANGED vars
  PROVE  Kept' /\ Caused
<1>1. NoRead /\ SameLists /\ fdOf' = fdOf /\ asked' = asked /\ UNCHANGED <<came, inq>> /\ sess' = sess
  BY DEF recv_bufq, PeerCloses, NoRead, SameLists, net, kernel, ghost, vars
<1>2. Closes'
  BY <1>1, ClosesStill DEF Kept, SameLists
<1>. QED
  BY <1>1, <1>2, NoReadKeeps, SameNone, Stays

(* A connection that is made had no descriptor, so nothing was read of it. *)
LEMMA KeepMade ==
  ASSUME NEW c \in Conn, 0 \notin Fd, 0 \notin Conn, Inv, Kept, accept_callback(c) \/ connect_to(c)
  PROVE  Kept' /\ Caused
<1>1. /\ sess' = sess /\ todo' = todo /\ asked' = asked /\ UNCHANGED <<came, inq>>
      /\ \E f \in Fd : makesid(c, f)
  BY DEF accept_callback, connect_to, ghost
<1>2. fdOf[c] = 0 /\ \A d \in Conn : fdOf'[d] = 0 => fdOf[d] = 0
  BY <1>1 DEF makesid, Inv, Types
<1>3. \A l, i, d : At(l, i, d)' => At(l, i, d) \/ d = c
  BY AcceptStep, ConnectStep
<1>4. Typed'
  BY <1>1 DEF Kept, Typed
<1>5. Unread'
  <2> SUFFICES ASSUME NEW d \in Conn, fdOf'[d] = 0 \/ Waiting(d)' PROVE Stream(came[d], inq[d])
    BY <1>1 DEF Unread
  <2>1. fdOf[d] = 0 \/ Waiting(d)
    BY <1>2, <1>3 DEF Waiting
  <2>. QED
    BY <2>1 DEF Kept, Unread
<1>6. \A f \in Fd : sess'[f].sid # 0 => Reads(f)'
  BY <1>1 DEF Kept, Reads
<1>7. Closes'
  <2>1. CASE accept_callback(c)
    <3>. DEFINE b == [sid |-> 0, cmd |-> "income", arg |-> c, seed |-> TRUE]
    <3>1. b \in Buf /\ ~IsClose(b) /\ gSndBufq' = Append(gSndBufq, b)
      BY <2>1 DEF Buf, IsClose, accept_callback
    <3>. HIDE DEF b
    <3>. QED
      BY <1>1, <3>1, ClosesStill DEF Kept
  <2>2. CASE connect_to(c)
    BY <1>1, <2>2, ClosesStill DEF Kept, connect_to
  <2>. QED
    BY <2>1, <2>2
<1>. QED
  BY <1>1, <1>4, <1>5, <1>6, <1>7, Stays DEF Kept

(* The end of a session. *)
LEMMA Closed ==
  ASSUME Inv, Kept, NEW f \in Fd, Ended(f), sess[f].sid # 0 => Cause(sess[f].sid)
  PROVE  Caused
  BY DEF Caused, Ended

(* A full buffer is for a packet that nobody takes. *)
LEMMA FullFor ==
  ASSUME Inv, Kept, Room \in Nat \ {0}, NEW f \in Fd, sess[f].sid # 0, Len(sess[f].bufr) = sess[f].cap
  PROVE  Cause(sess[f].sid)
<1>. DEFINE c == sess[f].sid
            buf == sess[f].bufr
<1>1. /\ c \in Conn /\ buf \in Seq(Unit) /\ inq[c] \in Seq(Unit)
      /\ Stream(came[c], buf \o inq[c]) /\ Buffered(buf, sess[f].cap) /\ sess[f].cap \in Nat
  BY DEF Inv, Types, OwnDescriptor, Kept, Typed, Reads
<1>. HIDE DEF buf, c
<1>2. Len(buf) >= Room /\ Len(buf) \in Nat /\ buf[1].size >= MaxPacket
  BY <1>1 DEF Buffered, buf
<1>3. 1 \in 1..Len(buf)
  BY <1>2
<1>4. PICK t \in Seq(Unit) : t = buf \o inq[c]
  BY <1>1, CatAt
<1>5. 1 \in DOMAIN t /\ t[1] = buf[1]
  <2>1. DOMAIN t = 1..(Len(buf) + Len(inq[c])) /\ Len(inq[c]) \in Nat /\ t[1] = buf[1]
    BY <1>1, <1>3, <1>4, CatAt
  <2>. QED
    BY <1>2, <1>3, <2>1
<1>6. t[1].of \in DOMAIN came[c] /\ t[1].size = came[c][t[1].of]
  BY <1>1, <1>4, <1>5 DEF Stream
<1>. QED
  BY <1>2, <1>5, <1>6 DEF Cause, c

LEMMA KeepFail ==
  ASSUME NEW f \in Fd, 0 \notin Conn, Room \in Nat \ {0}, Inv, Kept, ReadFails(f) \/ WriteFails(f)
  PROVE  Kept' /\ Caused
<1>1. PICK s : s.sid = sess[f].sid /\ close_session(f, s)
  <2>1. CASE ReadFails(f)
    BY <2>1 DEF ReadFails
  <2>2. CASE WriteFails(f)
    <3>1. [sess[f] EXCEPT !.evw = FALSE].sid = sess[f].sid
      BY DEF Inv, Types, Fields
    <3>. QED
      BY <2>2, <3>1 DEF WriteFails
  <2>. QED
    BY <2>1, <2>2
<1>2. SameLists /\ fdOf' = fdOf /\ asked' = asked /\ UNCHANGED <<came, inq>>
  BY DEF ReadFails, WriteFails, SameLists, ghost
<1>3. NoRead /\ Ended(f)
  BY <1>1, <1>2, Ends, ClosedNoRead
<1>4. Closes'
  BY <1>2, ClosesStill DEF Kept, SameLists
<1>5. Kept'
  BY <1>2, <1>3, <1>4, NoReadKeeps, SameNone
<1>6. ASSUME sess[f].sid # 0 PROVE Cause(sess[f].sid)
  <2>1. CASE sess[f].sid \in gone
    BY <2>1 DEF Cause
  <2>2. CASE Len(sess[f].bufr) = sess[f].cap
    BY <1>6, <2>2, FullFor
  <2>. QED
    BY <2>1, <2>2 DEF ReadFails, WriteFails
<1>. QED
  BY <1>3, <1>5, <1>6, Closed

LEMMA EmptyStream ==
  ASSUME NEW sizes, NEW q \in Seq(Unit), Stream(sizes, q), Room \in Nat \ {0}
  PROVE  << >> \in Seq(Unit) /\ Stream(sizes, << >> \o q) /\ Buffered(<< >>, Room)
<1>1. << >> \o q = q /\ << >> \in Seq(Unit) /\ Len(<< >>) = 0 /\ DOMAIN << >> = {}
  OBVIOUS
<1>. QED
  BY <1>1 DEF Buffered

(* A new session takes over the stream of the connection that waited. *)
LEMMA KeepIncome ==
  ASSUME Inv, Kept, 0 \notin Conn, Room \in Nat \ {0}, Shorter, NoneNew, Closes', UNCHANGED <<came, inq>>,
         Income(Head(todo)), AddIncome(Head(todo))
  PROVE  Kept' /\ Caused
<1>. DEFINE b == Head(todo)
            c == b.arg
            new == [Free EXCEPT !.sid = b.arg, !.state = IF b.seed THEN "seed" ELSE "ok", !.evw = b.seed]
<1>1. Waiting(c) /\ c \in held /\ c \in Conn /\ \A f \in Fd : sess[f].sid # c
  BY ShorterOnce DEF Inv, Types, Waits, Waiting
<1>2. fdOf[c] \in Fd /\ sess[fdOf[c]].sid = 0
  BY <1>1 DEF Inv, Types, Open, OwnDescriptor
<1>3. sess' = [sess EXCEPT ![fdOf[c]] = new] /\ fdOf' = fdOf
  BY DEF AddIncome, Shorter
<1>4. new.sid = c /\ new.bufr = << >> /\ new.cap = Room
  BY DEF Free
<1>. HIDE DEF new, c, b
<1>5. /\ sess'[fdOf[c]] = new /\ \A f \in Fd \ {fdOf[c]} : sess'[f] = sess[f]
      /\ came' = came /\ inq' = inq
  BY <1>2, <1>3 DEF Inv, Types
<1>6. inq[c] \in Seq(Unit) /\ Stream(came[c], inq[c])
  BY <1>1 DEF Kept, Typed, Unread
<1>7. << >> \in Seq(Unit) /\ Stream(came[c], << >> \o inq[c]) /\ Buffered(<< >>, Room)
  BY <1>6, EmptyStream
<1>8. Typed'
  <2>1. ASSUME NEW f \in Fd PROVE sess'[f].bufr \in Seq(Unit) /\ sess'[f].cap \in Nat
    BY <1>4, <1>5, <1>7 DEF Kept, Typed
  <2>. QED
    BY <1>5, <2>1 DEF Kept, Typed
<1>9. Unread'
  BY <1>3, <1>5 DEF Kept, Unread, NoneNew, Waiting
<1>10. ASSUME NEW f \in Fd, sess'[f].sid # 0 PROVE Reads(f)'
  <2>1. CASE f = fdOf[c]
    BY <1>4, <1>5, <1>7, <2>1 DEF Reads
  <2>2. CASE f # fdOf[c]
    BY <1>5, <1>10, <2>2 DEF Kept, Reads
  <2>. QED
    BY <2>1, <2>2
<1>11. Caused
  BY <1>2, <1>5 DEF Caused
<1>. QED
  BY <1>8, <1>9, <1>10, <1>11 DEF Kept

LEMMA KeepHandle == 0 \notin Conn /\ Room \in Nat \ {0} /\ Inv /\ Kept /\ HandleBuf => Kept' /\ Caused
<1> SUFFICES ASSUME 0 \notin Conn, Room \in Nat \ {0}, Inv, Kept, HandleBuf PROVE Kept' /\ Caused
  OBVIOUS
<1>. DEFINE b == Head(todo)
<1>1. Shorter /\ asked' = asked /\ UNCHANGED <<came, inq>>
  BY DEF HandleBuf, Shorter, Inv, Types, ghost
<1>2. NoneNew /\ b \in Buf
  BY <1>1, ShorterOnce DEF NoneNew
<1>3. Closes'
  BY <1>1, ClosesStill DEF Kept, Shorter
<1>4. CASE b.sid # 0 /\ Session(b.sid)
           /\ sess' = [sess EXCEPT ![fdOf[b.sid]].evw = @ \/ Arm(sess[fdOf[b.sid]]),
                                   ![fdOf[b.sid]].bufwq = Append(@, b.arg)]
           /\ UNCHANGED <<held, gRcvBufqTmp>>
  <2>1. NoRead /\ \A f \in Fd : sess'[f].sid = sess[f].sid
    BY <1>4 DEF NoRead, Inv, Types, Fields
  <2>. QED
    BY <1>1, <1>2, <1>3, <2>1, NoReadKeeps, Stays DEF Shorter
<1>5. CASE b.sid = 0 /\ b.cmd = "income" /\ AddIncome(b)
  BY <1>1, <1>2, <1>3, <1>5, KeepIncome DEF Income
<1>6. CASE b.sid = 0 /\ b.cmd = "close" /\ Session(b.arg) /\ close_session(fdOf[b.arg], sess[fdOf[b.arg]])
  <2>1. b.arg \in Conn
    BY <1>2, <1>6 DEF Buf
  <2>2. fdOf[b.arg] \in Fd /\ sess[fdOf[b.arg]].sid = b.arg
    BY <1>6, <2>1 DEF Session, Inv, Types
  <2>3. Ended(fdOf[b.arg]) /\ NoRead
    BY <1>1, <1>6, <2>2, Ends, ClosedNoRead DEF Shorter
  <2>4. b.arg \in asked
    <3>1. 1 \in DOMAIN todo /\ b = todo[1]
      BY <1>1, TailAt DEF Shorter, Inv, Types
    <3>. QED
      BY <1>6, <3>1 DEF Kept, Closes, IsClose
  <2>. QED
    BY <1>1, <1>2, <1>3, <2>2, <2>3, <2>4, NoReadKeeps, Closed DEF Cause, Shorter
<1>7. CASE UNCHANGED <<sess, held, gRcvBufqTmp>>
  <2>1. NoRead /\ \A f \in Fd : sess'[f].sid = sess[f].sid
    BY <1>7 DEF NoRead
  <2>. QED
    BY <1>1, <1>2, <1>3, <2>1, NoReadKeeps, Stays DEF Shorter
<1>. QED
  BY <1>4, <1>5, <1>6, <1>7 DEF HandleBuf

(* A peer sends: the stream of its connection grows at the far end. *)
LEMMA KeepPeer ==
  ASSUME NEW c \in Conn, NEW size \in Size, Size \subseteq Nat, Inv, Kept, PeerSends(c, size)
  PROVE  Kept' /\ Caused
<1>1. /\ SameLists /\ fdOf' = fdOf /\ asked' = asked /\ sess' = sess
      /\ came' = [came EXCEPT ![c] = Append(@, size)]
      /\ inq' = [inq EXCEPT ![c] = @ \o Units(Len(came'[c]), size)]
  BY DEF PeerSends, SameLists, net
<1>2. came[c] \in Seq(Nat) /\ inq[c] \in Seq(Unit) /\ size \in Nat
  BY DEF Kept, Typed
<1>3. came'[c] = Append(came[c], size) /\ Len(came'[c]) = Len(came[c]) + 1 /\ Append(came[c], size) \in Seq(Nat)
  <2>1. came'[c] = Append(came[c], size)
    BY <1>1 DEF Kept, Typed
  <2>. QED
    BY <1>2, <2>1
<1>4. PICK u \in Seq(Unit) : u = Units(Len(came[c]) + 1, size)
  <2>1. Len(came[c]) + 1 \in Nat
    BY <1>2
  <2>. QED
    BY <1>2, <2>1, UnitsAt
<1>5. inq'[c] = inq[c] \o u
  BY <1>1, <1>3, <1>4 DEF Kept, Typed
<1>6. \A d \in Conn \ {c} : came'[d] = came[d] /\ inq'[d] = inq[d]
  BY <1>1 DEF Kept, Typed
<1>7. Typed'
  <2>1. inq[c] \o u \in Seq(Unit)
    BY <1>2, CatAt
  <2>2. came' \in [Conn -> Seq(Nat)] /\ inq' \in [Conn -> Seq(Unit)]
    BY <1>1, <1>2, <1>3, <1>4, <2>1 DEF Kept, Typed
  <2>. QED
    BY <1>1, <2>2 DEF Kept, Typed
<1>8. \A q \in Seq(Unit) : Stream(came[c], q) => Stream(came'[c], q \o u)
  BY <1>2, <1>3, <1>4, StreamGrows
<1>9. Unread'
  <2> SUFFICES ASSUME NEW d \in Conn, fdOf'[d] = 0 \/ Waiting(d)' PROVE Stream(came'[d], inq'[d])
    BY DEF Unread
  <2>1. Stream(came[d], inq[d])
    BY <1>1, SameNone DEF Kept, Unread, Waiting, NoneNew
  <2>. QED
    BY <1>2, <1>5, <1>6, <1>8, <2>1
<1>10. ASSUME NEW f \in Fd, sess'[f].sid # 0 PROVE Reads(f)'
  <2>1. Reads(f) /\ sess'[f] = sess[f] /\ sess[f].sid \in Conn /\ sess[f].bufr \in Seq(Unit)
    BY <1>1, <1>10 DEF Kept, Typed, Inv, OwnDescriptor, Types
  <2>2. CASE sess[f].sid = c
    <3>1. PICK q \in Seq(Unit) : q = sess[f].bufr \o inq[c]
      BY <1>2, <2>1, CatAt
    <3>2. Stream(came'[c], q \o u)
      BY <1>8, <2>1, <2>2, <3>1 DEF Reads
    <3>3. q \o u = sess[f].bufr \o inq'[c]
      <4>1. PICK a \in Seq(Unit), b \in Seq(Unit) : a = sess[f].bufr /\ b = inq[c]
        BY <1>2, <2>1
      <4>2. (a \o b) \o u = a \o (b \o u)
        BY ConcatAssociative
      <4>. QED
        BY <1>5, <3>1, <4>1, <4>2
    <3>. QED
      BY <2>1, <2>2, <3>2, <3>3 DEF Reads
  <2>3. CASE sess[f].sid # c
    BY <1>6, <2>1, <2>3 DEF Reads
  <2>. QED
    BY <2>2, <2>3
<1>11. Closes'
  BY <1>1, ClosesStill DEF Kept, SameLists
<1>. QED
  BY <1>1, <1>7, <1>9, <1>10, <1>11, Stays DEF Kept

(* A read moves units from the connection to the buffer, hands over the    *)
(* whole packets, or meets a malformed one.                                *)
LEMMA KeepRead ==
  ASSUME NEW f \in Fd, NEW n, 0 \notin Fd, 0 \notin Conn, Room \in Nat \ {0}, MaxPacket \in Nat,
         Inv, Kept, common_read(f, n)
  PROVE  Kept' /\ Caused
<1>. DEFINE s == sess[f]
            c == s.sid
            buf == s.bufr \o SubSeq(inq[c], 1, n)
            done == Whole(buf)
            rest == SubSeq(inq[c], n + 1, Len(inq[c]))
<1>1. /\ c # 0 /\ c \in Conn /\ s.bufr \in Seq(Unit) /\ inq[c] \in Seq(Unit) /\ s.cap \in Nat
      /\ Stream(came[c], s.bufr \o inq[c]) /\ Buffered(s.bufr, s.cap) /\ fdOf[c] = f
  BY DEF common_read, Inv, Types, OwnDescriptor, Kept, Typed, Reads
<1>2. n \in 1..Len(inq[c]) /\ Len(s.bufr) + n <= s.cap
  <2>1. Len(s.bufr) \in Nat /\ Len(inq[c]) \in Nat /\ s.cap - Len(s.bufr) \in Nat
    BY <1>1 DEF Buffered
  <2>2. n \in 1..Fits(s) /\ Fits(s) = Min({Len(inq[c]), s.cap - Len(s.bufr)})
    BY DEF common_read, Fits
  <2>3. PICK a \in Nat, b \in Nat : a = Len(inq[c]) /\ b = s.cap - Len(s.bufr)
    BY <2>1
  <2>4. n \in 1..Min({a, b})
    BY <2>2, <2>3
  <2>5. n \in 1..a /\ n <= b
    BY <2>4, MinOfTwo
  <2>. QED
    BY <1>1, <2>1, <2>3, <2>5
<1>3. /\ SameLists /\ fdOf' = fdOf /\ asked' = asked /\ came' = came /\ gone' = gone
      /\ inq' = [inq EXCEPT ![c] = rest]
  BY DEF common_read, SameLists, ghost
<1>4. n \in 0..Len(inq[c]) /\ Len(SubSeq(inq[c], 1, n)) = n /\ SubSeq(inq[c], 1, n) \in Seq(Unit) /\ rest \in Seq(Unit)
  <2>1. n \in 0..Len(inq[c])
    BY <1>1, <1>2
  <2>. QED
    BY <1>1, <2>1, FirstOf, RestOf
<1>5. /\ buf \in Seq(Unit) /\ Len(buf) = Len(s.bufr) + n /\ \A i \in 1..Len(s.bufr) : buf[i] = s.bufr[i]
      /\ Len(s.bufr) \in Nat /\ Len(buf) \in Nat
  <2>1. PICK p \in Seq(Unit), x \in Seq(Unit) : p = s.bufr /\ x = SubSeq(inq[c], 1, n)
    BY <1>1, <1>4
  <2>2. p \o x \in Seq(Unit) /\ Len(p \o x) = Len(p) + Len(x) /\ \A i \in 1..Len(p) : (p \o x)[i] = p[i]
    BY CatAt
  <2>3. buf = p \o x /\ Len(x) = n
    BY <1>4, <2>1
  <2>4. Len(p) \in Nat /\ Len(p \o x) \in Nat
    BY <2>2
  <2>. HIDE DEF buf
  <2>. QED
    BY <2>1, <2>2, <2>3, <2>4
<1>6. buf \o rest = s.bufr \o inq[c]
  BY <1>1, <1>4, Reread
<1>7. Stream(came[c], buf \o rest) /\ buf # << >> /\ Len(buf) <= s.cap
  <2>1. Stream(came[c], buf \o rest)
    BY <1>1, <1>6
  <2>. HIDE DEF buf
  <2>2. Len(buf) # 0 /\ Len(buf) <= s.cap
    BY <1>1, <1>2, <1>5
  <2>. QED
    BY <2>1, <2>2
<1>8. inq' \in [Conn -> Seq(Unit)] /\ inq'[c] = rest /\ \A d \in Conn \ {c} : inq'[d] = inq[d]
  BY <1>1, <1>3, <1>4 DEF Kept, Typed
<1>9. Closes'
  BY <1>3, ClosesStill DEF Kept, SameLists
<1>10. Unread'
  <2> SUFFICES ASSUME NEW d \in Conn, fdOf'[d] = 0 \/ Waiting(d)' PROVE Stream(came'[d], inq'[d])
    BY DEF Unread
  <2>1. fdOf[d] = 0 \/ Waiting(d)
    BY <1>3, SameNone DEF Waiting, NoneNew
  <2>2. d # c
    BY <1>1, <2>1 DEF Waiting, Inv, Waits
  <2>. QED
    BY <1>3, <1>8, <2>1, <2>2 DEF Kept, Unread
<1>11. \A g \in Fd \ {f} : sess[g].sid # 0 => sess[g].sid # c /\ sess[g].sid \in Conn
  BY <1>1 DEF Inv, Types, OwnDescriptor
<1>12. DOMAIN s = Fields /\ DOMAIN sess = Fd
  BY DEF Inv, Types
<1>13. CASE Malformed(buf)
  <2>1. close_session(f, s)
    BY <1>13 DEF common_read
  <2>2. Ended(f) /\ NoRead
    BY <1>3, <2>1, Ends, ClosedNoRead
  <2>3. Typed'
    <3>1. << >> \in Seq(Unit)
      OBVIOUS
    <3>2. \A g \in Fd : sess'[g].bufr \in Seq(Unit) /\ sess'[g].cap \in Nat
      BY <2>2, <3>1 DEF NoRead, Kept, Typed
    <3>. QED
      BY <1>3, <1>8, <3>2 DEF Kept, Typed
  <2>4. ASSUME NEW g \in Fd, sess'[g].sid # 0 PROVE Reads(g)'
    <3>1. g # f /\ sess'[g].sid = sess[g].sid /\ sess'[g].bufr = sess[g].bufr /\ sess'[g].cap = sess[g].cap
      BY <2>2, <2>4 DEF Ended, NoRead
    <3>. QED
      BY <1>3, <1>8, <1>11, <2>4, <3>1 DEF Kept, Reads
  <2>5. Cause(c)
    <3>. HIDE DEF buf, rest
    <3>1. PICK t \in Seq(Unit) : t = buf \o rest
      BY <1>4, <1>5, CatAt
    <3>2. /\ t # << >> /\ \A i \in 1..Len(buf) : i \in DOMAIN t /\ t[i] = buf[i]
          /\ DOMAIN buf = 1..Len(buf) /\ 1 \in 1..Len(buf)
      <4>1. Len(buf) \in Nat \ {0} /\ Len(rest) \in Nat /\ DOMAIN buf = 1..Len(buf)
        BY <1>4, <1>5, <1>7
      <4>2. Len(t) = Len(buf) + Len(rest) /\ DOMAIN t = 1..(Len(buf) + Len(rest)) /\ \A i \in 1..Len(buf) : t[i] = buf[i]
        <5>1. PICK a \in Seq(Unit), b \in Seq(Unit) : a = buf /\ b = rest
          BY <1>4, <1>5
        <5>2. t = a \o b
          BY <3>1, <5>1
        <5>3. /\ Len(a \o b) = Len(a) + Len(b) /\ DOMAIN (a \o b) = 1..(Len(a) + Len(b))
              /\ \A i \in 1..Len(a) : (a \o b)[i] = a[i]
          BY CatAt
        <5>. QED
          BY <5>1, <5>2, <5>3
      <4>3. Len(t) # 0
        BY <4>1, <4>2
      <4>4. t # << >>
        BY <4>3
      <4>. QED
        BY <4>1, <4>2, <4>4
    <3>3. buf[1].i = 1
      BY <1>7, <3>1, <3>2, StreamFirst
    <3>4. PICK j \in 1..Len(buf) : buf[j].size = 0
      BY <1>13, <3>2, <3>3 DEF Malformed
    <3>5. t[j].of \in DOMAIN came[c] /\ t[j].size = came[c][t[j].of]
      BY <1>7, <3>1, <3>2 DEF Stream
    <3>. QED
      BY <3>2, <3>4, <3>5 DEF Cause
  <2>. QED
    BY <1>9, <1>10, <2>2, <2>3, <2>4, <2>5, Closed DEF Kept
<1>14. CASE ~Malformed(buf)
  <2>. DEFINE left == IF done > 0 THEN Rest(buf, done) ELSE buf
              room == IF done > 0 THEN Max({Room, Len(buf) - done}) ELSE Grown(buf, s.cap)
  <2>1. s.cap > Room => buf[1].size = s.cap
    <3>1. ASSUME s.bufr # << >> PROVE buf[1] = s.bufr[1]
      <4>1. 1 \in 1..Len(s.bufr)
        BY <1>1, <3>1
      <4>. QED
        BY <1>5, <4>1
    <3>. QED
      BY <1>1, <3>1 DEF Buffered
  <2>2. Room <= s.cap
    BY <1>1 DEF Buffered
  <2>3. left \in Seq(Unit) /\ room \in Nat /\ Stream(came[c], left \o rest) /\ Buffered(left, room)
    BY <1>1, <1>4, <1>5, <1>7, <1>14, <2>1, <2>2, ReadKeeps
  <2>4. sess' = [sess EXCEPT ![f].bufr = left, ![f].cap = room]
    BY <1>14 DEF common_read
  <2>. HIDE DEF left, room, buf, rest
  <2>5. /\ sess'[f].sid = c /\ sess'[f].bufr = left /\ sess'[f].cap = room
        /\ \A g \in Fd \ {f} : sess'[g] = sess[g]
    BY <1>12, <2>4 DEF Fields
  <2>6. Typed'
    <3>1. \A g \in Fd : sess'[g].bufr \in Seq(Unit) /\ sess'[g].cap \in Nat
      BY <2>3, <2>5 DEF Kept, Typed
    <3>. QED
      BY <1>3, <1>8, <3>1 DEF Kept, Typed
  <2>7. ASSUME NEW g \in Fd, sess'[g].sid # 0 PROVE Reads(g)'
    <3>1. CASE g = f
      BY <1>3, <1>8, <2>3, <2>5, <3>1 DEF Reads
    <3>2. CASE g # f
      BY <1>3, <1>8, <1>11, <2>5, <2>7, <3>2 DEF Kept, Reads
    <3>. QED
      BY <3>1, <3>2
  <2>. QED
    BY <1>9, <1>10, <2>5, <2>6, <2>7, Stays DEF Kept
<1>. QED
  BY <1>13, <1>14

LEMMA NextKept ==
  ASSUME 0 \notin Fd, 0 \notin Conn, Room \in Nat \ {0}, MaxPacket \in Nat, Size \subseteq Nat,
         Inv, Kept, [Next]_vars
  PROVE  Kept' /\ Caused
<1>1. CASE EventStep
  <2>1. ASSUME NEW f \in Fd, \/ ReadFails(f) \/ WriteFails(f)
                             \/ \E n \in 0..2 : common_write(f, n)
                             \/ \E n \in 1..MaxPacket : common_read(f, n)
        PROVE  Kept' /\ Caused
    BY <2>1, KeepFail, KeepWrite, KeepRead
  <2>. QED
    BY <1>1, <2>1, KeepOnTick, KeepTake, KeepHandle DEF EventStep
<1>2. CASE ConnectDone \/ ConnectFails
  BY <1>2, KeepConnector
<1>3. CASE recv_bufq
  BY <1>3, KeepQuiet
<1>4. ASSUME NEW c \in Conn, accept_callback(c) \/ connect_to(c) \/ send_buf(c) \/ disconnect(c)
      PROVE  Kept' /\ Caused
  BY <1>4, KeepMade, KeepLua
<1>5. ASSUME NEW c \in Conn, PeerCloses(c) \/ \E size \in Size : PeerSends(c, size)
      PROVE  Kept' /\ Caused
  BY <1>5, KeepQuiet, KeepPeer
<1>6. CASE UNCHANGED vars
  BY <1>6, KeepQuiet
<1>. QED
  BY <1>1, <1>2, <1>3, <1>4, <1>5, <1>6 DEF Next

LEMMA InitKept == Room \in Nat /\ Init => Kept
<1> SUFFICES ASSUME Room \in Nat, Init PROVE Kept
  OBVIOUS
<1>1. << >> \in Seq(Unit) /\ << >> \in Seq(Nat)
  OBVIOUS
<1>2. Typed
  <2>1. Free.bufr \in Seq(Unit) /\ Free.cap \in Nat
    BY <1>1 DEF Free
  <2>. QED
    BY <1>1, <2>1 DEF Init, Typed
<1>3. \A c \in Conn : Stream(came[c], inq[c])
  BY DEF Init, Stream
<1>4. \A f \in Fd : sess[f].sid = 0
  BY DEF Init, Free
<1>. QED
  BY <1>2, <1>3, <1>4 DEF Init, Kept, Unread, Closes

(* Whatever the packets, however they are cut on their way and however     *)
(* small the buffer: a session ends only because its peer has gone, Lua    *)
(* has asked for it, or the peer sent a packet that is malformed or does   *)
(* not fit (buf.c and net.c: common_read, common_write, close_session).    *)
THEOREM EndsWithCauseHolds == Spec => EndsWithCause
<1>0. /\ 0 \notin Fd /\ 0 \notin Conn
      /\ Room \in Nat \ {0} /\ MaxPacket \in Nat /\ Size \subseteq Nat
  BY NetAssumption
<1>. DEFINE A == \A f \in Fd : LET c == sess[f].sid IN
                   c # 0 /\ sess'[f].sid # c =>
                     c \in gone \union asked \/ \E i \in DOMAIN came[c] : came[c][i] = 0 \/ came[c][i] >= MaxPacket
<1>1. Init => Inv /\ Kept
  BY <1>0, InitInv, InitKept
<1>2. Inv /\ Kept /\ [Next]_vars => (Inv /\ Kept)' /\ [A]_vars
  <2> SUFFICES ASSUME Inv, Kept, [Next]_vars PROVE (Inv /\ Kept)' /\ A
    OBVIOUS
  <2>1. Caused
    BY <1>0, NextKept
  <2>2. A
    BY <2>1 DEF Caused, Cause
  <2>. QED
    BY <1>0, <2>2, NextInv, NextKept
<1>. QED
  BY <1>1, <1>2, PTL DEF Spec, EndsWithCause

-----------------------------------------------------------------------------
(* Sequences made of pieces, and units one after the other.                *)

(* A set of numbers that is not empty has a least one.                     *)
LEMMA LeastIn ==
  ASSUME NEW Q, IsWellFoundedOn(Q, Nat), \A x, y \in Nat : y < x => <<y, x>> \in Q,
         NEW T, T \subseteq Nat, T # {}
  PROVE  \E x \in T : \A y \in T : x <= y
<1>1. PICK x \in T : \A y \in T : ~ (<<y, x>> \in Q)
  BY WFMin, Zenon
<1>2. \A y \in T : ~(y < x)
  BY <1>1
<1>. QED
  BY <1>2

(* The same, for the order of the naturals.                                *)
LEMMA LeastNat ==
  ASSUME NEW T, T \subseteq Nat, T # {}
  PROVE  \E x \in T : \A y \in T : x <= y
<1>1. \A x, y \in Nat : y < x => <<y, x>> \in OpToRel(<, Nat)
  BY DEF OpToRel
<1>. QED
  BY <1>1, NatLessThanWellFounded, LeastIn, Zenon

(* f has the first j of the sequences of s joined. *)
Joins(f, s, S, j) ==
  /\ f \in [0..j -> Seq(S)] /\ f[0] = << >>
  /\ \A k \in 1..j : f[k] = f[k - 1] \o s[k]

(* There is a function that joins the sequences of s one by one.           *)
LEMMA Joined ==
  ASSUME NEW S, NEW T, T = Seq(S), NEW s \in Seq(T)
  PROVE  \E f : Joins(f, s, S, Len(s))
<1>. DEFINE Good(j) == \E f : Joins(f, s, S, j)
            Bad == {j \in 0..Len(s) : ~Good(j)}
<1>0. Len(s) \in Nat /\ \A k \in 1..Len(s) : s[k] \in Seq(S)
  OBVIOUS
<1>1. Good(0)
  <2>1. << >> \in Seq(S)
    OBVIOUS
  <2>2. [k \in 0..0 |-> << >>] \in [0..0 -> Seq(S)] /\ [k \in 0..0 |-> << >>][0] = << >> /\ 1..0 = {}
    BY <2>1
  <2>3. Joins([k \in 0..0 |-> << >>], s, S, 0)
    BY <2>2 DEF Joins
  <2>. QED
    BY <2>3
<1>2. ASSUME NEW j \in Nat, j + 1 <= Len(s), Good(j)  PROVE Good(j + 1)
  <2>1. PICK f : Joins(f, s, S, j)
    BY <1>2
  <2>. DEFINE v == f[j] \o s[j + 1]
              g == [k \in 0..(j + 1) |-> IF k = j + 1 THEN v ELSE f[k]]
  <2>2. v \in Seq(S)
    <3>1. f[j] \in Seq(S) /\ s[j + 1] \in Seq(S)
      BY <1>0, <1>2, <2>1 DEF Joins
    <3>. QED
      BY <3>1
  <2>3. g \in [0..(j + 1) -> Seq(S)]
    <3>. SUFFICES ASSUME NEW k \in 0..(j + 1)  PROVE (IF k = j + 1 THEN v ELSE f[k]) \in Seq(S)
      BY Zenon
    <3>1. k # j + 1 => k \in 0..j
      OBVIOUS
    <3>. HIDE DEF v
    <3>. QED
      BY <2>1, <2>2, <3>1 DEF Joins
  <2>4. g[0] = << >>
    BY <2>1 DEF Joins
  <2>5. ASSUME NEW k \in 1..(j + 1)  PROVE g[k] = g[k - 1] \o s[k]
    <3>. HIDE DEF v
    <3>1. CASE k = j + 1
      <4>1. g[k] = v /\ g[k - 1] = f[j]
        BY <3>1
      <4>. HIDE DEF g
      <4>. QED
        BY <3>1, <4>1 DEF v
    <3>2. CASE k # j + 1
      <4>1. k \in 1..j /\ k - 1 \in 0..(j + 1) /\ k - 1 # j + 1 /\ k \in 0..(j + 1)
        BY <3>2
      <4>2. g[k] = f[k] /\ g[k - 1] = f[k - 1]
        BY <3>2, <4>1
      <4>. HIDE DEF g
      <4>. QED
        BY <2>1, <4>1, <4>2 DEF Joins
    <3>. QED
      BY <3>1, <3>2
  <2>. HIDE DEF g
  <2>6. Joins(g, s, S, j + 1)
    BY <2>3, <2>4, <2>5 DEF Joins
  <2>. QED
    BY <2>6
<1>. HIDE DEF Good
<1>3. Bad = {}
  <2>. SUFFICES ASSUME Bad # {}  PROVE FALSE
    OBVIOUS
  <2>. HIDE DEF Bad
  <2>0. Bad \subseteq Nat /\ Bad \subseteq 0..Len(s)
    BY <1>0 DEF Bad
  <2>1. PICK x \in Bad : \A y \in Bad : x <= y
    BY <2>0, LeastNat
  <2>2. x \in 0..Len(s) /\ ~Good(x)
    BY DEF Bad
  <2>3. x # 0
    BY <1>1, <2>2
  <2>4. x - 1 \in 0..Len(s) /\ x - 1 \notin Bad
    BY <1>0, <2>0, <2>1, <2>2, <2>3
  <2>5. Good(x - 1)
    BY <2>4 DEF Bad
  <2>. QED
    BY <1>0, <1>2, <2>2, <2>3, <2>4, <2>5
<1>. QED
  BY <1>0, <1>3 DEF Good

(* FlattenSeq joins them all. *)
LEMMA Flattened ==
  ASSUME NEW S, NEW T, T = Seq(S), NEW s \in Seq(T), NEW f, Joins(f, s, S, Len(s))
  PROVE  FlattenSeq(s) = f[Len(s)]
<1>. DEFINE m == Len(s)
<1>0. m \in Nat /\ \A k \in 1..m : s[k] \in Seq(S)
  OBVIOUS
<1>1. f \in [0..m -> Seq(S)] /\ f[0] = << >> /\ \A k \in 1..m : f[k] = f[k - 1] \o s[k]
  BY DEF Joins
<1>2. CASE m = 0
  <2>1. s = << >>
    BY <1>2
  <2>. QED
    BY <1>1, <1>2, <2>1 DEF FlattenSeq
<1>3. CASE m # 0
  <2>1. 1 \in 1..m
    BY <1>0, <1>3
  <2>. HIDE DEF m
  <2>2. f[1] = s[1]
    <3>1. f[1] = << >> \o s[1] /\ s[1] \in Seq(S)
      BY <1>0, <1>1, <2>1, 1 - 1 = 0
    <3>2. << >> \o s[1] = s[1]
      BY <3>1
    <3>. QED
      BY <3>1, <3>2
  <2>. DEFINE g == [k \in 1..m |-> f[k]]
              h == [k \in 1..m |-> IF k = 1 THEN s[k] ELSE g[k - 1] \o s[k]]
  <2>3. ASSUME NEW k \in 1..m PROVE g[k] = h[k]
    <3>1. CASE k = 1
      BY <2>2, <3>1
    <3>2. CASE k # 1
      <4>1. k - 1 \in 1..m
        BY <1>0, <3>2
      <4>2. g[k - 1] = f[k - 1]
        BY <4>1
      <4>. QED
        BY <1>1, <3>2, <4>2
    <3>. QED
      BY <3>1, <3>2
  <2>4. g = h
    BY <2>3
  <2>5. \E x : x = [k \in 1..m |-> IF k = 1 THEN s[k] ELSE x[k - 1] \o s[k]]
    BY <2>4
  <2>. DEFINE flat == CHOOSE x : x = [k \in 1..m |-> IF k = 1 THEN s[k] ELSE x[k - 1] \o s[k]]
  <2>6. flat = [k \in 1..m |-> IF k = 1 THEN s[k] ELSE flat[k - 1] \o s[k]]
    BY <2>5
  <2>7. FlattenSeq(s) = flat[m]
    BY <1>3 DEF FlattenSeq, m
  <2>. HIDE DEF flat
  <2>8. \A k \in 1..m : flat[k] = f[k]
    <3>. DEFINE Bad == {k \in 1..m : flat[k] # f[k]}
    <3>. SUFFICES ASSUME Bad # {}  PROVE FALSE
      OBVIOUS
    <3>1. Bad \subseteq Nat
      BY <1>0
    <3>2. PICK x \in Bad : \A y \in Bad : x <= y
      <4>. HIDE DEF Bad
      <4>. QED
        BY <3>1, LeastNat
    <3>3. flat[1] = s[1]
      BY <2>1, <2>6
    <3>4. x # 1 /\ x \in 1..m
      BY <2>2, <3>3
    <3>5. x - 1 \in 1..m /\ ~(x <= x - 1)
      BY <1>0, <3>4
    <3>6. flat[x - 1] = f[x - 1]
      BY <3>2, <3>5
    <3>7. flat[x] = flat[x - 1] \o s[x]
      BY <2>6, <3>4
    <3>. QED
      BY <1>1, <3>4, <3>6, <3>7
  <2>9. m \in 1..m
    BY <1>0, <1>3
  <2>. QED
    BY <2>7, <2>8, <2>9 DEF m
<1>. QED
  BY <1>2, <1>3 DEF m

(* FlattenSeq of nothing, of one sequence more, of two lists, of one       *)
(* sequence, and from the front.                                           *)
LEMMA FlatEmpty == FlattenSeq(<< >>) = << >>
  BY DEF FlattenSeq

LEMMA FlatAppend ==
  ASSUME NEW S, NEW T, T = Seq(S), NEW s \in Seq(T), NEW x \in Seq(S)
  PROVE  FlattenSeq(Append(s, x)) = FlattenSeq(s) \o x /\ FlattenSeq(s) \in Seq(S)
<1>. DEFINE m == Len(s)
<1>a. x \in T
  OBVIOUS
<1>b. /\ Append(s, x) \in Seq(T) /\ m \in Nat /\ Len(Append(s, x)) = m + 1
      /\ Append(s, x)[m + 1] = x /\ \A k \in 1..m : Append(s, x)[k] = s[k]
  BY <1>a
<1>1. PICK t \in Seq(T) : t = Append(s, x)
  BY <1>b
<1>2. m \in Nat /\ Len(t) = m + 1 /\ t[m + 1] = x /\ \A k \in 1..m : t[k] = s[k]
  BY <1>1, <1>b
<1>3. PICK g : Joins(g, t, S, m + 1)
  BY <1>2, Joined
<1>4. g \in [0..(m + 1) -> Seq(S)] /\ g[0] = << >> /\ \A k \in 1..(m + 1) : g[k] = g[k - 1] \o t[k]
  BY <1>3 DEF Joins
<1>. DEFINE f == [k \in 0..m |-> g[k]]
<1>. HIDE DEF m
<1>5. Joins(f, s, S, m)
  <2>1. f \in [0..m -> Seq(S)] /\ f[0] = << >>
    BY <1>2, <1>4
  <2>2. ASSUME NEW k \in 1..m PROVE f[k] = f[k - 1] \o s[k]
    <3>1. k - 1 \in 0..m /\ k \in 0..m /\ k \in 1..(m + 1)
      BY <1>2
    <3>2. f[k] = g[k] /\ f[k - 1] = g[k - 1] /\ t[k] = s[k]
      BY <1>2, <3>1
    <3>. QED
      BY <1>4, <3>1, <3>2
  <2>. QED
    BY <2>1, <2>2 DEF Joins
<1>c. FlattenSeq(s) = f[Len(s)]
  <2>. HIDE DEF f
  <2>. QED
    BY <1>5, Flattened DEF m
<1>6. FlattenSeq(s) = f[m] /\ f[m] = g[m] /\ g[m] \in Seq(S)
  <2>1. m \in 0..m /\ m \in 0..(m + 1)
    BY <1>2
  <2>2. f[m] = g[m] /\ g[m] \in Seq(S)
    BY <1>4, <2>1
  <2>. QED
    BY <1>c, <2>2 DEF m
<1>7. FlattenSeq(t) = g[m + 1]
  BY <1>2, <1>3, Flattened
<1>8. m + 1 \in 1..(m + 1) /\ (m + 1) - 1 = m
  BY <1>2
<1>9. g[m + 1] = g[m] \o x
  BY <1>2, <1>4, <1>8
<1>. QED
  BY <1>1, <1>6, <1>7, <1>9

LEMMA FlatCat ==
  ASSUME NEW S, NEW T, T = Seq(S), NEW s \in Seq(T), NEW r \in Seq(T)
  PROVE  FlattenSeq(s \o r) = FlattenSeq(s) \o FlattenSeq(r)
<1>. DEFINE m == Len(s)
            n == Len(r)
<1>c. /\ s \o r \in Seq(T) /\ m \in Nat /\ n \in Nat /\ Len(s \o r) = m + n
      /\ (\A k \in 1..n : (s \o r)[m + k] = r[k]) /\ \A k \in 1..m : (s \o r)[k] = s[k]
  BY CatAt
<1>1. PICK t \in Seq(T) : t = s \o r
  BY <1>c
<1>2. m \in Nat /\ n \in Nat /\ Len(t) = m + n /\ (\A k \in 1..n : t[m + k] = r[k]) /\ \A k \in 1..m : t[k] = s[k]
  BY <1>1, <1>c
<1>3. PICK g : Joins(g, t, S, m + n)
  BY <1>2, Joined
<1>4. g \in [0..(m + n) -> Seq(S)] /\ g[0] = << >> /\ \A k \in 1..(m + n) : g[k] = g[k - 1] \o t[k]
  BY <1>3 DEF Joins
<1>5. PICK h : Joins(h, r, S, n)
  BY Joined
<1>6. h \in [0..n -> Seq(S)] /\ h[0] = << >> /\ \A k \in 1..n : h[k] = h[k - 1] \o r[k]
  BY <1>5 DEF Joins
<1>7. FlattenSeq(r) = h[n]
  BY <1>5, Flattened
<1>0. \A k \in 1..n : r[k] \in Seq(S)
  OBVIOUS
<1>. DEFINE f == [k \in 0..m |-> g[k]]
<1>. HIDE DEF m, n
<1>8. Joins(f, s, S, m)
  <2>1. f \in [0..m -> Seq(S)] /\ f[0] = << >>
    BY <1>2, <1>4
  <2>2. ASSUME NEW k \in 1..m PROVE f[k] = f[k - 1] \o s[k]
    <3>1. k - 1 \in 0..m /\ k \in 0..m /\ k \in 1..(m + n)
      BY <1>2
    <3>2. f[k] = g[k] /\ f[k - 1] = g[k - 1] /\ t[k] = s[k]
      BY <1>2, <3>1
    <3>. QED
      BY <1>4, <3>1, <3>2
  <2>. QED
    BY <2>1, <2>2 DEF Joins
<1>d. FlattenSeq(s) = f[Len(s)]
  <2>. HIDE DEF f
  <2>. QED
    BY <1>8, Flattened DEF m
<1>9. FlattenSeq(s) = f[m] /\ f[m] = g[m] /\ g[m] \in Seq(S)
  <2>1. m \in 0..m /\ m \in 0..(m + n)
    BY <1>2
  <2>2. f[m] = g[m] /\ g[m] \in Seq(S)
    BY <1>4, <2>1
  <2>. QED
    BY <1>d, <2>2 DEF m
<1>10. FlattenSeq(t) = g[m + n]
  BY <1>2, <1>3, Flattened
<1>p. PICK w \in Seq(S) : w = g[m]
  BY <1>9
<1>. DEFINE Bad == {k \in 0..n : g[m + k] # w \o h[k]}
<1>11. Bad = {}
  <2>. SUFFICES ASSUME Bad # {}  PROVE FALSE
    OBVIOUS
  <2>0. n \in Nat /\ m \in Nat
    BY <1>2
  <2>1. Bad \subseteq 0..n
    OBVIOUS
  <2>2. PICK x \in Bad : \A y \in Bad : x <= y
    <3>. HIDE DEF Bad
    <3>1. 0..n \subseteq Nat
      BY <2>0
    <3>. QED
      BY <2>1, <3>1, LeastNat
  <2>3. x \in 0..n /\ g[m + x] # w \o h[x]
    OBVIOUS
  <2>4. x # 0
    <3>1. w \o << >> = w
      OBVIOUS
    <3>2. m + 0 = m
      BY <2>0
    <3>. QED
      BY <1>6, <1>p, <2>3, <3>1, <3>2
  <2>5. x - 1 \in 0..n /\ ~(x <= x - 1) /\ x \in 1..n
    BY <2>0, <2>3, <2>4
  <2>6. g[m + (x - 1)] = w \o h[x - 1]
    BY <2>2, <2>5
  <2>. HIDE DEF Bad
  <2>7. m + x \in 1..(m + n) /\ (m + x) - 1 = m + (x - 1) /\ t[m + x] = r[x]
    BY <1>2, <2>5
  <2>8. g[m + x] = g[m + (x - 1)] \o r[x]
    BY <1>4, <2>7
  <2>9. h[x] = h[x - 1] \o r[x]
    BY <1>6, <2>5
  <2>10. h[x - 1] \in Seq(S) /\ r[x] \in Seq(S)
    BY <1>0, <1>6, <2>5
  <2>11. (w \o h[x - 1]) \o r[x] = w \o (h[x - 1] \o r[x])
    <3>1. PICK a \in Seq(S), b \in Seq(S) : a = h[x - 1] /\ b = r[x]
      BY <2>10
    <3>2. (w \o a) \o b = w \o (a \o b)
      BY ConcatAssociative
    <3>. QED
      BY <3>1, <3>2
  <2>. QED
    BY <2>3, <2>6, <2>8, <2>9, <2>11
<1>12. g[m + n] = g[m] \o h[n]
  <2>1. n \in 0..n
    BY <1>2
  <2>. QED
    BY <1>11, <1>p, <2>1
<1>. QED
  BY <1>1, <1>7, <1>9, <1>10, <1>12, <1>p

LEMMA FlatOne ==
  ASSUME NEW S, NEW x \in Seq(S)
  PROVE  FlattenSeq(<<x>>) = x
<1>1. PICK T : T = Seq(S)
  OBVIOUS
<1>2. << >> \in Seq(T) /\ x \in T /\ Append(<< >>, x) = <<x>>
  BY <1>1
<1>3. FlattenSeq(Append(<< >>, x)) = FlattenSeq(<< >>) \o x
  BY <1>1, <1>2, FlatAppend
<1>4. << >> \o x = x
  OBVIOUS
<1>. QED
  BY <1>2, <1>3, <1>4, FlatEmpty

LEMMA FlatHead ==
  ASSUME NEW S, NEW T, T = Seq(S), NEW s \in Seq(T), s # << >>
  PROVE  /\ FlattenSeq(s) = Head(s) \o FlattenSeq(Tail(s))
         /\ Head(s) \in Seq(S) /\ Tail(s) \in Seq(T)
<1>1. Head(s) \in T /\ Tail(s) \in Seq(T) /\ <<Head(s)>> \in Seq(T)
  OBVIOUS
<1>2. s = <<Head(s)>> \o Tail(s)
  OBVIOUS
<1>3. PICK x \in T, r \in Seq(T), h \in Seq(T) : x = Head(s) /\ r = Tail(s) /\ h = <<x>>
  BY <1>1
<1>4. FlattenSeq(h \o r) = FlattenSeq(h) \o FlattenSeq(r)
  BY FlatCat
<1>5. FlattenSeq(h) = x
  BY <1>3, FlatOne
<1>. QED
  BY <1>1, <1>2, <1>3, <1>4, <1>5

(* What is picked from each item of a list. *)
Pieces(q, pick) == [i \in DOMAIN q |-> pick[q[i]]]

(* The pieces of a list, which FlattenSeq puts together.                   *)
LEMMA PiecesType ==
  ASSUME NEW B, NEW T, NEW pick \in [B -> T], NEW q \in Seq(B)
  PROVE  Pieces(q, pick) \in Seq(T)
<1>1. Pieces(q, pick) = [i \in 1..Len(q) |-> pick[q[i]]]
  BY DEF Pieces
<1>2. Len(q) \in Nat /\ \A i \in 1..Len(q) : pick[q[i]] \in T
  OBVIOUS
<1>. QED
  BY <1>1, <1>2

(* One element more adds its piece.                                        *)
LEMMA PiecesAppend ==
  ASSUME NEW B, NEW S, NEW T, T = Seq(S), NEW pick \in [B -> T], NEW q \in Seq(B), NEW b \in B
  PROVE  /\ FlattenSeq(Pieces(Append(q, b), pick)) = FlattenSeq(Pieces(q, pick)) \o pick[b]
         /\ FlattenSeq(Pieces(q, pick)) \in Seq(S)
<1>. DEFINE p == Pieces(q, pick)
<1>1. p \in Seq(T) /\ pick[b] \in T
  BY PiecesType
<1>2. Pieces(Append(q, b), pick) = Append(p, pick[b])
  <2>1. PICK m \in Nat : m = Len(q)
    OBVIOUS
  <2>2. DOMAIN Append(q, b) = 1..(m + 1) /\ \A i \in 1..(m + 1) : Append(q, b)[i] = IF i = m + 1 THEN b ELSE q[i]
    BY <2>1
  <2>3. Len(p) = m /\ \A i \in 1..m : p[i] = pick[q[i]]
    BY <2>1 DEF Pieces
  <2>4. Append(p, pick[b]) \in Seq(T) /\ Len(Append(p, pick[b])) = m + 1
    BY <1>1, <2>3
  <2>5. Pieces(Append(q, b), pick) \in Seq(T) /\ Len(Pieces(Append(q, b), pick)) = m + 1
    <3>1. Append(q, b) \in Seq(B)
      OBVIOUS
    <3>2. Pieces(Append(q, b), pick) \in Seq(T)
      BY <3>1, PiecesType
    <3>3. DOMAIN Pieces(Append(q, b), pick) = 1..(m + 1)
      BY <2>2 DEF Pieces
    <3>. QED
      BY <2>1, <3>2, <3>3
  <2>6. ASSUME NEW i \in 1..(m + 1)
        PROVE  Pieces(Append(q, b), pick)[i] = Append(p, pick[b])[i]
    <3>1. Pieces(Append(q, b), pick)[i] = pick[IF i = m + 1 THEN b ELSE q[i]]
      BY <2>2 DEF Pieces
    <3>2. CASE i = m + 1
      BY <1>1, <2>3, <3>1, <3>2
    <3>3. CASE i # m + 1
      <4>1. i \in 1..m
        BY <2>1, <3>3
      <4>2. Append(p, pick[b])[i] = p[i]
        BY <1>1, <2>3, <4>1
      <4>. QED
        BY <2>3, <3>1, <3>3, <4>1, <4>2
    <3>. QED
      BY <3>2, <3>3
  <2>. QED
    BY <2>4, <2>5, <2>6, SeqEqual
<1>. HIDE DEF p
<1>3. FlattenSeq(Append(p, pick[b])) = FlattenSeq(p) \o pick[b] /\ FlattenSeq(p) \in Seq(S)
  BY <1>1, FlatAppend
<1>. QED
  BY <1>2, <1>3 DEF p

(* The pieces of two lists are those of the one, then those of the other.  *)
LEMMA PiecesJoin ==
  ASSUME NEW B, NEW T, NEW pick \in [B -> T], NEW q \in Seq(B), NEW r \in Seq(B)
  PROVE  Pieces(q \o r, pick) = Pieces(q, pick) \o Pieces(r, pick)
<1>. DEFINE a == Pieces(q, pick)
            b == Pieces(r, pick)
            t == Pieces(q \o r, pick)
<1>0. PICK m \in Nat, n \in Nat : m = Len(q) /\ n = Len(r)
  OBVIOUS
<1>1. a \in Seq(T) /\ b \in Seq(T)
  BY PiecesType
<1>2. /\ q \o r \in Seq(B) /\ DOMAIN (q \o r) = 1..(m + n)
      /\ (\A i \in 1..m : (q \o r)[i] = q[i]) /\ \A i \in 1..n : (q \o r)[m + i] = r[i]
  BY <1>0, CatAt
<1>3. t \in Seq(T)
  BY <1>2, PiecesType
<1>4. /\ DOMAIN t = 1..(m + n) /\ Len(a) = m /\ Len(b) = n
      /\ (\A i \in 1..m : t[i] = pick[q[i]] /\ a[i] = pick[q[i]])
      /\ \A i \in 1..n : t[m + i] = pick[r[i]] /\ b[i] = pick[r[i]]
  <2>1. \A i \in 1..(m + n) : t[i] = pick[(q \o r)[i]]
    BY <1>2 DEF Pieces
  <2>2. \A i \in 1..m : i \in 1..(m + n)
    BY <1>0
  <2>3. \A i \in 1..n : m + i \in 1..(m + n)
    BY <1>0
  <2>4. DOMAIN t = 1..(m + n)
    BY <1>2 DEF Pieces
  <2>5. (\A i \in 1..m : a[i] = pick[q[i]]) /\ \A i \in 1..n : b[i] = pick[r[i]]
    BY <1>0 DEF Pieces
  <2>6. Len(a) = m /\ Len(b) = n
    BY <1>0 DEF Pieces
  <2>. HIDE DEF a, b, t
  <2>7. \A i \in 1..m : t[i] = pick[q[i]]
    BY <1>2, <2>1, <2>2
  <2>8. \A i \in 1..n : t[m + i] = pick[r[i]]
    BY <1>2, <2>1, <2>3
  <2>. QED
    BY <2>4, <2>5, <2>6, <2>7, <2>8
<1>. HIDE DEF a, b, t
<1>5. /\ a \o b \in Seq(T) /\ Len(a \o b) = m + n
      /\ (\A i \in 1..m : (a \o b)[i] = a[i]) /\ \A i \in 1..n : (a \o b)[m + i] = b[i]
  <2>1. PICK x \in Seq(T), y \in Seq(T) : x = a /\ y = b
    BY <1>1
  <2>2. /\ x \o y \in Seq(T) /\ Len(x \o y) = Len(x) + Len(y)
        /\ (\A i \in 1..Len(x) : (x \o y)[i] = x[i]) /\ \A i \in 1..Len(y) : (x \o y)[Len(x) + i] = y[i]
    BY <2>1, CatAt
  <2>. QED
    BY <1>4, <2>1, <2>2
<1>6. t = a \o b
  <2>1. Len(t) = m + n
    BY <1>0, <1>3, <1>4
  <2>2. ASSUME NEW i \in 1..(m + n) PROVE t[i] = (a \o b)[i]
    <3>1. CASE i <= m
      <4>1. i \in 1..m
        BY <1>0, <2>1, <3>1
      <4>. QED
        BY <1>4, <1>5, <4>1
    <3>2. CASE ~(i <= m)
      <4>1. i - m \in 1..n /\ m + (i - m) = i
        BY <1>0, <2>1, <3>2
      <4>2. t[m + (i - m)] = (a \o b)[m + (i - m)]
        BY <1>4, <1>5, <4>1
      <4>. QED
        BY <4>1, <4>2
    <3>. QED
      BY <3>1, <3>2
  <2>. QED
    BY <1>3, <1>5, <2>1, <2>2, SeqEqual
<1>. QED
  BY <1>6 DEF a, b, t

(* r is p and then q. *)
Meets(p, q, r) == p \o q = r

(* A joined sequence, entry by entry.                                      *)
LEMMA MeetsAt ==
  ASSUME NEW S, NEW p \in Seq(S), NEW q \in Seq(S), NEW t, Meets(p, q, t)
  PROVE  /\ Len(t) = Len(p) + Len(q) /\ DOMAIN t = 1..(Len(p) + Len(q))
         /\ (\A i \in 1..Len(p) : t[i] = p[i]) /\ \A i \in 1..Len(q) : t[Len(p) + i] = q[i]
  BY CatAt DEF Meets

(* The two parts of a sequence make it again.                              *)
LEMMA MeetsAgain ==
  ASSUME NEW S, NEW q \in Seq(S), NEW n \in 0..Len(q)
  PROVE  Meets(SubSeq(q, 1, n), SubSeq(q, n + 1, Len(q)), q)
<1>1. PICK e \in Seq(S) : e = << >>
  <2>1. << >> \in Seq(S)
    OBVIOUS
  <2>. QED
    BY <2>1, Zenon
<1>2. PICK a \in Seq(S), b \in Seq(S) : a = SubSeq(q, 1, n) /\ b = SubSeq(q, n + 1, Len(q))
  BY FirstOf, RestOf
<1>3. (e \o SubSeq(q, 1, n)) \o SubSeq(q, n + 1, Len(q)) = e \o q
  BY Reread
<1>4. (e \o a) \o b = e \o q
  BY <1>2, <1>3
<1>5. e \o a = a /\ e \o q = q
  BY <1>1
<1>. QED
  BY <1>2, <1>4, <1>5 DEF Meets

(* So they are when they are put together.                                 *)
LEMMA PiecesCat ==
  ASSUME NEW B, NEW S, NEW T, T = Seq(S), NEW pick \in [B -> T], NEW q \in Seq(B), NEW r \in Seq(B),
         NEW t, Meets(q, r, t)
  PROVE  Meets(FlattenSeq(Pieces(q, pick)), FlattenSeq(Pieces(r, pick)), FlattenSeq(Pieces(t, pick)))
<1>1. PICK a \in Seq(T), b \in Seq(T) : a = Pieces(q, pick) /\ b = Pieces(r, pick)
  BY PiecesType
<1>2. Pieces(t, pick) = a \o b
  BY <1>1, PiecesJoin DEF Meets
<1>3. FlattenSeq(a \o b) = FlattenSeq(a) \o FlattenSeq(b)
  BY FlatCat
<1>. QED
  BY <1>1, <1>2, <1>3 DEF Meets

(* No element, no pieces.                                                  *)
LEMMA PiecesNone ==
  ASSUME NEW pick
  PROVE  FlattenSeq(Pieces(<< >>, pick)) = << >>
<1>1. Pieces(<< >>, pick) = << >>
  BY DEF Pieces
<1>. QED
  BY <1>1, FlatEmpty

(* The first element gives the first piece.                                *)
LEMMA PiecesHead ==
  ASSUME NEW B, NEW S, NEW T, T = Seq(S), NEW pick \in [B -> T], NEW q \in Seq(B), q # << >>
  PROVE  FlattenSeq(Pieces(q, pick)) = pick[Head(q)] \o FlattenSeq(Pieces(Tail(q), pick))
<1>1. Head(q) \in B /\ Tail(q) \in Seq(B) /\ <<Head(q)>> \in Seq(B) /\ q = <<Head(q)>> \o Tail(q)
  OBVIOUS
<1>2. PICK x \in B, r \in Seq(B), h \in Seq(B) : x = Head(q) /\ r = Tail(q) /\ h = <<x>>
  BY <1>1
<1>3. FlattenSeq(Pieces(h \o r, pick)) = FlattenSeq(Pieces(h, pick)) \o FlattenSeq(Pieces(r, pick))
  <2>1. PICK a \in Seq(T), b \in Seq(T) : a = Pieces(h, pick) /\ b = Pieces(r, pick)
    BY PiecesType
  <2>2. Pieces(h \o r, pick) = a \o b
    BY <2>1, PiecesJoin
  <2>3. FlattenSeq(a \o b) = FlattenSeq(a) \o FlattenSeq(b)
    BY FlatCat
  <2>. QED
    BY <2>1, <2>2, <2>3
<1>4. FlattenSeq(Pieces(h, pick)) = pick[x]
  <2>1. Pieces(h, pick) = <<pick[x]>>
    BY <1>2 DEF Pieces
  <2>2. pick[x] \in Seq(S)
    OBVIOUS
  <2>. QED
    BY <2>1, <2>2, FlatOne
<1>. QED
  BY <1>1, <1>2, <1>3, <1>4

-----------------------------------------------------------------------------
(* What is on its way to a peer, and the order of units. *)

Sent(q, c) == FlattenSeq([i \in DOMAIN q |-> IF q[i].sid = c THEN q[i].arg ELSE << >>])
Piece(b, c) == IF b.sid = c THEN b.arg ELSE << >>

(* Sent picks from each buffer what is for one connection.                 *)
LEMMA SentIs ==
  ASSUME 0 \notin Conn, NEW c \in Conn
  PROVE  /\ [b \in Buf |-> Piece(b, c)] \in [Buf -> Seq(Unit)]
         /\ \A q \in Seq(Buf) : Sent(q, c) = FlattenSeq(Pieces(q, [b \in Buf |-> Piece(b, c)]))
<1>1. ASSUME NEW b \in Buf PROVE Piece(b, c) \in Seq(Unit)
  <2>1. CASE b.sid = c
    <3>1. b \in [sid : Conn, arg : Seq(Unit)]
      BY <2>1 DEF Buf
    <3>. QED
      BY <2>1, <3>1 DEF Piece
  <2>2. CASE b.sid # c
    <3>1. << >> \in Seq(Unit)
      OBVIOUS
    <3>. QED
      BY <2>2, <3>1 DEF Piece
  <2>. QED
    BY <2>1, <2>2
<1>2. ASSUME NEW q \in Seq(Buf) PROVE Sent(q, c) = FlattenSeq(Pieces(q, [b \in Buf |-> Piece(b, c)]))
  <2>. DEFINE p == [i \in DOMAIN q |-> IF q[i].sid = c THEN q[i].arg ELSE << >>]
              r == [i \in DOMAIN q |-> [b \in Buf |-> Piece(b, c)][q[i]]]
  <2>1. \A i \in DOMAIN q : q[i] \in Buf
    OBVIOUS
  <2>2. \A i \in DOMAIN q : [b \in Buf |-> Piece(b, c)][q[i]] = Piece(q[i], c)
    BY <2>1
  <2>3. p = r
    BY <2>2 DEF Piece
  <2>. HIDE DEF p, r
  <2>4. FlattenSeq(p) = FlattenSeq(r)
    BY <2>3
  <2>. QED
    BY <2>4 DEF p, r, Sent, Pieces
<1>. QED
  BY <1>1, <1>2

LEMMA SentEmpty == \A c : Sent(<< >>, c) = << >>
<1>. SUFFICES ASSUME NEW c PROVE Sent(<< >>, c) = << >>
  OBVIOUS
<1>1. [i \in DOMAIN << >> |-> IF << >>[i].sid = c THEN << >>[i].arg ELSE << >>] = << >>
  OBVIOUS
<1>. QED
  BY <1>1, FlatEmpty DEF Sent

(* A buffer put at the end of a list is the last to be sent.               *)
LEMMA SentAppend ==
  ASSUME 0 \notin Conn, NEW c \in Conn, NEW q \in Seq(Buf), NEW b \in Buf
  PROVE  /\ Sent(Append(q, b), c) = Sent(q, c) \o Piece(b, c)
         /\ Sent(q, c) \in Seq(Unit) /\ Piece(b, c) \in Seq(Unit)
<1>1. PICK pick : pick = [x \in Buf |-> Piece(x, c)]
  OBVIOUS
<1>2. PICK T : T = Seq(Unit)
  OBVIOUS
<1>3. pick \in [Buf -> T] /\ \A p \in Seq(Buf) : Sent(p, c) = FlattenSeq(Pieces(p, pick))
  BY <1>1, <1>2, SentIs
<1>4. /\ FlattenSeq(Pieces(Append(q, b), pick)) = FlattenSeq(Pieces(q, pick)) \o pick[b]
      /\ FlattenSeq(Pieces(q, pick)) \in Seq(Unit)
  BY <1>2, <1>3, PiecesAppend
<1>5. Append(q, b) \in Seq(Buf) /\ pick[b] = Piece(b, c) /\ pick[b] \in Seq(Unit)
  BY <1>1, <1>2, <1>3
<1>. QED
  BY <1>3, <1>4, <1>5

(* The buffer at the front is the first.                                   *)
LEMMA SentHead ==
  ASSUME 0 \notin Conn, NEW c \in Conn, NEW q \in Seq(Buf), q # << >>
  PROVE  /\ Sent(q, c) = Piece(Head(q), c) \o Sent(Tail(q), c)
         /\ Sent(Tail(q), c) \in Seq(Unit) /\ Piece(Head(q), c) \in Seq(Unit)
<1>0. Head(q) \in Buf /\ Tail(q) \in Seq(Buf)
  OBVIOUS
<1>1. PICK pick : pick = [x \in Buf |-> Piece(x, c)]
  OBVIOUS
<1>2. PICK T : T = Seq(Unit)
  OBVIOUS
<1>3. pick \in [Buf -> T] /\ \A p \in Seq(Buf) : Sent(p, c) = FlattenSeq(Pieces(p, pick))
  BY <1>1, <1>2, SentIs
<1>4. FlattenSeq(Pieces(q, pick)) = pick[Head(q)] \o FlattenSeq(Pieces(Tail(q), pick))
  BY <1>2, <1>3, PiecesHead
<1>5. pick[Head(q)] = Piece(Head(q), c)
  BY <1>0, <1>1
<1>6. Sent(Tail(q), c) \in Seq(Unit) /\ Piece(Head(q), c) \in Seq(Unit)
  BY <1>0, SentAppend
<1>. QED
  BY <1>0, <1>3, <1>4, <1>5, <1>6

(* A sequence in order is two sequences in order that meet. *)
LEMMA SequenceCat ==
  ASSUME NEW p \in Seq(Unit), NEW q \in Seq(Unit)
  PROVE  InSequence(p \o q) <=>
           /\ InSequence(p)
           /\ \A j \in 1..(Len(q) - 1) : Follows(q[j], q[j + 1])
           /\ q # << >> => IF p = << >> THEN q[1].i = 1 ELSE Follows(p[Len(p)], q[1])
<1>. DEFINE t == p \o q
<1>0. PICK m \in Nat, n \in Nat : m = Len(p) /\ n = Len(q)
  OBVIOUS
<1>1. /\ t \in Seq(Unit) /\ Len(t) = m + n
      /\ (\A i \in 1..m : t[i] = p[i]) /\ \A i \in 1..n : t[m + i] = q[i]
  BY <1>0, CatAt
<1>2. (t = << >> <=> m + n = 0) /\ (p = << >> <=> m = 0) /\ (q = << >> <=> n = 0)
  BY <1>0, <1>1
<1>. HIDE DEF t
<1>3. ASSUME InSequence(t)
      PROVE  /\ InSequence(p)
             /\ \A j \in 1..(n - 1) : Follows(q[j], q[j + 1])
             /\ q # << >> => IF p = << >> THEN q[1].i = 1 ELSE Follows(p[m], q[1])
  <2>1. (t # << >> => t[1].i = 1) /\ \A j \in 1..(m + n - 1) : Follows(t[j], t[j + 1])
    BY <1>1, <1>3 DEF InSequence
  <2>2. p # << >> => p[1].i = 1
    <3>. SUFFICES ASSUME p # << >> PROVE p[1].i = 1
      OBVIOUS
    <3>1. 1 \in 1..m /\ m + n # 0
      BY <1>0, <1>2
    <3>. QED
      BY <1>1, <1>2, <2>1, <3>1
  <2>3. ASSUME NEW j \in 1..(m - 1) PROVE Follows(p[j], p[j + 1])
    <3>1. j \in 1..m /\ j + 1 \in 1..m /\ j \in 1..(m + n - 1)
      BY <1>0
    <3>. QED
      BY <1>1, <2>1, <3>1
  <2>4. ASSUME NEW j \in 1..(n - 1) PROVE Follows(q[j], q[j + 1])
    <3>1. j \in 1..n /\ j + 1 \in 1..n /\ m + j \in 1..(m + n - 1) /\ m + (j + 1) = (m + j) + 1
      BY <1>0
    <3>. QED
      BY <1>1, <2>1, <3>1
  <2>5. ASSUME q # << >>, p = << >> PROVE q[1].i = 1
    <3>1. m = 0 /\ 1 \in 1..n /\ m + 1 = 1 /\ m + n # 0
      BY <1>0, <1>2, <2>5
    <3>2. t[1] = q[1]
      BY <1>1, <3>1
    <3>. QED
      BY <1>2, <2>1, <3>1, <3>2
  <2>6. ASSUME q # << >>, p # << >> PROVE Follows(p[m], q[1])
    <3>1. m \in 1..m /\ 1 \in 1..n /\ m \in 1..(m + n - 1)
      BY <1>0, <1>2, <2>6
    <3>2. t[m] = p[m] /\ t[m + 1] = q[1]
      BY <1>1, <3>1
    <3>. QED
      BY <2>1, <3>1, <3>2
  <2>7. InSequence(p)
    BY <1>0, <2>2, <2>3 DEF InSequence
  <2>. QED
    BY <2>4, <2>5, <2>6, <2>7
<1>4. ASSUME InSequence(p),
             \A j \in 1..(n - 1) : Follows(q[j], q[j + 1]),
             q # << >> => IF p = << >> THEN q[1].i = 1 ELSE Follows(p[m], q[1])
      PROVE  InSequence(t)
  <2>1. (p # << >> => p[1].i = 1) /\ \A j \in 1..(m - 1) : Follows(p[j], p[j + 1])
    BY <1>0, <1>4 DEF InSequence
  <2>2. ASSUME t # << >> PROVE t[1].i = 1
    <3>1. CASE m = 0
      <4>1. 1 \in 1..n /\ m + 1 = 1 /\ q # << >> /\ p = << >>
        BY <1>0, <1>2, <2>2, <3>1
      <4>2. t[1] = q[1]
        BY <1>1, <4>1
      <4>. QED
        BY <1>4, <4>1, <4>2
    <3>2. CASE m # 0
      <4>1. 1 \in 1..m /\ p # << >>
        BY <1>0, <1>2, <3>2
      <4>. QED
        BY <1>1, <2>1, <4>1
    <3>. QED
      BY <3>1, <3>2
  <2>3. ASSUME NEW j \in 1..(m + n - 1) PROVE Follows(t[j], t[j + 1])
    <3>1. CASE j < m
      <4>1. j \in 1..m /\ j + 1 \in 1..m /\ j \in 1..(m - 1)
        BY <1>0, <3>1
      <4>. QED
        BY <1>1, <2>1, <4>1
    <3>2. CASE j = m
      <4>1. m \in 1..m /\ 1 \in 1..n /\ p # << >> /\ q # << >>
        BY <1>0, <1>2, <3>2
      <4>2. t[m] = p[m] /\ t[m + 1] = q[1]
        BY <1>1, <4>1
      <4>. QED
        BY <1>4, <3>2, <4>1, <4>2
    <3>3. CASE j > m
      <4>1. j - m \in 1..n /\ (j - m) + 1 \in 1..n /\ j - m \in 1..(n - 1)
            /\ m + (j - m) = j /\ m + ((j - m) + 1) = j + 1
        BY <1>0, <3>3
      <4>2. t[m + (j - m)] = q[j - m] /\ t[m + ((j - m) + 1)] = q[(j - m) + 1]
        BY <1>1, <4>1
      <4>. QED
        BY <1>4, <4>1, <4>2
    <3>. QED
      BY <1>0, <3>1, <3>2, <3>3
  <2>. QED
    BY <1>1, <2>2, <2>3 DEF InSequence
<1>. QED
  BY <1>0, <1>3, <1>4 DEF t

-----------------------------------------------------------------------------
(* What is written to a connection is in order.                            *)

(* What the lists carry. *)
Cargo ==
  {b \in Buf : /\ Income(b) => b.seed = (b.arg \notin Called)
               /\ b.sid # 0 => \E k \in Nat \ {0} : b.arg = Units(k, 2)}
Carried == gConnectQue \in Seq(Called) /\ gSndBufq \in Seq(Cargo) /\ todo \in Seq(Cargo)

Held ==
  /\ wire \in [Conn -> Seq(Unit)]
  /\ \A f \in Fd : sess[f].bufw \in Seq(Unit) /\ sess[f].bufwq \in Seq(Seq(Unit))

(* No session has been made for the connection. *)
Fresh(c) == fdOf[c] = 0 \/ Waiting(c)

(* All that is or will be on the wire if its session lives: the seed or    *)
(* what is written, the buffers of the session, those on the lists.        *)
Written(c) == IF c \notin Called /\ wire[c] = << >> THEN Units(0, 1) ELSE wire[c]
Unsent(c) == IF Session(c) THEN sess[fdOf[c]].bufw \o FlattenSeq(sess[fdOf[c]].bufwq) ELSE << >>
Queued(c) == Sent(todo, c) \o Sent(gSndBufq, c)
Line(c) == Written(c) \o (Unsent(c) \o Queued(c))

(* Whole buffers one after the other, the last of them number n. *)
Ordered(c, n, units) ==
  /\ InSequence(units)
  /\ \A j \in DOMAIN units :
       /\ units[j].of = 0 <=> j = 1 /\ c \notin Called
       /\ units[j].of # 0 => units[j].of <= n /\ units[j].size = 2
  /\ units # << >> => /\ units[Len(units)].i >= units[Len(units)].size
                      /\ units[Len(units)].of \in {0, n}

Sends(c) ==
  /\ WireInOrder(c)
  /\ Fresh(c) => wire[c] = << >>
  /\ Session(c) => (sess[fdOf[c]].state = "seed" <=> wire[c] = << >> /\ c \notin Called)
  /\ Fresh(c) \/ Session(c) => Ordered(c, out[c], Line(c))

(* The seed of an accepted session is one unit, number 0.                  *)
LEMMA SeedIs ==
  /\ Units(0, 1) \in Seq(Unit) /\ Len(Units(0, 1)) = 1 /\ Units(0, 1) # << >>
  /\ Units(0, 1)[1] = [of |-> 0, i |-> 1, size |-> 1]
<1>1. PICK n \in Nat, z \in Nat : n = 0 /\ z = 1
  OBVIOUS
<1>2. PICK q \in Seq(Unit) : q = Units(n, z)
  BY UnitsAt
<1>3. Len(q) = Span(z) /\ \A k \in 1..Span(z) : q[k] = [of |-> n, i |-> k, size |-> z]
  BY <1>2, UnitsAt
<1>4. Span(z) = 1 /\ 1 \in 1..1
  BY <1>1 DEF Span
<1>5. Len(q) = 1 /\ q[1] = [of |-> 0, i |-> 1, size |-> 1]
  BY <1>1, <1>3, <1>4
<1>6. q # << >>
  <2>1. Len(q) # 0
    BY <1>5
  <2>2. q = << >> => Len(q) = 0
    OBVIOUS
  <2>. QED
    BY <2>1, <2>2
<1>. QED
  BY <1>1, <1>2, <1>5, <1>6

(* A buffer that the game sends is two units.                              *)
LEMMA BufferIs ==
  ASSUME NEW n \in Nat
  PROVE  /\ Units(n, 2) \in Seq(Unit) /\ Len(Units(n, 2)) = 2 /\ Units(n, 2) # << >>
         /\ Units(n, 2)[1] = [of |-> n, i |-> 1, size |-> 2]
         /\ Units(n, 2)[2] = [of |-> n, i |-> 2, size |-> 2]
<1>1. PICK z \in Nat : z = 2
  OBVIOUS
<1>2. PICK q \in Seq(Unit) : q = Units(n, z)
  BY UnitsAt
<1>3. Len(q) = Span(z) /\ \A k \in 1..Span(z) : q[k] = [of |-> n, i |-> k, size |-> z]
  BY <1>2, UnitsAt
<1>4. Span(z) = 2 /\ 1 \in 1..2 /\ 2 \in 1..2
  BY <1>1 DEF Span
<1>5. Len(q) = 2 /\ q[1] = [of |-> n, i |-> 1, size |-> 2] /\ q[2] = [of |-> n, i |-> 2, size |-> 2]
  BY <1>1, <1>3, <1>4
<1>6. q # << >>
  <2>1. Len(q) # 0
    BY <1>5
  <2>2. q = << >> => Len(q) = 0
    OBVIOUS
  <2>. QED
    BY <2>1, <2>2
<1>. QED
  BY <1>1, <1>2, <1>5, <1>6

(* Lua sends one more. *)
LEMMA OrderedGrows ==
  ASSUME NEW c, NEW n \in Nat, NEW p \in Seq(Unit), Ordered(c, n, p), c \notin Called => p # << >>
  PROVE  Ordered(c, n + 1, p \o Units(n + 1, 2))
<1>1. PICK q \in Seq(Unit) : q = Units(n + 1, 2)
  BY BufferIs, n + 1 \in Nat
<1>2. /\ Len(q) = 2 /\ q # << >> /\ q[1] = [of |-> n + 1, i |-> 1, size |-> 2]
      /\ q[2] = [of |-> n + 1, i |-> 2, size |-> 2]
  BY <1>1, BufferIs, n + 1 \in Nat
<1>3. /\ q[1].of = n + 1 /\ q[1].i = 1 /\ q[1].size = 2 /\ q[2] = [q[1] EXCEPT !.i = @ + 1]
      /\ q[2].of = n + 1 /\ q[2].i = 2 /\ q[2].size = 2
  BY <1>2
<1>4. PICK m \in Nat, t \in Seq(Unit) : m = Len(p) /\ t = p \o q
  BY CatAt
<1>5. /\ Len(t) = m + 2 /\ DOMAIN t = 1..(m + 2) /\ DOMAIN p = 1..m
      /\ (\A i \in 1..m : t[i] = p[i]) /\ t[m + 1] = q[1] /\ t[m + 2] = q[2]
  <2>1. /\ Len(t) = m + Len(q) /\ DOMAIN t = 1..(m + Len(q)) /\ DOMAIN p = 1..m
        /\ (\A i \in 1..m : t[i] = p[i]) /\ \A i \in 1..Len(q) : t[m + i] = q[i]
    BY <1>4, CatAt
  <2>2. Len(q) = 2 /\ 1 \in 1..2 /\ 2 \in 1..2
    BY <1>2
  <2>. QED
    BY <2>1, <2>2
<1>6. InSequence(t)
  <2>1. \A j \in 1..(Len(q) - 1) : Follows(q[j], q[j + 1])
    <3>1. Follows(q[1], q[2])
      BY <1>3 DEF Follows
    <3>2. 1..(Len(q) - 1) = {1} /\ 1 + 1 = 2
      BY <1>2
    <3>. QED
      BY <3>1, <3>2
  <2>2. p # << >> => Follows(p[Len(p)], q[1])
    <3>. SUFFICES ASSUME p # << >> PROVE Follows(p[m], q[1])
      BY <1>4
    <3>1. m \in 1..Len(p) /\ m \in DOMAIN p
      BY <1>4, <1>5
    <3>2. /\ p[m].i >= p[m].size /\ p[m].of \in {0, n}
          /\ p[m].i \in Nat /\ p[m].size \in Nat /\ p[m].of \in Nat
      BY <1>4, <3>1, UnitIs DEF Ordered
    <3>3. ~(p[m].i < p[m].size)
      BY <3>2
    <3>. QED
      BY <1>3, <3>2, <3>3 DEF Follows
  <2>3. InSequence(p)
    BY DEF Ordered
  <2>. QED
    BY <1>3, <1>4, <2>1, <2>2, <2>3, SequenceCat
<1>7. ASSUME NEW j \in 1..(m + 2)
      PROVE  /\ t[j].of = 0 <=> j = 1 /\ c \notin Called
             /\ t[j].of # 0 => t[j].of <= n + 1 /\ t[j].size = 2
  <2>1. CASE j \in 1..m
    <3>1. /\ p[j].of = 0 <=> j = 1 /\ c \notin Called
          /\ p[j].of # 0 => p[j].of <= n /\ p[j].size = 2
      BY <1>5, <2>1 DEF Ordered
    <3>2. p[j].of \in Nat /\ t[j] = p[j]
      BY <1>4, <1>5, <2>1, UnitIs
    <3>. QED
      BY <3>1, <3>2
  <2>2. CASE j \notin 1..m
    <3>1. j = m + 1 \/ j = m + 2
      BY <2>2
    <3>2. t[j].of = n + 1 /\ t[j].size = 2
      BY <1>3, <1>5, <3>1
    <3>3. j = 1 => c \in Called
      <4>1. j = 1 => m = 0
        BY <3>1
      <4>. QED
        BY <1>4, <4>1
    <3>. QED
      BY <3>2, <3>3
  <2>. QED
    BY <2>1, <2>2
<1>8. t[Len(t)].i >= t[Len(t)].size /\ t[Len(t)].of \in {0, n + 1}
  BY <1>3, <1>5
<1>9. Ordered(c, n + 1, t)
  BY <1>5, <1>6, <1>7, <1>8 DEF Ordered
<1>. QED
  BY <1>1, <1>4, <1>9

(* A buffer whose session is not there yet is passed over. *)
LEMMA OrderedDrops ==
  ASSUME NEW c, NEW n \in Nat, NEW k \in Nat \ {0}, NEW s \in Seq(Unit), NEW r \in Seq(Unit),
         IF c \in Called THEN s = << >> ELSE s = Units(0, 1),
         Ordered(c, n, s \o (Units(k, 2) \o r))
  PROVE  Ordered(c, n, s \o r)
<1>1. PICK q \in Seq(Unit) : q = Units(k, 2)
  BY BufferIs
<1>2. /\ Len(q) = 2 /\ q # << >> /\ q[1] = [of |-> k, i |-> 1, size |-> 2]
      /\ q[2] = [of |-> k, i |-> 2, size |-> 2]
  BY <1>1, BufferIs
<1>3. PICK u \in Seq(Unit), t \in Seq(Unit), v \in Seq(Unit) : u = q \o r /\ t = s \o u /\ v = s \o r
  <2>1. q \o r \in Seq(Unit) /\ s \o r \in Seq(Unit)
    BY CatAt
  <2>2. s \o (q \o r) \in Seq(Unit)
    BY <2>1, CatAt
  <2>. QED
    BY <2>1, <2>2
<1>4. Ordered(c, n, t)
  BY <1>1, <1>3
<1>5. PICK m \in Nat, l \in Nat : m = Len(s) /\ l = Len(r)
  OBVIOUS
<1>6. /\ m \in {0, 1} /\ (m = 0 <=> c \in Called) /\ (m = 0 <=> s = << >>) /\ (r = << >> <=> l = 0)
      /\ m = 1 => s[1].of = 0 /\ s[1].i = 1 /\ s[1].size = 1
  <2>1. (m = 0 <=> s = << >>) /\ (r = << >> <=> l = 0)
    BY <1>5
  <2>2. CASE c \in Called
    BY <2>1, <2>2
  <2>3. CASE c \notin Called
    BY <1>5, <2>1, <2>3, SeedIs
  <2>. QED
    BY <2>1, <2>2, <2>3
<1>7. /\ Len(u) = 2 + l /\ u[1] = q[1] /\ u[2] = q[2] /\ \A i \in 1..l : u[2 + i] = r[i]
  <2>1. /\ Len(u) = Len(q) + Len(r) /\ (\A i \in 1..Len(q) : u[i] = q[i])
        /\ \A i \in 1..Len(r) : u[Len(q) + i] = r[i]
    BY <1>3, CatAt
  <2>2. Len(q) = 2 /\ 1 \in 1..2 /\ 2 \in 1..2
    BY <1>2
  <2>. QED
    BY <1>5, <2>1, <2>2
<1>8. /\ Len(t) = m + (2 + l) /\ DOMAIN t = 1..(m + (2 + l)) /\ (\A i \in 1..m : t[i] = s[i])
      /\ \A i \in 1..(2 + l) : t[m + i] = u[i]
  <2>a. s \in Seq(Unit) /\ u \in Seq(Unit)
    BY <1>3
  <2>b. Meets(s, u, t)
    BY <1>3, Zenon DEF Meets
  <2>1. /\ Len(t) = Len(s) + Len(u) /\ DOMAIN t = 1..(Len(s) + Len(u)) /\ (\A i \in 1..Len(s) : t[i] = s[i])
        /\ \A i \in 1..Len(u) : t[Len(s) + i] = u[i]
    BY <2>a, <2>b, MeetsAt
  <2>. QED
    BY <1>5, <1>7, <2>1
<1>9. /\ Len(v) = m + l /\ DOMAIN v = 1..(m + l) /\ (\A i \in 1..m : v[i] = s[i])
      /\ \A i \in 1..l : v[m + i] = r[i]
  BY <1>3, <1>5, CatAt
<1>10. \A i \in 1..l : m + (2 + i) \in DOMAIN t /\ t[m + (2 + i)] = r[i] /\ v[m + i] = r[i]
  <2>. SUFFICES ASSUME NEW i \in 1..l
                PROVE  m + (2 + i) \in DOMAIN t /\ t[m + (2 + i)] = r[i] /\ v[m + i] = r[i]
    OBVIOUS
  <2>1. 2 + i \in 1..(2 + l) /\ m + (2 + i) \in 1..(m + (2 + l))
    BY <1>5
  <2>. QED
    BY <1>7, <1>8, <1>9, <2>1
<1>11. InSequence(v)
  <2>1. InSequence(s) /\ \A j \in 1..(Len(u) - 1) : Follows(u[j], u[j + 1])
    BY <1>3, <1>4, SequenceCat DEF Ordered
  <2>2. \A j \in 1..(l - 1) : Follows(r[j], r[j + 1])
    <3>. SUFFICES ASSUME NEW j \in 1..(l - 1) PROVE Follows(r[j], r[j + 1])
      OBVIOUS
    <3>1. j \in 1..l /\ j + 1 \in 1..l /\ 2 + j \in 1..((2 + l) - 1) /\ 2 + (j + 1) = (2 + j) + 1
      BY <1>5
    <3>. QED
      BY <1>7, <2>1, <3>1
  <2>3. ASSUME r # << >> PROVE r[1].i = 1
    <3>1. 2 \in 1..(Len(u) - 1) /\ 1 \in 1..l /\ 2 + 1 = 3
      BY <1>5, <1>6, <1>7, <2>3
    <3>2. Follows(q[2], r[1])
      BY <1>7, <2>1, <3>1
    <3>3. q[2].i = 2 /\ q[2].size = 2
      BY <1>2
    <3>. QED
      BY <3>2, <3>3 DEF Follows
  <2>4. ASSUME r # << >>, s # << >> PROVE Follows(s[Len(s)], r[1])
    <3>1. Len(s) = 1 /\ s[1].of = 0 /\ s[1].i = 1 /\ s[1].size = 1
      BY <1>5, <1>6, <2>4
    <3>. QED
      BY <2>3, <2>4, <3>1 DEF Follows
  <2>. QED
    BY <1>3, <1>5, <2>1, <2>2, <2>3, <2>4, SequenceCat
<1>12. ASSUME NEW j \in 1..(m + l)
       PROVE  /\ v[j].of = 0 <=> j = 1 /\ c \notin Called
              /\ v[j].of # 0 => v[j].of <= n /\ v[j].size = 2
  <2>1. CASE j <= m
    <3>1. j = 1 /\ m = 1
      BY <1>6, <2>1
    <3>. QED
      BY <1>6, <1>9, <3>1
  <2>2. CASE ~(j <= m)
    <3>1. PICK i \in 1..l : j = m + i
      <4>1. j - m \in 1..l /\ j = m + (j - m)
        BY <2>2
      <4>. QED
        BY <4>1
    <3>2. v[j] = t[m + (2 + i)] /\ m + (2 + i) \in DOMAIN t
      BY <1>10, <3>1
    <3>4. m + (2 + i) # 1
      BY <1>5
    <3>3. j = 1 => c \in Called
      BY <1>6, <2>2
    <3>. QED
      BY <1>4, <3>2, <3>3, <3>4 DEF Ordered
  <2>. QED
    BY <2>1, <2>2
<1>13. ASSUME v # << >> PROVE v[Len(v)].i >= v[Len(v)].size /\ v[Len(v)].of \in {0, n}
  <2>1. CASE l = 0
    <3>1. m = 1
      <4>1. Len(v) # 0
        BY <1>13
      <4>. QED
        BY <1>6, <1>9, <2>1, <4>1
    <3>2. v[Len(v)] = s[1]
      BY <1>9, <2>1, <3>1
    <3>. QED
      BY <1>6, <3>1, <3>2
  <2>2. CASE l # 0
    <3>1. l \in 1..l /\ m + (2 + l) = Len(t) /\ m + l = Len(v) /\ t # << >>
      BY <1>8, <1>9, <2>2
    <3>2. v[Len(v)] = t[Len(t)]
      BY <1>10, <3>1
    <3>. QED
      BY <1>4, <3>1, <3>2 DEF Ordered
  <2>. QED
    BY <2>1, <2>2
<1>14. Ordered(c, n, v)
  BY <1>9, <1>11, <1>12, <1>13 DEF Ordered
<1>. QED
  BY <1>3, <1>14

(* What is written is a beginning of the line. *)
Begins(c, n, p) ==
  /\ InSequence(p)
  /\ \A j \in DOMAIN p : /\ p[j].of = 0 <=> j = 1 /\ c \notin Called
                         /\ p[j].of # 0 => p[j].of <= n /\ p[j].size = 2

(* What begins units that are in order is in order.                        *)
LEMMA OrderedFirst ==
  ASSUME NEW c, NEW n \in Nat, NEW p \in Seq(Unit), NEW r \in Seq(Unit), Ordered(c, n, p \o r)
  PROVE  Begins(c, n, p)
<1>1. PICK t \in Seq(Unit) : t = p \o r
  BY CatAt
<1>2. Ordered(c, n, t)
  BY <1>1
<1>3. InSequence(p)
  BY <1>1, <1>2, SequenceCat DEF Ordered
<1>4. /\ DOMAIN t = 1..(Len(p) + Len(r)) /\ DOMAIN p = 1..Len(p) /\ Len(p) \in Nat /\ Len(r) \in Nat
      /\ \A i \in 1..Len(p) : t[i] = p[i]
  BY <1>1, CatAt
<1>5. \A j \in DOMAIN p : j \in DOMAIN t /\ t[j] = p[j]
  BY <1>4
<1>. QED
  BY <1>2, <1>3, <1>5 DEF Ordered, Begins

(* The types of what is on its way to a connection.                        *)
LEMMA QueuedType ==
  ASSUME 0 \notin Conn, Inv, NEW c \in Conn
  PROVE  Sent(todo, c) \in Seq(Unit) /\ Sent(gSndBufq, c) \in Seq(Unit) /\ Queued(c) \in Seq(Unit)
<1>1. todo \in Seq(Buf) /\ gSndBufq \in Seq(Buf)
  BY DEF Inv, Types
<1>2. PICK b \in Buf : b = [sid |-> 0, cmd |-> "close", arg |-> c]
  BY DEF Buf
<1>3. Sent(todo, c) \in Seq(Unit) /\ Sent(gSndBufq, c) \in Seq(Unit)
  BY <1>1, <1>2, SentAppend
<1>4. PICK p \in Seq(Unit), q \in Seq(Unit) : p = Sent(todo, c) /\ q = Sent(gSndBufq, c)
  BY <1>3
<1>5. p \o q \in Seq(Unit)
  BY CatAt
<1>. QED
  BY <1>4, <1>5 DEF Queued

LEMMA FlatType ==
  ASSUME NEW S, NEW s \in Seq(Seq(S))
  PROVE  FlattenSeq(s) \in Seq(S)
<1>1. PICK T : T = Seq(S)
  OBVIOUS
<1>2. s \in Seq(T) /\ << >> \in Seq(S)
  BY <1>1
<1>. QED
  BY <1>1, <1>2, FlatAppend

LEMMA CatType ==
  ASSUME NEW S, NEW p \in Seq(S), NEW q \in Seq(S)
  PROVE  p \o q \in Seq(S) /\ << >> \o q = q /\ p \o << >> = p
  OBVIOUS

LEMMA UnsentType ==
  ASSUME Inv, Held, NEW c \in Conn
  PROVE  Unsent(c) \in Seq(Unit)
<1>1. CASE Session(c)
  <2>1. fdOf[c] \in Fd
    BY <1>1 DEF Session, Inv, Types
  <2>2. sess[fdOf[c]].bufw \in Seq(Unit) /\ FlattenSeq(sess[fdOf[c]].bufwq) \in Seq(Unit)
    BY <2>1, FlatType DEF Held
  <2>. QED
    BY <1>1, <2>2, CatType DEF Unsent
<1>2. CASE ~Session(c)
  BY <1>2 DEF Unsent
<1>. QED
  BY <1>1, <1>2

LEMMA WrittenType ==
  ASSUME Held, NEW c \in Conn
  PROVE  Written(c) \in Seq(Unit) /\ (c \notin Called => Written(c) # << >>)
  BY SeedIs DEF Held, Written

(* The list of a connection and its session, or what it will have. *)
LEMMA LineStill ==
  ASSUME NEW c \in Conn, Sends(c), wire'[c] = wire[c], out'[c] = out[c],
         Fresh(c)' => Fresh(c),
         Session(c)' => /\ Fresh(c) \/ Session(c)
                        /\ sess'[fdOf'[c]].state = "seed" <=> wire[c] = << >> /\ c \notin Called,
         Fresh(c)' \/ Session(c)' => Unsent(c)' \o Queued(c)' = Unsent(c) \o Queued(c)
  PROVE  Sends(c)'
<1>1. WireInOrder(c)'
  BY DEF Sends, WireInOrder
<1>2. Fresh(c)' => wire'[c] = << >>
  BY DEF Sends
<1>3. Session(c)' => (sess'[fdOf'[c]].state = "seed" <=> wire'[c] = << >> /\ c \notin Called)
  OBVIOUS
<1>4. Written(c)' = Written(c)
  BY DEF Written
<1>5. ASSUME Fresh(c)' \/ Session(c)' PROVE Ordered(c, out'[c], Line(c)')
  <2>1. Line(c)' = Line(c)
    BY <1>4, <1>5 DEF Line
  <2>. QED
    BY <1>5, <2>1 DEF Sends
<1>. QED
  BY <1>1, <1>2, <1>3, <1>5 DEF Sends, Ordered

(* A step that writes nothing and sends nothing. *)
Mute ==
  /\ \A f \in Fd : \/ sess'[f].sid = 0 /\ sess'[f].bufw = << >> /\ sess'[f].bufwq = << >>
                   \/ /\ sess'[f].sid = sess[f].sid /\ sess'[f].state = sess[f].state
                      /\ sess'[f].bufw = sess[f].bufw /\ sess'[f].bufwq = sess[f].bufwq
  /\ \A c \in Conn : fdOf'[c] = fdOf[c] \/ fdOf[c] = 0
  /\ wire' = wire /\ out' = out

(* A step that neither writes nor queues disturbs nothing on the line.     *)
LEMMA MuteSends ==
  ASSUME 0 \notin Conn, Inv, Inv', Mute, NEW c \in Conn, Sends(c), Fresh(c)' => Fresh(c), Queued(c)' = Queued(c)
  PROVE  Sends(c)'
<1>1. ASSUME Session(c)'
      PROVE  /\ Session(c) /\ Unsent(c)' = Unsent(c)
             /\ sess'[fdOf'[c]].state = "seed" <=> wire[c] = << >> /\ c \notin Called
  <2>1. fdOf'[c] \in Fd /\ sess'[fdOf'[c]].sid = c /\ c # 0
    BY <1>1 DEF Session, Inv, Types
  <2>2. /\ sess[fdOf'[c]].sid = c /\ sess'[fdOf'[c]].state = sess[fdOf'[c]].state
        /\ sess'[fdOf'[c]].bufw = sess[fdOf'[c]].bufw /\ sess'[fdOf'[c]].bufwq = sess[fdOf'[c]].bufwq
    BY <2>1 DEF Mute
  <2>3. fdOf[c] = fdOf'[c] /\ fdOf[c] # 0
    BY <1>1, <2>1, <2>2 DEF Inv, OwnDescriptor, Session
  <2>4. Session(c)
    BY <2>2, <2>3 DEF Session
  <2>. QED
    BY <1>1, <2>2, <2>3, <2>4 DEF Unsent, Sends
<1>2. ASSUME Fresh(c)', ~Session(c)' PROVE ~Session(c)
  <2>1. fdOf[c] = 0 \/ Waiting(c)
    BY <1>2 DEF Fresh
  <2>. QED
    BY <2>1 DEF Session, Waiting, Inv, Waits, Types
<1>3. ASSUME Fresh(c)' \/ Session(c)' PROVE Unsent(c)' = Unsent(c)
  BY <1>1, <1>2, <1>3 DEF Unsent
<1>. QED
  BY <1>1, <1>3, LineStill DEF Mute

(* The lists carry nothing more of c, nothing less. *)
LEMMA QueuedStill ==
  ASSUME 0 \notin Conn, Inv, NEW c \in Conn,
         \/ gSndBufq' = gSndBufq
         \/ \E b \in Buf : gSndBufq' = Append(gSndBufq, b) /\ b.sid # c,
         todo' = todo \/ (todo # << >> /\ todo' = Tail(todo) /\ Head(todo).sid # c)
  PROVE  Queued(c)' = Queued(c)
<1>1. todo \in Seq(Buf) /\ gSndBufq \in Seq(Buf)
  BY DEF Inv, Types
<1>2. Sent(gSndBufq', c) = Sent(gSndBufq, c)
  <2>1. ASSUME NEW b \in Buf, gSndBufq' = Append(gSndBufq, b), b.sid # c
        PROVE  Sent(gSndBufq', c) = Sent(gSndBufq, c)
    <3>1. Sent(gSndBufq', c) = Sent(gSndBufq, c) \o Piece(b, c) /\ Sent(gSndBufq, c) \in Seq(Unit)
      BY <1>1, <2>1, SentAppend
    <3>2. Piece(b, c) = << >>
      BY <2>1 DEF Piece
    <3>. QED
      BY <3>1, <3>2, CatType
  <2>. QED
    BY <2>1
<1>3. Sent(todo', c) = Sent(todo, c)
  <2>1. CASE todo # << >> /\ todo' = Tail(todo) /\ Head(todo).sid # c
    <3>1. Sent(todo, c) = Piece(Head(todo), c) \o Sent(todo', c) /\ Sent(todo', c) \in Seq(Unit)
      BY <1>1, <2>1, SentHead
    <3>2. Piece(Head(todo), c) = << >>
      BY <2>1 DEF Piece
    <3>. QED
      BY <3>1, <3>2, CatType
  <2>. QED
    BY <2>1
<1>. QED
  BY <1>2, <1>3 DEF Queued

LEMMA FreshStill ==
  ASSUME NoneNew, \A c \in Conn : fdOf'[c] = 0 => fdOf[c] = 0
  PROVE  \A c \in Conn : Fresh(c)' => Fresh(c)
  BY DEF NoneNew, Fresh, Waiting

(* The lists stay well-formed. *)
LEMMA CarriedStill ==
  ASSUME Carried,
         \/ gConnectQue' = gConnectQue
         \/ gConnectQue # << >> /\ gConnectQue' = Tail(gConnectQue)
         \/ \E c \in Called : gConnectQue' = Append(gConnectQue, c),
         gSndBufq' = gSndBufq \/ \E b \in Cargo : gSndBufq' = Append(gSndBufq, b),
         todo' = todo \/ (todo # << >> /\ todo' = Tail(todo))
  PROVE  Carried'
<1>1. gConnectQue' \in Seq(Called)
  <2>1. ASSUME NEW c \in Called, gConnectQue' = Append(gConnectQue, c) PROVE gConnectQue' \in Seq(Called)
    BY <2>1 DEF Carried
  <2>. QED
    BY <2>1, TailAt DEF Carried
<1>2. gSndBufq' \in Seq(Cargo)
  <2>1. ASSUME NEW b \in Cargo, gSndBufq' = Append(gSndBufq, b) PROVE gSndBufq' \in Seq(Cargo)
    BY <2>1 DEF Carried
  <2>. QED
    BY <2>1 DEF Carried
<1>3. todo' \in Seq(Cargo)
  BY TailAt DEF Carried
<1>. QED
  BY <1>1, <1>2, <1>3 DEF Carried

(* The lists of a session stay lists of units when they stay the same or   *)
(* are wiped.                                                              *)
LEMMA HeldStill ==
  ASSUME Held, wire' = wire,
         \A f \in Fd : \/ sess'[f].bufw = << >> /\ sess'[f].bufwq = << >>
                       \/ sess'[f].bufw = sess[f].bufw /\ sess'[f].bufwq = sess[f].bufwq
  PROVE  Held'
<1>1. << >> \in Seq(Unit)
  OBVIOUS
<1>2. << >> \in Seq(Seq(Unit))
  OBVIOUS
<1>3. ASSUME NEW f \in Fd PROVE sess'[f].bufw \in Seq(Unit) /\ sess'[f].bufwq \in Seq(Seq(Unit))
  <2>1. CASE sess'[f].bufw = << >> /\ sess'[f].bufwq = << >>
    BY <1>1, <1>2, <2>1
  <2>2. CASE sess'[f].bufw = sess[f].bufw /\ sess'[f].bufwq = sess[f].bufwq
    BY <2>2 DEF Held
  <2>. QED
    BY <2>1, <2>2
<1>. QED
  BY <1>3 DEF Held

Sending == Carried /\ Held /\ \A c \in Conn : Sends(c)

(* The same of all connections.                                            *)
LEMMA MuteSending ==
  ASSUME 0 \notin Conn, Inv, Inv', Mute, Sending, Carried',
         \A c \in Conn : (Fresh(c)' => Fresh(c)) /\ Queued(c)' = Queued(c)
  PROVE  Sending'
<1>1. Held'
  BY HeldStill DEF Sending, Mute
<1>2. \A c \in Conn : Sends(c)'
  BY MuteSends DEF Sending
<1>. QED
  BY <1>1, <1>2 DEF Sending

(* Steps after which the lists carry what they did. *)
LEMMA ListsSending ==
  ASSUME 0 \notin Conn, Inv, Inv', Mute, Sending, NoneNew, gConnectQue' = gConnectQue, gSndBufq' = gSndBufq,
         todo' = todo \/ (todo # << >> /\ todo' = Tail(todo) /\ \A c \in Conn : Head(todo).sid # c)
  PROVE  Sending'
<1>1. Carried'
  BY CarriedStill DEF Sending
<1>2. \A c \in Conn : fdOf'[c] = 0 => fdOf[c] = 0
  BY DEF Mute
<1>3. \A c \in Conn : Queued(c)' = Queued(c)
  BY QueuedStill
<1>. QED
  BY <1>1, <1>2, <1>3, FreshStill, MuteSending

(* A session that is closed leaves the line of every other alone.          *)
LEMMA ClosedMute ==
  ASSUME Inv, NEW f \in Fd, NEW s, close_session(f, s), fdOf' = fdOf, wire' = wire, out' = out
  PROVE  Mute
<1>1. Wiped(s).sid = 0 /\ Wiped(s).bufw = << >> /\ Wiped(s).bufwq = << >>
  BY DEF Wiped, Free
<1>. QED
  BY <1>1 DEF close_session, Mute, Inv, Types

(* Steps that leave the way to the wire alone.                             *)
LEMMA QuietSending ==
  ASSUME 0 \notin Conn, Inv, Inv', Sending, NEW c \in Conn,
         on_tick \/ recv_bufq \/ PeerCloses(c) \/ (\E size \in Size : PeerSends(c, size)) \/ UNCHANGED vars
  PROVE  Sending'
<1>1. sess' = sess /\ fdOf' = fdOf /\ wire' = wire /\ out' = out /\ SameLists
  BY DEF on_tick, recv_bufq, PeerCloses, PeerSends, vars, net, kernel, ghost, SameLists
<1>2. Mute
  BY <1>1 DEF Mute
<1>. QED
  BY <1>1, <1>2, SameNone, ListsSending DEF SameLists

(* A session that fails is closed.                                         *)
LEMMA FailSending ==
  ASSUME 0 \notin Conn, Inv, Inv', Sending, NEW f \in Fd, ReadFails(f) \/ WriteFails(f)
  PROVE  Sending'
<1>1. PICK s : close_session(f, s)
  BY DEF ReadFails, WriteFails
<1>2. fdOf' = fdOf /\ wire' = wire /\ out' = out /\ SameLists
  BY DEF ReadFails, WriteFails, ghost, SameLists
<1>3. Mute
  BY <1>1, <1>2, ClosedMute
<1>. QED
  BY <1>2, <1>3, SameNone, ListsSending DEF SameLists

(* A read touches nothing of what is to be written.                        *)
LEMMA ReadSending ==
  ASSUME 0 \notin Conn, Inv, Inv', Sending, NEW f \in Fd, NEW n, common_read(f, n)
  PROVE  Sending'
<1>. DEFINE s == sess[f]
            buf == s.bufr \o SubSeq(inq[s.sid], 1, n)
            left == IF Whole(buf) > 0 THEN Rest(buf, Whole(buf)) ELSE buf
            room == IF Whole(buf) > 0 THEN Max({Room, Len(buf) - Whole(buf)}) ELSE Grown(buf, s.cap)
<1>1. fdOf' = fdOf /\ wire' = wire /\ out' = out /\ SameLists
  BY DEF common_read, ghost, SameLists
<1>2. close_session(f, s) \/ sess' = [sess EXCEPT ![f].bufr = left, ![f].cap = room]
  BY DEF common_read
<1>. HIDE DEF left, room
<1>3. Mute
  <2>1. CASE close_session(f, s)
    BY <1>1, <2>1, ClosedMute
  <2>2. CASE sess' = [sess EXCEPT ![f].bufr = left, ![f].cap = room]
    <3>1. DOMAIN sess = Fd /\ DOMAIN sess[f] = Fields
      BY DEF Inv, Types
    <3>2. \A g \in Fd : /\ sess'[g].sid = sess[g].sid /\ sess'[g].state = sess[g].state
                        /\ sess'[g].bufw = sess[g].bufw /\ sess'[g].bufwq = sess[g].bufwq
      BY <2>2, <3>1 DEF Fields
    <3>. QED
      BY <1>1, <3>2 DEF Mute
  <2>. QED
    BY <1>2, <2>1, <2>2
<1>. QED
  BY <1>1, <1>3, SameNone, ListsSending DEF SameLists

(* The list of the game becomes the list of the event thread.              *)
LEMMA TakeSending ==
  ASSUME 0 \notin Conn, Inv, Inv', Sending, TakeSndBufq
  PROVE  Sending'
<1>1. /\ sess' = sess /\ fdOf' = fdOf /\ wire' = wire /\ out' = out /\ gConnectQue' = gConnectQue
      /\ todo = << >> /\ todo' = gSndBufq /\ gSndBufq' = << >>
  BY DEF TakeSndBufq, kernel, ghost, Inv, Types
<1>2. Mute
  BY <1>1 DEF Mute
<1>3. Carried'
  <2>1. << >> \in Seq(Cargo)
    OBVIOUS
  <2>. QED
    BY <1>1, <2>1 DEF Sending, Carried
<1>4. ASSUME NEW c \in Conn PROVE Queued(c)' = Queued(c)
  <2>1. Queued(c)' = Sent(gSndBufq, c) \o Sent(<< >>, c) /\ Queued(c) = Sent(<< >>, c) \o Sent(gSndBufq, c)
    BY <1>1 DEF Queued
  <2>2. Sent(gSndBufq, c) \in Seq(Unit)
    BY QueuedType
  <2>. QED
    BY <2>1, <2>2, SentEmpty, CatType
<1>5. \A c \in Conn : Fresh(c)' => Fresh(c)
  BY <1>1, TakeStep, FreshStill
<1>. QED
  BY <1>2, <1>3, <1>4, <1>5, MuteSending

(* The connecter takes one connection and may announce it.                 *)
LEMMA ConnectorSending ==
  ASSUME 0 \notin Conn, Called \subseteq Conn, Inv, Inv', Sending, ConnectDone \/ ConnectFails
  PROVE  Sending'
<1>1. /\ sess' = sess /\ fdOf' = fdOf /\ wire' = wire /\ out' = out /\ todo' = todo
      /\ gConnectQue # << >> /\ gConnectQue' = Tail(gConnectQue)
  BY DEF ConnectDone, ConnectFails, kernel, ghost
<1>2. Mute
  BY <1>1 DEF Mute
<1>3. \A c \in Conn : Fresh(c)' => Fresh(c)
  BY <1>1, ConnectorStep, FreshStill
<1>4. CASE ConnectDone
  <2>. DEFINE b == [sid |-> 0, cmd |-> "income", arg |-> Head(gConnectQue), seed |-> FALSE]
  <2>1. Head(gConnectQue) \in Called
    BY <1>1, TailAt DEF Sending, Carried
  <2>2. b \in Buf /\ b.sid = 0
    BY <2>1 DEF Buf
  <2>3. b \in Cargo
    BY <2>1, <2>2 DEF Cargo
  <2>4. gSndBufq' = Append(gSndBufq, b)
    BY <1>4 DEF ConnectDone
  <2>. HIDE DEF b
  <2>5. Carried'
    BY <1>1, <2>3, <2>4, CarriedStill DEF Sending
  <2>6. \A c \in Conn : Queued(c)' = Queued(c)
    BY <1>1, <2>2, <2>4, QueuedStill
  <2>. QED
    BY <1>2, <1>3, <2>5, <2>6, MuteSending
<1>5. CASE ConnectFails
  <2>1. gSndBufq' = gSndBufq
    BY <1>5 DEF ConnectFails
  <2>2. Carried'
    BY <1>1, <2>1, CarriedStill DEF Sending
  <2>3. \A c \in Conn : Queued(c)' = Queued(c)
    BY <1>1, <2>1, QueuedStill
  <2>. QED
    BY <1>2, <1>3, <2>2, <2>3, MuteSending
<1>. QED
  BY <1>4, <1>5

(* A new connection has nothing on its line.                               *)
LEMMA MadeSending ==
  ASSUME 0 \notin Conn, 0 \notin Fd, Inv, Inv', Sending, NEW c \in Conn, accept_callback(c) \/ connect_to(c)
  PROVE  Sending'
<1>1. /\ sess' = sess /\ wire' = wire /\ out' = out /\ todo' = todo
      /\ \E f \in Fd : makesid(c, f)
  BY DEF accept_callback, connect_to, ghost
<1>2. fdOf[c] = 0 /\ \A d \in Conn : d # c => fdOf'[d] = fdOf[d]
  BY <1>1 DEF makesid, Inv, Types
<1>3. Mute
  BY <1>1, <1>2 DEF Mute
<1>4. \A l, i, d : At(l, i, d)' => At(l, i, d) \/ d = c
  BY AcceptStep, ConnectStep
<1>5. ASSUME NEW d \in Conn, Fresh(d)' PROVE Fresh(d)
  BY <1>2, <1>4, <1>5 DEF Fresh, Waiting
<1>6. CASE accept_callback(c)
  <2>. DEFINE b == [sid |-> 0, cmd |-> "income", arg |-> c, seed |-> TRUE]
  <2>1. c \notin Called /\ gSndBufq' = Append(gSndBufq, b) /\ gConnectQue' = gConnectQue
    BY <1>6 DEF accept_callback
  <2>2. b \in Buf /\ b.sid = 0
    BY DEF Buf
  <2>3. b \in Cargo
    BY <2>1, <2>2 DEF Cargo
  <2>. HIDE DEF b
  <2>4. Carried'
    BY <1>1, <2>1, <2>3, CarriedStill DEF Sending
  <2>5. \A d \in Conn : Queued(d)' = Queued(d)
    BY <1>1, <2>1, <2>2, QueuedStill
  <2>. QED
    BY <1>3, <1>5, <2>4, <2>5, MuteSending
<1>7. CASE connect_to(c)
  <2>1. c \in Called /\ gSndBufq' = gSndBufq /\ gConnectQue' = Append(gConnectQue, c)
    BY <1>7 DEF connect_to
  <2>2. Carried'
    BY <1>1, <2>1, CarriedStill DEF Sending
  <2>3. \A d \in Conn : Queued(d)' = Queued(d)
    BY <1>1, <2>1, QueuedStill
  <2>. QED
    BY <1>3, <1>5, <2>2, <2>3, MuteSending
<1>. QED
  BY <1>6, <1>7

(* Sequences can be joined in any grouping.  Glue hides \o, of which the   *)
(* solver knows too much.                                                  *)
Glue(x, y) == x \o y
Glues(T) ==
  /\ \A x, y \in T : Glue(x, y) \in T
  /\ \A x, y, z \in T : Glue(Glue(x, y), z) = Glue(x, Glue(y, z))

(* Sequences are closed under Glue, which is associative.                  *)
LEMMA SeqGlues == \A S : Glues(Seq(S))
<1>. SUFFICES ASSUME NEW S PROVE Glues(Seq(S))
  OBVIOUS
<1>1. (\A x, y, z \in Seq(S) : (x \o y) \o z = x \o (y \o z)) /\ \A x, y \in Seq(S) : x \o y \in Seq(S)
  OBVIOUS
<1>. QED
  BY <1>1 DEF Glues, Glue

(* One more at the far end.                                                *)
LEMMA GlueEnd ==
  ASSUME NEW T, Glues(T), NEW a \in T, NEW b \in T, NEW p \in T, NEW q \in T, NEW u \in T
  PROVE  Glue(a, Glue(b, Glue(p, Glue(q, u)))) = Glue(Glue(a, Glue(b, Glue(p, q))), u)
<1>1. Glue(p, Glue(q, u)) = Glue(Glue(p, q), u) /\ Glue(p, q) \in T
  BY DEF Glues
<1>2. Glue(b, Glue(Glue(p, q), u)) = Glue(Glue(b, Glue(p, q)), u) /\ Glue(b, Glue(p, q)) \in T
  BY <1>1 DEF Glues
<1>3. Glue(a, Glue(Glue(b, Glue(p, q)), u)) = Glue(Glue(a, Glue(b, Glue(p, q))), u)
  BY <1>2 DEF Glues
<1>. QED
  BY <1>1, <1>2, <1>3

(* One more in the middle, as a list is moved into a session.              *)
LEMMA GlueMiddle ==
  ASSUME NEW T, Glues(T), NEW a \in T, NEW b \in T, NEW p \in T, NEW q \in T, NEW u \in T
  PROVE  Glue(Glue(a, Glue(b, u)), Glue(p, q)) = Glue(Glue(a, b), Glue(Glue(u, p), q))
<1>1. Glue(a, Glue(b, u)) = Glue(Glue(a, b), u) /\ Glue(a, b) \in T /\ Glue(p, q) \in T
  BY DEF Glues
<1>2. Glue(Glue(u, p), q) = Glue(u, Glue(p, q))
  BY DEF Glues
<1>3. Glue(Glue(Glue(a, b), u), Glue(p, q)) = Glue(Glue(a, b), Glue(u, Glue(p, q)))
  BY <1>1 DEF Glues
<1>. QED
  BY <1>1, <1>2, <1>3

(* The front is moved to the wire.                                         *)
LEMMA GlueWritten ==
  ASSUME NEW T, Glues(T), NEW a \in T, NEW b \in T, NEW p \in T, NEW q \in T, NEW u \in T
  PROVE  Glue(Glue(a, b), Glue(Glue(p, q), u)) = Glue(a, Glue(Glue(Glue(b, p), q), u))
<1>1. Glue(Glue(b, p), q) = Glue(b, Glue(p, q)) /\ Glue(p, q) \in T
  BY DEF Glues
<1>2. Glue(Glue(b, Glue(p, q)), u) = Glue(b, Glue(Glue(p, q), u)) /\ Glue(Glue(p, q), u) \in T
  BY <1>1 DEF Glues
<1>3. Glue(Glue(a, b), Glue(Glue(p, q), u)) = Glue(a, Glue(b, Glue(Glue(p, q), u)))
  BY <1>2 DEF Glues
<1>. QED
  BY <1>1, <1>2, <1>3

(* The groupings the steps below need. *)
JoinsEnd(a, b, p, q, u) == a \o (b \o (p \o (q \o u))) = (a \o (b \o (p \o q))) \o u
JoinsMiddle(a, b, p, q, u) == (a \o (b \o u)) \o (p \o q) = (a \o b) \o ((u \o p) \o q)
JoinsWritten(a, b, p, q, u) == (a \o b) \o ((p \o q) \o u) = a \o (((b \o p) \o q) \o u)

(* The three of them for sequences of units.                               *)
LEMMA Regrouping ==
  ASSUME NEW a \in Seq(Unit), NEW b \in Seq(Unit), NEW p \in Seq(Unit), NEW q \in Seq(Unit),
         NEW u \in Seq(Unit)
  PROVE  JoinsEnd(a, b, p, q, u) /\ JoinsMiddle(a, b, p, q, u) /\ JoinsWritten(a, b, p, q, u)
<1>1. Glue(a, Glue(b, Glue(p, Glue(q, u)))) = Glue(Glue(a, Glue(b, Glue(p, q))), u)
  BY SeqGlues, GlueEnd
<1>2. Glue(Glue(a, Glue(b, u)), Glue(p, q)) = Glue(Glue(a, b), Glue(Glue(u, p), q))
  BY SeqGlues, GlueMiddle
<1>3. Glue(Glue(a, b), Glue(Glue(p, q), u)) = Glue(a, Glue(Glue(Glue(b, p), q), u))
  BY SeqGlues, GlueWritten
<1>. QED
  BY <1>1, <1>2, <1>3, Zenon DEF Glue, JoinsEnd, JoinsMiddle, JoinsWritten

LEMMA Regroup ==
  ASSUME NEW x \in Seq(Unit), NEW y \in Seq(Unit), NEW z \in Seq(Unit)
  PROVE  (x \o y) \o z = x \o (y \o z)
  OBVIOUS

(* A buffer or a close that Lua asks for goes to the end of the line.      *)
LEMMA LuaSending ==
  ASSUME 0 \notin Conn, Inv, Inv', Sending, NEW c \in Conn, send_buf(c) \/ disconnect(c)
  PROVE  Sending'
<1>1. sess' = sess /\ fdOf' = fdOf /\ wire' = wire /\ todo' = todo /\ gConnectQue' = gConnectQue
  BY DEF send_buf, disconnect, kernel
<1>2. NoneNew
  BY LuaStep
<1>3. \A d \in Conn : Fresh(d)' => Fresh(d)
  BY <1>1, <1>2, FreshStill
<1>4. CASE disconnect(c)
  <2>. DEFINE b == [sid |-> 0, cmd |-> "close", arg |-> c]
  <2>1. gSndBufq' = Append(gSndBufq, b) /\ out' = out
    BY <1>4 DEF disconnect
  <2>2. b \in Buf /\ b.sid = 0 /\ ~Income(b)
    BY DEF Buf, Income
  <2>3. b \in Cargo
    BY <2>2 DEF Cargo
  <2>. HIDE DEF b
  <2>4. Mute
    BY <1>1, <2>1 DEF Mute
  <2>5. Carried'
    BY <1>1, <2>1, <2>3, CarriedStill DEF Sending
  <2>6. \A d \in Conn : Queued(d)' = Queued(d)
    BY <1>1, <2>1, <2>2, QueuedStill
  <2>. QED
    BY <1>3, <2>4, <2>5, <2>6, MuteSending
<1>5. CASE send_buf(c)
  <2>1. PICK n \in Nat : n = out[c]
    BY DEF Inv, Types
  <2>2. out'[c] = n + 1 /\ \A d \in Conn : d # c => out'[d] = out[d]
    BY <1>5, <2>1 DEF send_buf, Inv, Types
  <2>3. PICK u \in Seq(Unit) : u = Units(n + 1, 2)
    BY BufferIs, n + 1 \in Nat
  <2>. DEFINE b == [sid |-> c, arg |-> u]
  <2>4. gSndBufq' = Append(gSndBufq, b)
    BY <1>5, <2>2, <2>3 DEF send_buf
  <2>5. b \in Buf /\ b.sid = c /\ c # 0 /\ b.arg = u
    BY DEF Buf
  <2>6. b \in Cargo
    <3>1. n + 1 \in Nat \ {0}
      OBVIOUS
    <3>. QED
      BY <2>3, <2>5, <3>1 DEF Cargo, Income
  <2>. HIDE DEF b
  <2>7. Carried'
    BY <1>1, <2>4, <2>6, CarriedStill DEF Sending
  <2>8. Held'
    BY <1>1, HeldStill DEF Sending
  <2>9. \A d \in Conn : (Session(d)' <=> Session(d)) /\ Unsent(d)' = Unsent(d)
    BY <1>1 DEF Session, Unsent
  <2>10. ASSUME NEW d \in Conn, d # c PROVE Sends(d)'
    <3>1. Queued(d)' = Queued(d)
      BY <1>1, <2>4, <2>5, <2>10, QueuedStill
    <3>2. Session(d)' => (sess'[fdOf'[d]].state = "seed" <=> wire[d] = << >> /\ d \notin Called)
      BY <1>1, <2>9 DEF Sending, Sends
    <3>. QED
      BY <1>1, <1>3, <2>2, <2>9, <2>10, <3>1, <3>2, LineStill DEF Sending
  <2>11. Sends(c)'
    <3>0. Sends(c) /\ Held
      BY DEF Sending
    <3>1. WireInOrder(c)'
      <4>1. ASSUME NEW j \in DOMAIN wire[c], wire[c][j].of # 0 PROVE wire[c][j].of <= n + 1
        <5>1. wire[c] \in Seq(Unit)
          BY <3>0 DEF Held
        <5>2. j \in 1..Len(wire[c])
          BY <5>1
        <5>3. wire[c][j].of \in Nat
          BY <5>1, <5>2, UnitIs
        <5>4. wire[c][j].of <= n
          BY <2>1, <3>0, <4>1 DEF Sends, WireInOrder
        <5>. QED
          BY <5>3, <5>4
      <4>. QED
        BY <1>1, <2>2, <3>0, <4>1 DEF Sends, WireInOrder
    <3>2. Fresh(c)' => wire'[c] = << >>
      BY <1>1, <1>3, <3>0 DEF Sends
    <3>3. Session(c)' => (sess'[fdOf'[c]].state = "seed" <=> wire'[c] = << >> /\ c \notin Called)
      BY <1>1, <2>9, <3>0 DEF Sends
    <3>4. ASSUME Fresh(c)' \/ Session(c)' PROVE Ordered(c, n + 1, Line(c)')
      <4>1. Ordered(c, n, Line(c))
        BY <1>3, <2>1, <2>9, <3>0, <3>4 DEF Sends
      <4>2. PICK w \in Seq(Unit), x \in Seq(Unit) : w = Written(c) /\ x = Unsent(c)
        BY <3>0, UnsentType, WrittenType
      <4>3. PICK p \in Seq(Unit), q \in Seq(Unit) : p = Sent(todo, c) /\ q = Sent(gSndBufq, c)
        BY QueuedType
      <4>4. Sent(gSndBufq', c) = q \o u
        <5>1. Sent(gSndBufq', c) = Sent(gSndBufq, c) \o Piece(b, c)
          BY <2>4, <2>5, SentAppend DEF Inv, Types
        <5>. QED
          BY <2>5, <4>3, <5>1 DEF Piece
      <4>5. Line(c) = w \o (x \o (p \o q))
        BY <4>2, <4>3 DEF Line, Queued
      <4>6. Written(c)' = w
        BY <1>1, <4>2 DEF Written
      <4>7. Line(c)' = w \o (x \o (p \o (q \o u)))
        BY <1>1, <2>9, <4>2, <4>3, <4>4, <4>6 DEF Line, Queued
      <4>8. Line(c)' = Line(c) \o u
        <5>1. w \o (x \o (p \o (q \o u))) = (w \o (x \o (p \o q))) \o u
          <6>1. JoinsEnd(w, x, p, q, u)
            BY <4>2, <4>3, <2>3, Regrouping
          <6>. QED
            BY <6>1, Zenon DEF JoinsEnd
        <5>. QED
          BY <4>5, <4>7, <5>1
      <4>9. PICK l \in Seq(Unit) : l = Line(c)
        <5>1. p \o q \in Seq(Unit)
          BY CatType
        <5>2. x \o (p \o q) \in Seq(Unit)
          BY <5>1, CatType
        <5>3. w \o (x \o (p \o q)) \in Seq(Unit)
          BY <5>2, CatType
        <5>. QED
          BY <4>5, <5>3
      <4>10. c \notin Called => l # << >>
        <5>1. c \notin Called => w # << >>
          BY <3>0, <4>2, WrittenType
        <5>2. PICK v \in Seq(Unit) : v = x \o (p \o q)
          <6>1. p \o q \in Seq(Unit)
            BY CatType
          <6>. QED
            BY <6>1, CatType
        <5>3. l = w \o v
          BY <4>5, <4>9, <5>2
        <5>4. w # << >> => w \o v # << >>
          OBVIOUS
        <5>. QED
          BY <5>1, <5>3, <5>4
      <4>11. Ordered(c, n + 1, l \o Units(n + 1, 2))
        BY <4>1, <4>9, <4>10, OrderedGrows
      <4>. QED
        BY <2>3, <4>8, <4>9, <4>11
    <3>. QED
      BY <2>2, <3>1, <3>2, <3>3, <3>4 DEF Sends, Ordered
  <2>. QED
    BY <2>7, <2>8, <2>10, <2>11 DEF Sending
<1>. QED
  BY <1>4, <1>5

(* A new session has sent nothing and holds nothing. *)
LEMMA IncomeSending ==
  ASSUME 0 \notin Conn, Inv, Inv', Sending, Shorter, NoneNew, wire' = wire,
         Income(Head(todo)), AddIncome(Head(todo))
  PROVE  Sending'
<1>. DEFINE b == Head(todo)
            new == [Free EXCEPT !.sid = b.arg, !.state = IF b.seed THEN "seed" ELSE "ok", !.evw = b.seed]
<1>0. Waiting(b.arg) /\ b.arg \in held /\ b.arg \in Conn /\ \A f \in Fd : sess[f].sid # b.arg
  BY ShorterOnce DEF Inv, Types, Waits, Waiting
<1>1. PICK c \in Conn : c = b.arg /\ Waiting(c) /\ c \in held /\ \A f \in Fd : sess[f].sid # c
  BY <1>0
<1>2. fdOf[c] \in Fd /\ sess[fdOf[c]].sid = 0
  BY <1>1 DEF Inv, Types, Open, OwnDescriptor
<1>3. sess' = [sess EXCEPT ![fdOf[c]] = new] /\ fdOf' = fdOf
  BY <1>1 DEF AddIncome, Shorter
<1>4. b \in Cargo /\ b.sid = 0 /\ b.seed = (c \notin Called)
  <2>1. b \in Cargo
    BY TailAt DEF Sending, Carried, Shorter
  <2>. QED
    BY <1>1, <2>1 DEF Cargo, Income
<1>5. /\ new.sid = c /\ new.bufw = << >> /\ new.bufwq = << >>
      /\ new.state = "seed" <=> c \notin Called
  BY <1>1, <1>4 DEF Free
<1>. HIDE DEF new, b
<1>6. /\ sess'[fdOf[c]] = new /\ \A f \in Fd \ {fdOf[c]} : sess'[f] = sess[f]
      /\ out' = out /\ gSndBufq' = gSndBufq /\ gConnectQue' = gConnectQue
      /\ todo # << >> /\ todo' = Tail(todo) /\ \A d \in Conn : Head(todo).sid # d
  BY <1>2, <1>3, <1>4 DEF Inv, Types, Shorter, b
<1>7. Carried'
  BY <1>6, CarriedStill DEF Sending
<1>8. Held'
  BY <1>5, <1>6, HeldStill DEF Sending
<1>9. \A d \in Conn : Queued(d)' = Queued(d)
  BY <1>6, QueuedStill
<1>10. \A d \in Conn : Fresh(d)' => Fresh(d)
  BY <1>3, FreshStill
<1>11. ASSUME NEW d \in Conn, d # c PROVE Sends(d)'
  <2>1. (Session(d)' <=> Session(d)) /\ (Session(d) => sess'[fdOf'[d]] = sess[fdOf[d]])
    <3>1. d # 0 /\ (fdOf[d] # 0 => fdOf[d] \in Fd)
      BY DEF Inv, Types
    <3>2. fdOf[d] = fdOf[c] => ~Session(d) /\ ~Session(d)'
      BY <1>2, <1>3, <1>5, <1>6, <1>11, <3>1 DEF Session
    <3>3. fdOf[d] \in Fd \ {fdOf[c]} => sess'[fdOf[d]] = sess[fdOf[d]]
      BY <1>6
    <3>. QED
      BY <1>3, <3>1, <3>2, <3>3 DEF Session
  <2>2. Unsent(d)' = Unsent(d)
    BY <2>1 DEF Unsent
  <2>3. Session(d)' => (sess'[fdOf'[d]].state = "seed" <=> wire[d] = << >> /\ d \notin Called)
    BY <2>1 DEF Sending, Sends
  <2>. QED
    BY <1>6, <1>9, <1>10, <2>1, <2>2, <2>3, LineStill DEF Sending
<1>12. Sends(c)'
  <2>1. Fresh(c) /\ ~Session(c) /\ wire[c] = << >>
    BY <1>1, <1>2 DEF Fresh, Session, Sending, Sends
  <2>2. Session(c)' /\ sess'[fdOf'[c]] = new
    <3>1. c # 0 /\ fdOf'[c] = fdOf[c] /\ fdOf[c] # 0
      BY <1>1, <1>3 DEF Inv, Types, Open
    <3>. QED
      BY <1>5, <1>6, <3>1 DEF Session
  <2>3. Unsent(c) = << >> /\ Unsent(c)' = << >>
    <3>1. << >> \o << >> = << >>
      OBVIOUS
    <3>2. Unsent(c)' = << >> \o FlattenSeq(<< >>)
      BY <1>5, <2>2 DEF Unsent
    <3>. QED
      BY <2>1, <3>1, <3>2, FlatEmpty DEF Unsent
  <2>. QED
    BY <1>1, <1>5, <1>6, <1>9, <2>1, <2>2, <2>3, LineStill DEF Sending
<1>. QED
  BY <1>7, <1>8, <1>11, <1>12 DEF Sending

(* A buffer reaches its session. *)
Delivers(b) ==
  sess' = [sess EXCEPT ![fdOf[b.sid]].evw = @ \/ Arm(sess[fdOf[b.sid]]),
                       ![fdOf[b.sid]].bufwq = Append(@, b.arg)]

(* A buffer goes from the list to its session, or is dropped with it.      *)
LEMMA BufferSending ==
  ASSUME 0 \notin Conn, Inv, Inv', Sending, Shorter, NoneNew, wire' = wire, NEW b, b = Head(todo),
         b.sid # 0, Session(b.sid), Delivers(b)
  PROVE  Sending'
<1>1. b \in Buf /\ todo # << >> /\ todo' = Tail(todo)
  BY ShorterOnce DEF Shorter
<1>2. PICK c \in Conn : c = b.sid
  BY <1>1 DEF Buf
<1>3. PICK f \in Fd : f = fdOf[c]
  BY <1>2 DEF Session, Inv, Types
<1>4. PICK u \in Seq(Unit) : u = b.arg
  BY <1>1, <1>2 DEF Buf
<1>5. \A g \in Fd : /\ sess'[g].sid = sess[g].sid /\ sess'[g].state = sess[g].state
                    /\ sess'[g].bufw = sess[g].bufw /\ (g # f => sess'[g].bufwq = sess[g].bufwq)
  <2>1. DOMAIN sess = Fd /\ \A g \in Fd : DOMAIN sess[g] = Fields
    BY DEF Inv, Types
  <2>2. sess' = [sess EXCEPT ![f].evw = @ \/ Arm(sess[f]), ![f].bufwq = Append(@, u)]
    BY <1>2, <1>3, <1>4 DEF Delivers
  <2>. QED
    BY <2>1, <2>2 DEF Fields
<1>16. sess'[f].bufwq = Append(sess[f].bufwq, u)
  <2>1. DOMAIN sess = Fd /\ \A g \in Fd : DOMAIN sess[g] = Fields
    BY DEF Inv, Types
  <2>2. sess' = [sess EXCEPT ![f].evw = @ \/ Arm(sess[f]), ![f].bufwq = Append(@, u)]
    BY <1>2, <1>3, <1>4 DEF Delivers
  <2>. QED
    BY <2>1, <2>2 DEF Fields
<1>6. fdOf' = fdOf /\ out' = out /\ gSndBufq' = gSndBufq /\ gConnectQue' = gConnectQue
  BY DEF Shorter
<1>7. Carried'
  BY <1>1, <1>6, CarriedStill DEF Sending
<1>17. Session(c) /\ \A g \in Fd : g # f => sess'[g].bufwq = sess[g].bufwq
  BY <1>2, <1>5
<1>18. \A g \in Fd : sess'[g].sid = sess[g].sid /\ sess'[g].state = sess[g].state /\ sess'[g].bufw = sess[g].bufw
  BY <1>5
<1>8. PICK T : T = Seq(Unit)
  OBVIOUS
<1>9. PICK x \in Seq(T) : x = sess[f].bufwq
  BY <1>8 DEF Sending, Held
<1>10. Held'
  <2>1. Append(x, u) \in Seq(T)
    BY <1>8, <1>9
  <2>2. \A g \in Fd : sess'[g].bufw \in Seq(Unit) /\ (g # f => sess'[g].bufwq \in Seq(Seq(Unit)))
    BY <1>5 DEF Sending, Held
  <2>3. sess'[f].bufwq \in Seq(Seq(Unit))
    <3>1. sess'[f].bufwq = Append(x, u)
      BY <1>9, <1>16
    <3>. QED
      BY <1>8, <2>1, <3>1
  <2>. QED
    BY <2>2, <2>3 DEF Sending, Held
<1>11. \A d \in Conn : Fresh(d)' => Fresh(d)
  BY <1>6, FreshStill
<1>12. \A d \in Conn : /\ Session(d)' <=> Session(d)
                       /\ Session(d) => fdOf[d] \in Fd /\ sess'[fdOf'[d]].state = sess[fdOf[d]].state
  <2>. SUFFICES ASSUME NEW d \in Conn
                PROVE  /\ Session(d)' <=> Session(d)
                       /\ Session(d) => fdOf[d] \in Fd /\ sess'[fdOf'[d]].state = sess[fdOf[d]].state
    OBVIOUS
  <2>1. fdOf[d] # 0 => fdOf[d] \in Fd
    BY DEF Inv, Types
  <2>2. fdOf'[d] = fdOf[d]
    BY <1>6
  <2>3. fdOf[d] \in Fd => sess'[fdOf[d]].sid = sess[fdOf[d]].sid /\ sess'[fdOf[d]].state = sess[fdOf[d]].state
    BY <1>5
  <2>. QED
    BY <2>1, <2>2, <2>3 DEF Session
<1>13. \A d \in Conn : Session(d)' => (sess'[fdOf'[d]].state = "seed" <=> wire[d] = << >> /\ d \notin Called)
  BY <1>12 DEF Sending, Sends
<1>14. ASSUME NEW d \in Conn, d # c PROVE Sends(d)'
  <2>1. Queued(d)' = Queued(d)
    BY <1>1, <1>2, <1>6, <1>14, QueuedStill
  <2>2. Unsent(d)' = Unsent(d)
    <3>1. Session(d) => fdOf[d] # f
      BY <1>2, <1>3, <1>14 DEF Session
    <3>2. Session(d) => /\ fdOf'[d] = fdOf[d] /\ sess'[fdOf[d]].bufw = sess[fdOf[d]].bufw
                        /\ sess'[fdOf[d]].bufwq = sess[fdOf[d]].bufwq
      BY <1>5, <1>6, <1>12, <3>1
    <3>3. Session(d)' <=> Session(d)
      BY <1>12
    <3>. QED
      BY <3>2, <3>3 DEF Unsent
  <2>. QED
    BY <1>6, <1>11, <1>12, <1>13, <2>1, <2>2, LineStill DEF Sending
<1>15. Sends(c)'
  <2>1. Session(c)
    BY <1>2
  <2>2. PICK a \in Seq(Unit) : a = sess[f].bufw
    BY DEF Sending, Held
  <2>3. PICK y \in Seq(Unit) : y = FlattenSeq(x)
    <3>1. FlattenSeq(x) \in Seq(Unit)
      BY <1>8, <1>4, FlatAppend
    <3>. QED
      BY <3>1
  <2>4. FlattenSeq(Append(x, u)) = y \o u
    BY <1>8, <2>3, FlatAppend
  <2>5. PICK p \in Seq(Unit), q \in Seq(Unit) : p = Sent(todo', c) /\ q = Sent(gSndBufq, c)
    <3>1. Sent(Tail(todo), c) \in Seq(Unit) /\ Sent(gSndBufq, c) \in Seq(Unit)
      BY <1>1, SentHead, QueuedType DEF Inv, Types
    <3>. QED
      BY <1>1, <3>1
  <2>6. Sent(todo, c) = u \o p
    <3>1. Sent(todo, c) = Piece(b, c) \o Sent(Tail(todo), c)
      BY <1>1, SentHead DEF Inv, Types
    <3>. QED
      BY <1>1, <1>2, <1>4, <2>5, <3>1 DEF Piece
  <2>7. Unsent(c) = a \o y /\ Queued(c) = (u \o p) \o q
    BY <1>3, <1>9, <2>1, <2>2, <2>3, <2>5, <2>6 DEF Unsent, Queued
  <2>8. Unsent(c)' = a \o (y \o u) /\ Queued(c)' = p \o q
    <3>1. Session(c)' /\ fdOf'[c] = f /\ sess'[f].bufw = a
      BY <1>3, <1>5, <1>6, <1>12, <2>1, <2>2
    <3>2. sess'[f].bufwq = Append(x, u)
      BY <1>9, <1>16
    <3>3. Unsent(c)' = a \o FlattenSeq(Append(x, u))
      BY <3>1, <3>2 DEF Unsent
    <3>4. Queued(c)' = p \o q
      BY <1>6, <2>5 DEF Queued
    <3>. QED
      BY <2>4, <3>3, <3>4
  <2>9. (a \o (y \o u)) \o (p \o q) = (a \o y) \o ((u \o p) \o q)
    <3>1. JoinsMiddle(a, y, p, q, u)
      BY <1>4, <2>2, <2>3, <2>5, Regrouping
    <3>. QED
      BY <3>1, Zenon DEF JoinsMiddle
  <2>10. Unsent(c)' \o Queued(c)' = Unsent(c) \o Queued(c)
    BY <2>7, <2>8, <2>9
  <2>. QED
    BY <1>6, <1>11, <1>12, <1>13, <2>1, <2>10, LineStill DEF Sending
<1>. QED
  BY <1>7, <1>10, <1>14, <1>15 DEF Sending

(* A buffer finds no session: it is passed over. *)
LEMMA PassSending ==
  ASSUME 0 \notin Conn, Inv, Inv', Sending, Shorter, NoneNew, wire' = wire, sess' = sess,
         NEW c \in Conn, c = Head(todo).sid, ~Session(c)
  PROVE  Sending'
<1>. DEFINE b == Head(todo)
<1>1. b \in Buf /\ todo # << >> /\ todo' = Tail(todo)
  BY ShorterOnce DEF Shorter
<1>2. fdOf' = fdOf /\ out' = out /\ gSndBufq' = gSndBufq /\ gConnectQue' = gConnectQue
  BY DEF Shorter
<1>3. Carried' /\ Held'
  BY <1>1, <1>2, CarriedStill, HeldStill DEF Sending
<1>4. \A d \in Conn : Fresh(d)' => Fresh(d)
  BY <1>2, FreshStill
<1>5. \A d \in Conn : /\ Session(d)' <=> Session(d)
                      /\ Unsent(d)' = Unsent(d) /\ Written(d)' = Written(d)
                      /\ Session(d)' => (sess'[fdOf'[d]].state = "seed" <=> wire[d] = << >> /\ d \notin Called)
  BY <1>2 DEF Session, Unsent, Written, Sending, Sends
<1>6. ASSUME NEW d \in Conn, d # c PROVE Sends(d)'
  <2>1. Queued(d)' = Queued(d)
    BY <1>1, <1>2, <1>6, QueuedStill
  <2>. QED
    BY <1>2, <1>4, <1>5, <2>1, LineStill DEF Sending
<1>7. Sends(c)'
  <2>0. Sends(c) /\ Held /\ Carried
    BY DEF Sending
  <2>1. WireInOrder(c)'
    BY <1>2, <2>0 DEF Sends, WireInOrder
  <2>2. ASSUME Fresh(c) PROVE Ordered(c, out[c], Line(c)')
    <3>1. wire[c] = << >> /\ Ordered(c, out[c], Line(c)) /\ Unsent(c) = << >>
      BY <2>0, <2>2 DEF Sends, Unsent
    <3>2. PICK n \in Nat : n = out[c]
      BY DEF Inv, Types
    <3>3. PICK k \in Nat \ {0} : b.arg = Units(k, 2)
      <4>1. b \in Cargo
        BY <1>1, <2>0, TailAt DEF Carried
      <4>. QED
        BY <4>1 DEF Cargo
    <3>4. PICK u \in Seq(Unit) : u = Units(k, 2)
      BY BufferIs
    <3>5. PICK p \in Seq(Unit), q \in Seq(Unit) : p = Sent(todo', c) /\ q = Sent(gSndBufq, c)
      <4>1. Sent(Tail(todo), c) \in Seq(Unit) /\ Sent(gSndBufq, c) \in Seq(Unit)
        BY <1>1, SentHead, QueuedType DEF Inv, Types
      <4>. QED
        BY <1>1, <4>1
    <3>6. Sent(todo, c) = u \o p
      <4>1. Sent(todo, c) = Piece(b, c) \o Sent(Tail(todo), c)
        BY <1>1, SentHead DEF Inv, Types
      <4>. QED
        BY <1>1, <3>3, <3>4, <3>5, <4>1 DEF Piece
    <3>7. PICK s \in Seq(Unit) : s = Written(c) /\ IF c \in Called THEN s = << >> ELSE s = Units(0, 1)
      BY <2>0, <3>1, WrittenType DEF Written
    <3>8. PICK r \in Seq(Unit) : r = p \o q
      BY CatType
    <3>9. Queued(c) = u \o r
      <4>1. (u \o p) \o q = u \o (p \o q)
        BY Regroup, Zenon
      <4>. QED
        BY <3>5, <3>6, <3>8, <4>1 DEF Queued
    <3>10. Queued(c)' = r
      BY <1>2, <3>5, <3>8 DEF Queued
    <3>11. u \o r \in Seq(Unit) /\ << >> \o (u \o r) = u \o r /\ << >> \o r = r
      <4>1. u \o r \in Seq(Unit)
        BY CatType
      <4>. QED
        BY <4>1, CatType
    <3>12. Line(c) = s \o (u \o r) /\ Line(c)' = s \o r
      BY <1>5, <3>1, <3>7, <3>9, <3>10, <3>11 DEF Line
    <3>13. Ordered(c, n, s \o (Units(k, 2) \o r))
      BY <3>1, <3>2, <3>4, <3>12
    <3>14. Ordered(c, n, s \o r)
      BY <3>7, <3>13, OrderedDrops
    <3>. QED
      BY <3>2, <3>12, <3>14
  <2>. QED
    BY <1>2, <1>4, <1>5, <2>0, <2>1, <2>2 DEF Sends, Ordered
<1>. QED
  BY <1>3, <1>6, <1>7 DEF Sending

(* The event thread takes one entry of the list.                           *)
LEMMA HandleSending ==
  ASSUME 0 \notin Conn, Inv, Inv', Sending, HandleBuf
  PROVE  Sending'
<1>. DEFINE b == Head(todo)
<1>1. Shorter /\ wire' = wire
  BY DEF HandleBuf, Shorter, Inv, Types, ghost
<1>2. NoneNew /\ b \in Buf
  BY <1>1, ShorterOnce DEF NoneNew
<1>3. fdOf' = fdOf /\ out' = out /\ gSndBufq' = gSndBufq /\ gConnectQue' = gConnectQue
      /\ todo # << >> /\ todo' = Tail(todo)
  BY <1>1 DEF Shorter
<1>4. CASE b.sid # 0 /\ Session(b.sid)
           /\ sess' = [sess EXCEPT ![fdOf[b.sid]].evw = @ \/ Arm(sess[fdOf[b.sid]]),
                                   ![fdOf[b.sid]].bufwq = Append(@, b.arg)]
           /\ UNCHANGED <<held, gRcvBufqTmp>>
  BY <1>1, <1>2, <1>4, BufferSending DEF Delivers
<1>5. CASE b.sid = 0 /\ b.cmd = "income" /\ AddIncome(b)
  BY <1>1, <1>2, <1>5, IncomeSending DEF Income
<1>6. CASE b.sid = 0 /\ b.cmd = "close" /\ Session(b.arg) /\ close_session(fdOf[b.arg], sess[fdOf[b.arg]])
  <2>1. fdOf[b.arg] \in Fd
    <3>1. b.arg \in Conn
      BY <1>2, <1>6 DEF Buf
    <3>. QED
      BY <1>6, <3>1 DEF Session, Inv, Types
  <2>2. Mute
    BY <1>1, <1>3, <1>6, <2>1, ClosedMute
  <2>. QED
    BY <1>2, <1>3, <1>6, <2>2, ListsSending
<1>7. CASE /\ IF b.sid = 0 THEN b.cmd = "close" /\ ~Session(b.arg) ELSE ~Session(b.sid)
           /\ UNCHANGED <<sess, held, gRcvBufqTmp>>
  <2>1. CASE b.sid = 0
    <3>1. Mute
      BY <1>1, <1>3, <1>7 DEF Mute
    <3>. QED
      BY <1>2, <1>3, <2>1, <3>1, ListsSending
  <2>2. CASE b.sid # 0
    <3>1. b.sid \in Conn
      BY <1>2, <2>2 DEF Buf
    <3>. QED
      BY <1>1, <1>2, <1>7, <2>2, <3>1, PassSending
  <2>. QED
    BY <2>1, <2>2
<1>. QED
  BY <1>4, <1>5, <1>6, <1>7 DEF HandleBuf

(* What a write takes, x, and leaves, y: together what the session had. *)
Splits(w, wq, T, buf, n, rest) ==
  /\ SubSeq(buf, 1, n) \in Seq(Unit) /\ SubSeq(buf, n + 1, Len(buf)) \in Seq(Unit)
  /\ rest \in Seq(T) /\ FlattenSeq(rest) \in Seq(Unit)
  /\ w \o FlattenSeq(wq) = (SubSeq(buf, 1, n) \o SubSeq(buf, n + 1, Len(buf))) \o FlattenSeq(rest)

(* A write splits what a session has into what it takes and what it        *)
(* leaves.                                                                 *)
LEMMA WriteSplits ==
  ASSUME NEW w \in Seq(Unit), NEW T, T = Seq(Unit), NEW wq \in Seq(T), NEW buf, NEW n, NEW rest,
         buf = IF w # << >> THEN w ELSE IF wq # << >> THEN Head(wq) ELSE << >>,
         n \in 0..Len(buf),
         rest = IF w = << >> /\ wq # << >> THEN Tail(wq) ELSE wq
  PROVE  Splits(w, wq, T, buf, n, rest)
<1>0. PICK e \in Seq(Unit) : e = << >>
  <2>1. << >> \in Seq(Unit)
    OBVIOUS
  <2>. QED
    BY <2>1, Zenon
<1>1. buf \in Seq(Unit) /\ rest \in Seq(T)
  BY <1>0, FlatHead
<1>2. FlattenSeq(rest) \in Seq(Unit) /\ FlattenSeq(wq) \in Seq(Unit)
  BY <1>0, <1>1, FlatAppend
<1>3. w \o FlattenSeq(wq) = buf \o FlattenSeq(rest)
  <2>1. CASE w # << >>
    BY <2>1
  <2>2. CASE w = << >> /\ wq # << >>
    <3>1. FlattenSeq(wq) = buf \o FlattenSeq(rest)
      BY <2>2, FlatHead
    <3>. QED
      BY <1>2, <2>2, <3>1, CatType
  <2>3. CASE w = << >> /\ wq = << >>
    BY <2>3
  <2>. QED
    BY <2>1, <2>2, <2>3
<1>4. /\ SubSeq(buf, 1, n) \in Seq(Unit) /\ SubSeq(buf, n + 1, Len(buf)) \in Seq(Unit)
  BY <1>1, FirstOf, RestOf
<1>5. SubSeq(buf, 1, n) \o SubSeq(buf, n + 1, Len(buf)) = buf
  <2>1. Meets(SubSeq(buf, 1, n), SubSeq(buf, n + 1, Len(buf)), buf)
    BY <1>1, MeetsAgain
  <2>. QED
    BY <2>1, Zenon DEF Meets
<1>. QED
  BY <1>1, <1>2, <1>3, <1>4, <1>5, Zenon DEF Splits

(* What is taken goes to the wire in the order of the line.                *)
LEMMA WriteSending ==
  ASSUME 0 \notin Conn, 0 \notin Fd, Inv, Inv', Sending, NEW f \in Fd, NEW n, common_write(f, n)
  PROVE  Sending'
<1>. DEFINE s == sess[f]
            buf == IF s.bufw # << >> THEN s.bufw ELSE IF s.bufwq # << >> THEN NextBuf(s) ELSE << >>
            rest == [s EXCEPT !.state = "ok", !.bufw = SubSeq(buf, n + 1, Len(buf)),
                              !.bufwq = IF s.bufw = << >> /\ @ # << >> THEN Tail(@) ELSE @]
            new == [rest EXCEPT !.evw = Work(rest)]
            seed == IF s.state = "seed" THEN Units(0, 1) ELSE << >>
<1>1. PICK c \in Conn : c = s.sid /\ c \in held /\ fdOf[c] = f /\ c # 0
  <2>1. s.sid \in held /\ fdOf[s.sid] = f
    BY DEF common_write, Inv, OwnDescriptor
  <2>2. held \subseteq Conn
    BY DEF Inv, Types
  <2>. QED
    BY <2>1, <2>2
<1>2. Session(c) /\ ~Fresh(c)
  BY <1>1 DEF Session, Fresh, Waiting, Inv, Waits
<1>3. PICK b : b = buf
  OBVIOUS
<1>4. n \in 0..Len(b) /\ b = IF s.bufw # << >> THEN s.bufw ELSE IF s.bufwq # << >> THEN Head(s.bufwq) ELSE << >>
  BY <1>3 DEF common_write, NextBuf
<1>5. sess' = [sess EXCEPT ![f] = new]
  BY DEF common_write
<1>6. /\ new.sid = s.sid /\ new.state = "ok" /\ new.bufw = SubSeq(b, n + 1, Len(b))
      /\ new.bufwq = IF s.bufw = << >> /\ s.bufwq # << >> THEN Tail(s.bufwq) ELSE s.bufwq
  <2>1. DOMAIN s = Fields
    BY DEF Inv, Types
  <2>. HIDE DEF buf, s
  <2>. QED
    BY <1>3, <2>1 DEF Fields
<1>7. wire' = [wire EXCEPT ![c] = (wire[c] \o seed) \o SubSeq(b, 1, n)]
  BY <1>1, <1>3 DEF common_write
<1>8. UNCHANGED <<gSndBufq, gConnectQue, todo, fdOf, out>>
  BY DEF common_write, ghost
<1>. HIDE DEF new, rest, buf
<1>9. PICK T : T = Seq(Unit)
  OBVIOUS
<1>10. PICK w \in Seq(Unit), wq \in Seq(T) : w = s.bufw /\ wq = s.bufwq
  BY <1>9 DEF Sending, Held
<1>11. /\ SubSeq(b, 1, n) \in Seq(Unit) /\ SubSeq(b, n + 1, Len(b)) \in Seq(Unit)
       /\ new.bufwq \in Seq(T) /\ FlattenSeq(new.bufwq) \in Seq(Unit)
       /\ w \o FlattenSeq(wq) = (SubSeq(b, 1, n) \o SubSeq(b, n + 1, Len(b))) \o FlattenSeq(new.bufwq)
  <2>0. PICK r : r = new.bufwq
    OBVIOUS
  <2>1. r = IF w = << >> /\ wq # << >> THEN Tail(wq) ELSE wq
    BY <2>0, <1>6, <1>10
  <2>2. b = IF w # << >> THEN w ELSE IF wq # << >> THEN Head(wq) ELSE << >>
    BY <1>4, <1>10
  <2>3. Splits(w, wq, T, b, n, r)
    BY <1>4, <1>9, <1>10, <2>1, <2>2, WriteSplits
  <2>. QED
    BY <2>0, <2>3, Zenon DEF Splits
<1>12. PICK x \in Seq(Unit), y \in Seq(Unit), z \in Seq(Unit) :
         x = SubSeq(b, 1, n) /\ y = SubSeq(b, n + 1, Len(b)) /\ z = FlattenSeq(new.bufwq)
  BY <1>11
<1>13. Unsent(c) = (x \o y) \o z
  BY <1>1, <1>2, <1>10, <1>11, <1>12 DEF Unsent
<1>14. /\ \A g \in Fd : g # f => sess'[g] = sess[g]
       /\ sess'[f] = new
  BY <1>5 DEF Inv, Types
<1>15. \A d \in Conn : Session(d)' <=> Session(d)
  <2>1. \A g \in Fd : sess'[g].sid = sess[g].sid
    BY <1>6, <1>14
  <2>2. \A d \in Conn : fdOf[d] # 0 => fdOf[d] \in Fd
    BY DEF Inv, Types
  <2>. QED
    BY <1>8, <2>1, <2>2 DEF Session
<1>16. Unsent(c)' = y \o z
  <2>1. Session(c)' /\ fdOf'[c] = f
    BY <1>1, <1>2, <1>8, <1>15
  <2>. QED
    BY <1>6, <1>12, <1>14, <2>1 DEF Unsent
<1>17. \A d \in Conn : Queued(d)' = Queued(d)
  BY <1>8, QueuedStill
<1>18. PICK u \in Seq(Unit) : u = Queued(c)
  BY QueuedType
<1>19. PICK l \in Seq(Unit) : l = Written(c) /\ (c \notin Called => l # << >>)
  BY WrittenType DEF Sending
<1>20. Sends(c) /\ Held /\ Carried
  BY DEF Sending
<1>21. wire[c] \o seed = l
  <2>1. s.state = "seed" <=> wire[c] = << >> /\ c \notin Called
    BY <1>1, <1>2, <1>20 DEF Sends
  <2>2. wire[c] \in Seq(Unit) /\ Units(0, 1) \in Seq(Unit)
    BY <1>20, SeedIs DEF Held
  <2>3. CASE s.state = "seed"
    <3>1. wire[c] \o seed = << >> \o Units(0, 1) /\ l = Units(0, 1)
      BY <1>19, <2>1, <2>3 DEF Written
    <3>. QED
      BY <2>2, <3>1, CatType
  <2>4. CASE s.state # "seed"
    <3>1. wire[c] \o seed = wire[c] \o << >> /\ l = wire[c]
      BY <1>19, <2>1, <2>4 DEF Written
    <3>. QED
      BY <2>2, <3>1, CatType
  <2>. QED
    BY <2>3, <2>4
<1>22. PICK v \in Seq(Unit) : v = l \o x
  BY CatType
<1>23. /\ wire'[c] = v /\ \A d \in Conn : d # c => wire'[d] = wire[d]
       /\ wire' \in [Conn -> Seq(Unit)]
  BY <1>7, <1>12, <1>20, <1>21, <1>22 DEF Held
<1>24. c \notin Called => v # << >>
  <2>1. l # << >> => l \o x # << >>
    OBVIOUS
  <2>. QED
    BY <1>19, <1>22, <2>1
<1>25. Carried'
  BY <1>8, <1>20, CarriedStill
<1>26. Held'
  <2>1. sess'[f].bufw \in Seq(Unit) /\ sess'[f].bufwq \in Seq(Seq(Unit))
    BY <1>6, <1>9, <1>11, <1>14
  <2>2. \A g \in Fd : g # f => sess'[g].bufw \in Seq(Unit) /\ sess'[g].bufwq \in Seq(Seq(Unit))
    BY <1>14, <1>20 DEF Held
  <2>. QED
    BY <1>23, <2>1, <2>2 DEF Held
<1>27. NoneNew /\ \A d \in Conn : Fresh(d)' => Fresh(d)
  <2>1. NoneNew
    BY <1>8, SameNone DEF SameLists
  <2>. QED
    BY <1>8, <2>1, FreshStill
<1>28. ASSUME NEW d \in Conn, d # c PROVE Sends(d)'
  <2>1. (fdOf[d] # 0 => fdOf[d] \in Fd) /\ (Session(d) => fdOf[d] # f)
    BY <1>1, <1>28 DEF Inv, Types, Session
  <2>2. Session(d) => fdOf[d] \in Fd /\ fdOf'[d] = fdOf[d] /\ sess'[fdOf[d]] = sess[fdOf[d]]
    BY <1>8, <1>14, <2>1 DEF Session
  <2>3. Unsent(d)' = Unsent(d)
    BY <1>15, <2>2 DEF Unsent
  <2>4. Session(d)' => (sess'[fdOf'[d]].state = "seed" <=> wire[d] = << >> /\ d \notin Called)
    BY <1>15, <2>2 DEF Sending, Sends
  <2>5. wire'[d] = wire[d] /\ out'[d] = out[d] /\ Sends(d)
    BY <1>8, <1>23, <1>28 DEF Sending
  <2>. QED
    BY <1>15, <1>17, <1>27, <2>3, <2>4, <2>5, LineStill
<1>29. Sends(c)'
  <2>1. PICK k \in Nat : k = out[c] /\ out' = out
    BY <1>8 DEF Inv, Types
  <2>2. PICK r \in Seq(Unit) : r = (y \o z) \o u
    <3>1. y \o z \in Seq(Unit)
      BY CatType
    <3>. QED
      BY <3>1, CatType
  <2>3. v \o r = Line(c)
    <3>1. JoinsWritten(l, x, y, z, u)
      BY Regrouping
    <3>2. (l \o x) \o ((y \o z) \o u) = l \o (((x \o y) \o z) \o u)
      BY <3>1, Zenon DEF JoinsWritten
    <3>3. Line(c) = l \o (((x \o y) \o z) \o u)
      BY <1>13, <1>18, <1>19 DEF Line
    <3>. QED
      BY <1>22, <2>2, <3>2, <3>3
  <2>4. Ordered(c, k, v \o r)
    BY <1>2, <1>20, <2>1, <2>3 DEF Sends
  <2>5. WireInOrder(c)'
    <3>1. Begins(c, k, v)
      <4>1. v \in Seq(Unit) /\ r \in Seq(Unit) /\ k \in Nat
        BY <1>22, <2>1, <2>2
      <4>. QED
        BY <2>4, <4>1, OrderedFirst
    <3>. QED
      BY <1>23, <2>1, <3>1 DEF WireInOrder, Begins
  <2>6. ~Fresh(c)'
    BY <1>2, <1>27
  <2>7. sess'[fdOf'[c]].state = "ok" /\ ~(wire'[c] = << >> /\ c \notin Called)
    BY <1>1, <1>6, <1>8, <1>14, <1>23, <1>24
  <2>8. Line(c)' = v \o r
    <3>1. Written(c)' = v
      BY <1>23, <1>24 DEF Written
    <3>2. Unsent(c)' \o Queued(c)' = r
      BY <1>16, <1>17, <1>18, <2>2
    <3>. QED
      BY <3>1, <3>2 DEF Line
  <2>9. Ordered(c, out[c], Line(c))' <=> Ordered(c, k, v \o r)
    BY <2>1, <2>8 DEF Ordered
  <2>. QED
    BY <2>4, <2>5, <2>6, <2>7, <2>9 DEF Sends
<1>. QED
  BY <1>25, <1>26, <1>28, <1>29 DEF Sending

(* At the start every line is empty.                                       *)
LEMMA InitSending == Init => Sending
<1>. SUFFICES ASSUME Init PROVE Sending
  OBVIOUS
<1>1. Carried /\ Held
  <2>1. \A S : << >> \in Seq(S)
    OBVIOUS
  <2>2. Carried
    BY <2>1 DEF Init, Carried
  <2>3. wire \in [Conn -> Seq(Unit)]
    BY <2>1 DEF Init
  <2>4. \A f \in Fd : sess[f].bufw = << >> /\ sess[f].bufwq = << >>
    BY DEF Init, Free
  <2>5. Held
    BY <2>1, <2>3, <2>4 DEF Held
  <2>. QED
    BY <2>2, <2>5
<1>2. ASSUME NEW c \in Conn PROVE Sends(c)
  <2>1. fdOf[c] = 0 /\ wire[c] = << >> /\ out[c] = 0 /\ todo = << >> /\ gSndBufq = << >>
    BY DEF Init
  <2>2. ~Session(c)
    BY <2>1 DEF Session
  <2>3. PICK e \in Seq(Unit) : e = << >>
    <3>1. << >> \in Seq(Unit)
      OBVIOUS
    <3>. QED
      BY <3>1, Zenon
  <2>4. PICK w \in Seq(Unit) : w = Written(c)
    BY <1>1, WrittenType
  <2>5. Line(c) = w
    <3>1. Queued(c) = e \o e /\ Unsent(c) = e
      BY <2>1, <2>2, <2>3, SentEmpty DEF Queued, Unsent
    <3>2. e \o (e \o e) = e /\ w \o e = w
      BY <2>3, CatType
    <3>. QED
      BY <2>4, <3>1, <3>2, CatType DEF Line
  <2>6. Ordered(c, 0, w)
    <3>1. CASE c \in Called
      <4>1. w = << >>
        BY <2>1, <2>4, <3>1 DEF Written
      <4>. QED
        BY <4>1 DEF Ordered, InSequence
    <3>2. CASE c \notin Called
      <4>1. w = Units(0, 1) /\ Len(w) = 1 /\ w # << >> /\ w[1] = [of |-> 0, i |-> 1, size |-> 1]
        BY <2>1, <2>4, <3>2, SeedIs DEF Written
      <4>2. w[1].of = 0 /\ w[1].i = 1 /\ w[1].size = 1 /\ DOMAIN w = {1}
        BY <4>1
      <4>. QED
        BY <3>2, <4>1, <4>2 DEF Ordered, InSequence
    <3>. QED
      BY <3>1, <3>2
  <2>7. WireInOrder(c)
    BY <2>1 DEF WireInOrder, InSequence
  <2>. QED
    BY <2>1, <2>2, <2>5, <2>6, <2>7 DEF Sends
<1>. QED
  BY <1>1, <1>2 DEF Sending

(* Every step keeps the lines in order.                                    *)
LEMMA NextSending ==
  ASSUME 0 \notin Conn, 0 \notin Fd, Called \subseteq Conn, Inv, Inv', Sending, [Next]_vars
  PROVE  Sending'
<1>1. CASE on_tick \/ recv_bufq \/ UNCHANGED vars
  <2>1. CASE Conn = {}
    <3>1. Carried'
      BY <1>1, CarriedStill DEF Sending, on_tick, recv_bufq, vars, net
    <3>2. Held'
      BY <1>1, HeldStill DEF Sending, on_tick, recv_bufq, vars, net, kernel
    <3>. QED
      BY <2>1, <3>1, <3>2 DEF Sending
  <2>2. CASE Conn # {}
    <3>1. PICK c \in Conn : TRUE
      BY <2>2
    <3>. QED
      BY <1>1, <3>1, QuietSending
  <2>. QED
    BY <2>1, <2>2
<1>2. CASE TakeSndBufq
  BY <1>2, TakeSending
<1>3. CASE HandleBuf
  BY <1>3, HandleSending
<1>4. ASSUME NEW f \in Fd, ReadFails(f) \/ WriteFails(f) PROVE Sending'
  BY <1>4, FailSending
<1>5. ASSUME NEW f \in Fd, NEW n, common_write(f, n) PROVE Sending'
  BY <1>5, WriteSending
<1>6. ASSUME NEW f \in Fd, NEW n, common_read(f, n) PROVE Sending'
  BY <1>6, ReadSending
<1>7. CASE ConnectDone \/ ConnectFails
  BY <1>7, ConnectorSending
<1>8. ASSUME NEW c \in Conn, accept_callback(c) \/ connect_to(c) PROVE Sending'
  BY <1>8, MadeSending
<1>9. ASSUME NEW c \in Conn, send_buf(c) \/ disconnect(c) PROVE Sending'
  BY <1>9, LuaSending
<1>10. ASSUME NEW c \in Conn, PeerCloses(c) \/ \E size \in Size : PeerSends(c, size) PROVE Sending'
  BY <1>10, QuietSending
<1>. QED
  BY <1>1, <1>2, <1>3, <1>4, <1>5, <1>6, <1>7, <1>8, <1>9, <1>10 DEF Next, EventStep

-----------------------------------------------------------------------------
(* What Lua is told. *)

Notice == {"comp", "fail", "close", "packet"} \X Nat
NoteBuf == [sid : Conn, what : Seq(Notice)]
Ours(b, c) == IF b.sid = c THEN b.what ELSE << >>

(* The notices.                                                            *)
LEMMA NoticeIs ==
  CONN_COMP \in Notice /\ CONN_FAIL \in Notice /\ CLOSE \in Notice /\ \A k \in Nat : Packet(k) \in Notice
  BY DEF Notice, CONN_COMP, CONN_FAIL, CLOSE, Packet

(* A note tells one notice to its own connection.                          *)
LEMMA NoteIs ==
  ASSUME NEW c \in Conn, NEW x \in Notice
  PROVE  /\ Note(c, x) \in NoteBuf /\ Ours(Note(c, x), c) = <<x>>
         /\ \A d \in Conn : d # c => Ours(Note(c, x), d) = << >>
<1>1. <<x>> \in Seq(Notice)
  OBVIOUS
<1>2. Note(c, x).sid = c /\ Note(c, x).what = <<x>> /\ Note(c, x) \in NoteBuf
  BY <1>1 DEF Note, NoteBuf
<1>. QED
  BY <1>2 DEF Ours

(* What a note tells a connection is a sequence of notices.                *)
LEMMA OursType ==
  ASSUME NEW c, NEW b \in NoteBuf
  PROVE  Ours(b, c) \in Seq(Notice)
<1>1. << >> \in Seq(Notice)
  OBVIOUS
<1>2. b.what \in Seq(Notice)
  BY DEF NoteBuf
<1>. QED
  BY <1>1, <1>2 DEF Ours

(* What picks from each note what is for one connection.                   *)
LEMMA WhatIs ==
  ASSUME NEW c
  PROVE  /\ [b \in NoteBuf |-> Ours(b, c)] \in [NoteBuf -> Seq(Notice)]
         /\ \A q \in Seq(NoteBuf) : What(q, c) = FlattenSeq(Pieces(q, [b \in NoteBuf |-> Ours(b, c)]))
<1>1. ASSUME NEW q \in Seq(NoteBuf) PROVE What(q, c) = FlattenSeq(Pieces(q, [b \in NoteBuf |-> Ours(b, c)]))
  <2>. DEFINE p == [i \in DOMAIN q |-> IF q[i].sid = c THEN q[i].what ELSE << >>]
              r == [i \in DOMAIN q |-> [b \in NoteBuf |-> Ours(b, c)][q[i]]]
  <2>1. \A i \in DOMAIN q : q[i] \in NoteBuf
    OBVIOUS
  <2>2. \A i \in DOMAIN q : [b \in NoteBuf |-> Ours(b, c)][q[i]] = Ours(q[i], c)
    BY <2>1
  <2>3. p = r
    BY <2>2 DEF Ours
  <2>. HIDE DEF p, r
  <2>4. FlattenSeq(p) = FlattenSeq(r)
    BY <2>3
  <2>. QED
    BY <2>4 DEF p, r, What, Pieces
<1>. QED
  BY <1>1, OursType

(* An empty list tells nothing.                                            *)
LEMMA WhatEmpty == \A c : What(<< >>, c) = << >>
<1>. SUFFICES ASSUME NEW c PROVE What(<< >>, c) = << >>
  OBVIOUS
<1>1. [i \in DOMAIN << >> |-> IF << >>[i].sid = c THEN << >>[i].what ELSE << >>] = << >>
  OBVIOUS
<1>. QED
  BY <1>1, FlatEmpty DEF What

(* A note put at the end of a list is told last.                           *)
LEMMA WhatAppend ==
  ASSUME NEW c, NEW q \in Seq(NoteBuf), NEW b \in NoteBuf
  PROVE  What(Append(q, b), c) = What(q, c) \o Ours(b, c) /\ What(q, c) \in Seq(Notice)
<1>1. PICK pick : pick = [x \in NoteBuf |-> Ours(x, c)]
  OBVIOUS
<1>2. PICK T : T = Seq(Notice)
  OBVIOUS
<1>3. pick \in [NoteBuf -> T] /\ \A p \in Seq(NoteBuf) : What(p, c) = FlattenSeq(Pieces(p, pick))
  BY <1>1, <1>2, WhatIs
<1>4. /\ FlattenSeq(Pieces(Append(q, b), pick)) = FlattenSeq(Pieces(q, pick)) \o pick[b]
      /\ FlattenSeq(Pieces(q, pick)) \in Seq(Notice)
  BY <1>2, <1>3, PiecesAppend
<1>5. Append(q, b) \in Seq(NoteBuf) /\ pick[b] = Ours(b, c)
  BY <1>1
<1>. QED
  BY <1>3, <1>4, <1>5

(* What a list tells is a sequence of notices.                             *)
LEMMA WhatType ==
  ASSUME NEW c, NEW q \in Seq(NoteBuf)
  PROVE  What(q, c) \in Seq(Notice)
<1>1. PICK T : T = Seq(Notice)
  OBVIOUS
<1>2. PICK pick : pick = [x \in NoteBuf |-> Ours(x, c)]
  OBVIOUS
<1>3. pick \in [NoteBuf -> T] /\ What(q, c) = FlattenSeq(Pieces(q, pick))
  BY <1>1, <1>2, WhatIs
<1>4. Pieces(q, pick) \in Seq(T)
  BY <1>3, PiecesType
<1>5. << >> \in Seq(Notice)
  OBVIOUS
<1>. QED
  BY <1>1, <1>3, <1>4, <1>5, FlatAppend

(* Of two lists the first is told first.                                   *)
LEMMA WhatCat ==
  ASSUME NEW c, NEW q \in Seq(NoteBuf), NEW r \in Seq(NoteBuf)
  PROVE  What(q \o r, c) = What(q, c) \o What(r, c)
<1>1. PICK pick : pick = [x \in NoteBuf |-> Ours(x, c)]
  OBVIOUS
<1>2. PICK T : T = Seq(Notice)
  OBVIOUS
<1>3. pick \in [NoteBuf -> T] /\ \A p \in Seq(NoteBuf) : What(p, c) = FlattenSeq(Pieces(p, pick))
  BY <1>1, <1>2, WhatIs
<1>4. PICK t \in Seq(NoteBuf) : t = q \o r
  BY CatType
<1>5. Meets(q, r, t)
  BY <1>4 DEF Meets
<1>6. Meets(FlattenSeq(Pieces(q, pick)), FlattenSeq(Pieces(r, pick)), FlattenSeq(Pieces(t, pick)))
  BY <1>2, <1>3, <1>5, PiecesCat
<1>7. Meets(What(q, c), What(r, c), What(t, c))
  BY <1>3, <1>4, <1>6
<1>. QED
  BY <1>4, <1>7, Zenon DEF Meets

-----------------------------------------------------------------------------
(* The packets m + 1, ..., m + k. *)
Numbered(m, k) == [i \in 1..k |-> Packet(m + i)]
Greeted(m) == <<CONN_COMP>> \o Numbered(0, m)

(* The packets m + 1, ..., m + k one by one.                               *)
LEMMA NumberedAt ==
  ASSUME NEW m \in Nat, NEW k \in Nat
  PROVE  /\ Numbered(m, k) \in Seq(Notice) /\ Len(Numbered(m, k)) = k
         /\ \A i \in 1..k : Numbered(m, k)[i] = Packet(m + i)
<1>1. \A i \in 1..k : m + i \in Nat
  OBVIOUS
<1>2. Numbered(m, k) \in [1..k -> Notice]
  BY <1>1, NoticeIs DEF Numbered
<1>3. Numbered(m, k) \in Seq(Notice) /\ Len(Numbered(m, k)) = k
  BY <1>2, SeqDef
<1>. QED
  BY <1>3 DEF Numbered

(* Two sequences with the same entries are the same. *)
LEMMA SameSeq ==
  ASSUME NEW S, NEW p \in Seq(S), NEW q \in Seq(S), Len(p) = Len(q), \A i \in 1..Len(p) : p[i] = q[i]
  PROVE  p = q
  OBVIOUS

(* Consecutive packets, and those that follow them.                        *)
LEMMA NumberedCat ==
  ASSUME NEW m \in Nat, NEW k \in Nat, NEW l \in Nat, NEW n \in Nat, n = m + k
  PROVE  Meets(Numbered(m, k), Numbered(n, l), Numbered(m, k + l))
<1>1. PICK p \in Seq(Notice), q \in Seq(Notice), r \in Seq(Notice) :
        p = Numbered(m, k) /\ q = Numbered(n, l) /\ r = Numbered(m, k + l)
  BY NumberedAt, k + l \in Nat
<1>2. /\ Len(p) = k /\ Len(q) = l /\ Len(r) = k + l
      /\ (\A i \in 1..k : p[i] = Packet(m + i)) /\ (\A i \in 1..l : q[i] = Packet(n + i))
      /\ \A i \in 1..(k + l) : r[i] = Packet(m + i)
  BY <1>1, NumberedAt, k + l \in Nat
<1>3. PICK t \in Seq(Notice) : t = p \o q
  BY CatType
<1>4. Len(t) = k + l /\ (\A i \in 1..k : t[i] = p[i]) /\ \A i \in 1..l : t[k + i] = q[i]
  <2>1. /\ Len(t) = Len(p) + Len(q) /\ (\A i \in 1..Len(p) : t[i] = p[i])
        /\ \A i \in 1..Len(q) : t[Len(p) + i] = q[i]
    BY <1>3, CatAt
  <2>. QED
    BY <1>2, <2>1
<1>5. ASSUME NEW i \in 1..(k + l) PROVE t[i] = r[i]
  <2>1. CASE i <= k
    BY <1>2, <1>4, <2>1
  <2>2. CASE ~(i <= k)
    <3>1. i - k \in 1..l /\ k + (i - k) = i /\ n + (i - k) = m + i
      BY <2>2
    <3>2. t[k + (i - k)] = q[i - k] /\ q[i - k] = Packet(n + (i - k))
      BY <1>2, <1>4, <3>1
    <3>. QED
      BY <1>2, <3>1, <3>2
  <2>. QED
    BY <2>1, <2>2
<1>6. t = r
  BY <1>2, <1>4, <1>5, SameSeq
<1>. QED
  BY <1>1, <1>3, <1>6 DEF Meets

(* More packets after the first m.                                         *)
LEMMA GreetedMore ==
  ASSUME NEW m \in Nat, NEW k \in Nat
  PROVE  /\ Greeted(m) \o Numbered(m, k) = Greeted(m + k)
         /\ Greeted(m) \in Seq(Notice) /\ Len(Greeted(m)) = m + 1 /\ Greeted(m) # << >>
<1>1. PICK g \in Seq(Notice), p \in Seq(Notice), q \in Seq(Notice) :
        g = <<CONN_COMP>> /\ p = Numbered(0, m) /\ q = Numbered(m, k)
  <2>1. <<CONN_COMP>> \in Seq(Notice)
    BY NoticeIs
  <2>. QED
    BY <2>1, NumberedAt
<1>2. p \o q = Numbered(0, m + k)
  <2>1. 0 \in Nat /\ m = 0 + m
    OBVIOUS
  <2>2. Meets(Numbered(0, m), Numbered(m, k), Numbered(0, m + k))
    BY <2>1, NumberedCat
  <2>. QED
    BY <1>1, <2>2 DEF Meets
<1>3. (g \o p) \o q = g \o (p \o q)
  OBVIOUS
<1>4. g \o p \in Seq(Notice) /\ Len(g \o p) = m + 1
  <2>1. Len(g) = 1 /\ Len(p) = m
    BY <1>1, NumberedAt
  <2>2. g \o p \in Seq(Notice) /\ Len(g \o p) = Len(g) + Len(p)
    BY CatAt
  <2>. QED
    BY <2>1, <2>2
<1>5. Greeted(m) # << >>
  <2>1. Len(Greeted(m)) # 0
    BY <1>1, <1>4 DEF Greeted
  <2>2. Greeted(m) = << >> => Len(Greeted(m)) = 0
    OBVIOUS
  <2>. QED
    BY <2>1, <2>2
<1>. QED
  BY <1>1, <1>2, <1>3, <1>4, <1>5 DEF Greeted

-----------------------------------------------------------------------------
(* What is read of a connection.                                           *)

(* What is still to be read of packets that came up to number n, when all  *)
(* up to number m have gone to Lua.                                        *)
ReadFrom(units, m, n) ==
  /\ InSequence(units)
  /\ IF units = << >> THEN m = n
     ELSE /\ units[1].of = m + 1
          /\ units[Len(units)].of = n /\ units[Len(units)].i >= units[Len(units)].size

(* A sequence that is not empty has a first and a last element.            *)
LEMMA NotEmpty ==
  ASSUME NEW S, NEW q \in Seq(S)
  PROVE  (q # << >> <=> Len(q) # 0) /\ (q # << >> => 1 \in 1..Len(q) /\ Len(q) \in 1..Len(q)) /\ Len(q) \in Nat
<1>1. q = << >> <=> Len(q) = 0
  OBVIOUS
<1>2. Len(q) \in Nat
  OBVIOUS
<1>. QED
  BY <1>1, <1>2

(* The peer sends one more. *)
LEMMA ReadGrows ==
  ASSUME NEW m \in Nat, NEW n \in Nat, NEW size \in Nat, NEW q \in Seq(Unit), ReadFrom(q, m, n),
         NEW t, t = q \o Units(n + 1, size)
  PROVE  ReadFrom(t, m, n + 1)
<1>1. PICK u \in Seq(Unit) : u = Units(n + 1, size)
  BY UnitsAt, n + 1 \in Nat
<1>2. PICK l \in Nat : l = Span(size) /\ l >= 1 /\ l >= size /\ (size = 0 => l = 1)
  BY SpanNat DEF Span
<1>3. Len(u) = l /\ \A k \in 1..l : u[k] = [of |-> n + 1, i |-> k, size |-> size]
  BY <1>1, <1>2, UnitsAt, n + 1 \in Nat
<1>4. \A k \in 1..l : u[k].of = n + 1 /\ u[k].i = k /\ u[k].size = size
  BY <1>3
<1>5. t \in Seq(Unit) /\ Len(t) = Len(q) + l /\ Len(q) \in Nat
      /\ (\A i \in 1..Len(q) : t[i] = q[i]) /\ \A i \in 1..l : t[Len(q) + i] = u[i]
  <2>1. t = q \o u
    BY <1>1
  <2>2. t \in Seq(Unit) /\ Len(t) = Len(q) + Len(u) /\ Len(q) \in Nat
        /\ (\A i \in 1..Len(q) : t[i] = q[i]) /\ \A i \in 1..Len(u) : t[Len(q) + i] = u[i]
    BY <1>1, <2>1, CatAt
  <2>. QED
    BY <1>2, <1>3, <2>2
<1>6. InSequence(t)
  <2>1. \A j \in 1..(Len(u) - 1) : Follows(u[j], u[j + 1])
    <3>. SUFFICES ASSUME NEW j \in 1..(l - 1) PROVE Follows(u[j], u[j + 1])
      BY <1>3
    <3>1. j \in 1..l /\ j + 1 \in 1..l /\ j < size
      BY <1>2, SpanNat DEF Span
    <3>2. u[j + 1] = [u[j] EXCEPT !.i = @ + 1]
      BY <1>3, <3>1
    <3>. QED
      BY <1>4, <3>1, <3>2 DEF Follows
  <2>2. u # << >> /\ 1 \in 1..l /\ u[1].i = 1 /\ u[1].of = n + 1
    BY <1>2, <1>3, <1>4, NotEmpty
  <2>3. ASSUME q # << >> PROVE Follows(q[Len(q)], u[1])
    <3>1. q[Len(q)].of = n /\ q[Len(q)].i >= q[Len(q)].size
      BY <2>3 DEF ReadFrom
    <3>2. q[Len(q)].i \in Nat /\ q[Len(q)].size \in Nat
      BY <2>3, NotEmpty, UnitIs
    <3>. QED
      BY <2>2, <3>1, <3>2 DEF Follows
  <2>4. InSequence(q \o u)
    BY <2>1, <2>2, <2>3, SequenceCat DEF ReadFrom
  <2>. QED
    BY <1>1, <2>4
<1>7. t # << >> /\ t[1].of = m + 1
  <2>1. t # << >>
    BY <1>2, <1>5, NotEmpty
  <2>2. CASE q = << >>
    <3>1. m = n /\ Len(q) = 0 /\ 1 \in 1..l /\ 0 + 1 = 1
      BY <1>2, <2>2 DEF ReadFrom
    <3>2. t[1] = u[1]
      BY <1>5, <3>1
    <3>. QED
      BY <1>4, <2>1, <3>1, <3>2
  <2>3. CASE q # << >>
    <3>1. q[1].of = m + 1 /\ 1 \in 1..Len(q)
      BY <2>3, NotEmpty DEF ReadFrom
    <3>. QED
      BY <1>5, <2>1, <3>1
  <2>. QED
    BY <2>2, <2>3
<1>8. t[Len(t)].of = n + 1 /\ t[Len(t)].i >= t[Len(t)].size
  <2>1. l \in 1..l
    BY <1>2
  <2>2. t[Len(t)] = u[l]
    BY <1>5, <2>1
  <2>. QED
    BY <1>2, <1>4, <2>1, <2>2
<1>. QED
  BY <1>6, <1>7, <1>8 DEF ReadFrom

(* The whole packets of the buffer have the next numbers. *)
LEMMA Counted ==
  ASSUME NEW m \in Nat, NEW buf \in Seq(Unit), buf # << >>, InSequence(buf), buf[1].of = m + 1,
         \A j \in 1..Len(buf) : buf[j].size # 0
  PROVE  \E k \in Nat : /\ PacketsOf(buf) = Numbered(m, k)
                        /\ Whole(buf) = 0 => k = 0
                        /\ Whole(buf) # 0 => k # 0 /\ buf[Whole(buf)].of = m + k
<1>. DEFINE N == Len(buf)
            d == Whole(buf)
            s == [j \in DOMAIN buf |-> IF buf[j].i = buf[j].size THEN <<Packet(buf[j].of)>> ELSE << >>]
            e == [j \in 0..N |-> IF j = 0 THEN 0 ELSE IF buf[j].i = buf[j].size THEN buf[j].of - m
                                 ELSE (buf[j].of - m) - 1]
<1>1. /\ N \in Nat /\ DOMAIN buf = 1..N /\ d \in 0..N
      /\ (d # 0 => buf[d].i = buf[d].size) /\ \A j \in 1..N : j > d => buf[j].i # buf[j].size
  BY WholeIs
<1>2. \A j \in 1..N : buf[j].of \in Nat /\ buf[j].i \in Nat /\ buf[j].size \in Nat \ {0}
  BY UnitIs
<1>3. PICK T : T = Seq(Notice)
  OBVIOUS
<1>4. s \in Seq(T) /\ Len(s) = N
  <2>1. ASSUME NEW j \in 1..N
        PROVE  (IF buf[j].i = buf[j].size THEN <<Packet(buf[j].of)>> ELSE << >>) \in Seq(Notice)
    <3>1. Packet(buf[j].of) \in Notice
      BY <1>2, NoticeIs
    <3>2. << >> \in Seq(Notice) /\ <<Packet(buf[j].of)>> \in Seq(Notice)
      BY <3>1
    <3>. QED
      BY <3>2
  <2>2. s \in [1..N -> T]
    BY <1>1, <1>3, <2>1
  <2>. HIDE DEF s
  <2>. QED
    BY <1>1, <2>2, SeqDef
<1>5. PICK f : Joins(f, s, Notice, N)
  BY <1>3, <1>4, Joined
<1>6. FlattenSeq(s) = f[N]
  BY <1>3, <1>4, <1>5, Flattened
<1>7. f[0] = << >> /\ \A j \in 1..N : f[j] = f[j - 1] \o s[j]
  BY <1>5 DEF Joins
<1>8. /\ e[0] = 0
      /\ \A j \in 1..N : e[j] = IF buf[j].i = buf[j].size THEN buf[j].of - m ELSE (buf[j].of - m) - 1
  BY <1>1
<1>9. \A j \in 1..N : /\ buf[j].i = buf[j].size => s[j] = <<Packet(buf[j].of)>>
                      /\ buf[j].i # buf[j].size => s[j] = << >>
  BY <1>1
<1>. HIDE DEF s, e, d, N
<1>. DEFINE Good(j) == /\ e[j] \in Nat /\ f[j] = Numbered(m, e[j])
                       /\ j # 0 => buf[j].i <= buf[j].size /\ buf[j].of >= m + 1
                       /\ j >= d => e[j] = e[d]
<1>10. Good(0)
  <2>1. Numbered(m, 0) \in Seq(Notice) /\ Len(Numbered(m, 0)) = 0
    BY NumberedAt
  <2>2. Numbered(m, 0) = << >>
    BY <2>1, NotEmpty
  <2>3. 0 >= d => d = 0
    BY <1>1
  <2>. QED
    BY <1>7, <1>8, <2>2, <2>3
<1>11. ASSUME NEW j \in Nat, j + 1 \in 1..N, Good(j) PROVE Good(j + 1)
  <2>. DEFINE u == buf[j + 1]
  <2>1. u.of = (m + e[j]) + 1 /\ u.i <= u.size
    <3>1. CASE j = 0
      <4>1. u.i = 1 /\ u.of = m + 1
        BY <3>1 DEF InSequence
      <4>. QED
        BY <1>2, <1>8, <1>11, <3>1, <4>1
    <3>2. CASE j # 0
      <4>1. j \in 1..N /\ j \in 1..(Len(buf) - 1)
        BY <1>1, <1>11, <3>2 DEF N
      <4>2. Follows(buf[j], u)
        BY <4>1 DEF InSequence
      <4>3. CASE buf[j].i < buf[j].size
        <5>1. u = [buf[j] EXCEPT !.i = @ + 1]
          BY <4>2, <4>3 DEF Follows
        <5>2. u.of = buf[j].of /\ u.size = buf[j].size /\ u.i = buf[j].i + 1
          <6>1. buf[j] \in Unit
            BY <1>1, <4>1
          <6>. QED
            BY <5>1, <6>1 DEF Unit
        <5>3. e[j] = (buf[j].of - m) - 1
          BY <1>2, <1>8, <4>1, <4>3
        <5>4. /\ buf[j].of \in Nat /\ buf[j].i \in Nat /\ buf[j].size \in Nat
              /\ buf[j].of >= m + 1
          BY <1>2, <1>11, <3>2, <4>1
        <5>5. u.of = (m + e[j]) + 1
          BY <5>2, <5>3, <5>4
        <5>6. u.i <= u.size
          BY <4>3, <5>2, <5>4
        <5>. QED
          BY <5>5, <5>6
      <4>4. CASE ~(buf[j].i < buf[j].size)
        <5>1. buf[j].i = buf[j].size /\ buf[j].of # 0
          BY <1>2, <1>11, <3>2, <4>1, <4>4
        <5>2. u.i = 1 /\ u.of = buf[j].of + 1
          BY <4>2, <4>4, <5>1 DEF Follows
        <5>3. e[j] = buf[j].of - m
          BY <1>8, <4>1, <5>1
        <5>4. buf[j].of \in Nat /\ u.size \in Nat \ {0}
          BY <1>2, <1>11, <4>1
        <5>5. u.of = (m + e[j]) + 1
          BY <5>2, <5>3, <5>4
        <5>6. u.i <= u.size
          BY <5>2, <5>4
        <5>. QED
          BY <5>5, <5>6
      <4>. QED
        BY <4>3, <4>4
    <3>. QED
      BY <3>1, <3>2
  <2>2. e[j + 1] = IF u.i = u.size THEN e[j] + 1 ELSE e[j]
    BY <1>8, <1>11, <2>1
  <2>3. f[j + 1] = f[j] \o s[j + 1]
    <3>1. (j + 1) - 1 = j
      OBVIOUS
    <3>. QED
      BY <1>7, <1>11, <3>1
  <2>4. f[j + 1] = Numbered(m, e[j + 1])
    <3>1. CASE u.i = u.size
      <4>1. PICK k \in Nat : k = m + e[j]
        BY <1>11
      <4>2. s[j + 1] = <<Packet(k + 1)>>
        BY <1>9, <1>11, <2>1, <3>1, <4>1
      <4>3. Numbered(k, 1) = <<Packet(k + 1)>>
        <5>1. PICK p \in Seq(Notice) : p = Numbered(k, 1)
          BY NumberedAt
        <5>2. Len(p) = 1 /\ p[1] = Packet(k + 1)
          <6>1. Len(p) = 1 /\ \A i \in 1..1 : p[i] = Packet(k + i)
            BY <5>1, NumberedAt, 1 \in Nat
          <6>. QED
            BY <6>1
        <5>3. p = <<p[1]>>
          BY <5>2
        <5>. QED
          BY <5>1, <5>2, <5>3
      <4>4. Meets(Numbered(m, e[j]), Numbered(k, 1), Numbered(m, e[j] + 1))
        BY <1>11, <4>1, NumberedCat
      <4>. QED
        BY <1>11, <2>2, <2>3, <3>1, <4>2, <4>3, <4>4 DEF Meets
    <3>2. CASE u.i # u.size
      <4>1. s[j + 1] = << >>
        BY <1>9, <1>11, <3>2
      <4>2. Numbered(m, e[j]) \in Seq(Notice)
        BY <1>11, NumberedAt
      <4>3. Numbered(m, e[j]) \o << >> = Numbered(m, e[j])
        BY <4>2, CatType
      <4>. QED
        BY <1>11, <2>2, <2>3, <3>2, <4>1, <4>3
    <3>. QED
      BY <3>1, <3>2
  <2>5. ASSUME j + 1 >= d PROVE e[j + 1] = e[d]
    <3>1. CASE j + 1 = d
      BY <3>1
    <3>2. CASE j + 1 # d
      <4>1. j >= d /\ j + 1 > d
        BY <1>1, <2>5, <3>2
      <4>2. u.i # u.size
        BY <1>1, <1>11, <4>1
      <4>. QED
        BY <1>11, <2>2, <4>1, <4>2
    <3>. QED
      BY <3>1, <3>2
  <2>6. u.of >= m + 1 /\ e[j + 1] \in Nat
    BY <1>11, <2>1, <2>2
  <2>. QED
    BY <2>1, <2>4, <2>5, <2>6
<1>. HIDE DEF Good
<1>12. \A j \in 0..N : Good(j)
  <2>. DEFINE Bad == {j \in 0..N : ~Good(j)}
  <2>. SUFFICES ASSUME Bad # {} PROVE FALSE
    OBVIOUS
  <2>0. Bad \subseteq Nat /\ Bad \subseteq 0..N
    BY <1>1
  <2>1. PICK x \in Bad : \A y \in Bad : x <= y
    BY <2>0, LeastNat
  <2>2. x \in 0..N /\ ~Good(x)
    BY <2>1
  <2>3. x # 0
    BY <1>10, <2>2
  <2>4. PICK y \in Nat : x = y + 1 /\ y \in 0..N /\ y + 1 \in 1..N
    <3>1. x - 1 \in Nat /\ x = (x - 1) + 1 /\ x - 1 \in 0..N
      BY <1>1, <2>2, <2>3
    <3>. QED
      BY <2>2, <3>1
  <2>5. y \notin Bad
    <3>1. ~(x <= y)
      BY <2>4
    <3>. QED
      BY <2>1, <3>1
  <2>6. Good(y)
    BY <2>4, <2>5
  <2>. QED
    BY <1>11, <2>2, <2>4, <2>6
<1>13. e[N] \in Nat /\ f[N] = Numbered(m, e[N]) /\ e[N] = e[d] /\ (d # 0 => buf[d].of >= m + 1)
  <2>1. N \in 0..N /\ N >= d
    BY <1>1
  <2>. QED
    BY <1>1, <1>12, <2>1 DEF Good
<1>14. PacketsOf(buf) = Numbered(m, e[N])
  BY <1>6, <1>13 DEF PacketsOf, s
<1>15. d = 0 => e[N] = 0
  BY <1>8, <1>13
<1>16. d # 0 => e[N] # 0 /\ buf[d].of = m + e[N]
  BY <1>1, <1>2, <1>8, <1>13
<1>. QED
  BY <1>13, <1>14, <1>15, <1>16 DEF d

(* A read hands the whole packets to Lua; what is left begins with the     *)
(* next.                                                                   *)
LEMMA PacketsRead ==
  ASSUME NEW m \in Nat, NEW n \in Nat, NEW buf \in Seq(Unit), NEW r \in Seq(Unit), buf # << >>,
         NEW t, t = buf \o r, ReadFrom(t, m, n), ~Malformed(buf)
  PROVE  \E k \in Nat : /\ PacketsOf(buf) = Numbered(m, k)
                        /\ ReadFrom(Rest(buf, Whole(buf)) \o r, m + k, n)
<1>1. PICK N \in Nat, l \in Nat : N = Len(buf) /\ l = Len(r)
  OBVIOUS
<1>2. N # 0 /\ DOMAIN buf = 1..N
  BY <1>1, NotEmpty
<1>3. /\ t \in Seq(Unit) /\ Len(t) = N + l
      /\ (\A i \in 1..N : t[i] = buf[i]) /\ \A i \in 1..l : t[N + i] = r[i]
  BY <1>1, CatAt
<1>4. t # << >> /\ InSequence(t) /\ t[1].of = m + 1
      /\ t[Len(t)].of = n /\ t[Len(t)].i >= t[Len(t)].size
  <2>1. t # << >>
    BY <1>2, <1>3, NotEmpty
  <2>. QED
    BY <2>1 DEF ReadFrom
<1>5. InSequence(buf)
  BY <1>4, SequenceCat
<1>6. buf[1].of = m + 1 /\ \A j \in 1..N : buf[j].size # 0
  <2>1. 1 \in 1..N
    BY <1>2
  <2>. QED
    BY <1>2, <1>3, <1>4, <2>1 DEF Malformed
<1>7. PICK k \in Nat : /\ PacketsOf(buf) = Numbered(m, k)
                       /\ Whole(buf) = 0 => k = 0
                       /\ Whole(buf) # 0 => k # 0 /\ buf[Whole(buf)].of = m + k
  BY <1>1, <1>5, <1>6, Counted
<1>8. PICK d \in 0..N : d = Whole(buf) /\ (d # 0 => buf[d].i = buf[d].size)
  BY <1>1, WholeIs
<1>9. PICK p \in Seq(Unit), rest \in Seq(Unit) : p = SubSeq(buf, 1, d) /\ rest = Rest(buf, d)
  BY <1>1, FirstOf, RestOf DEF Rest
<1>10. Len(p) = d /\ p \o rest = buf
  <2>1. PICK x \in Seq(Unit) : x = << >>
    <3>1. << >> \in Seq(Unit)
      OBVIOUS
    <3>. QED
      BY <3>1, Zenon
  <2>2. (x \o SubSeq(buf, 1, d)) \o SubSeq(buf, d + 1, Len(buf)) = x \o buf
    BY <1>1, Reread
  <2>3. x \o buf = buf /\ x \o p = p
    BY <2>1, CatType
  <2>4. Len(p) = d
    BY <1>1, <1>9, FirstOf
  <2>. QED
    BY <1>9, <2>2, <2>3, <2>4 DEF Rest
<1>11. PICK q \in Seq(Unit) : q = rest \o r
  BY CatType
<1>12. t = p \o q
  <2>1. (p \o rest) \o r = p \o (rest \o r)
    BY Regroup
  <2>. QED
    BY <1>10, <1>11, <2>1
<1>13. /\ Len(t) = d + Len(q) /\ Len(q) \in Nat /\ d \in Nat
       /\ (\A i \in 1..d : t[i] = p[i]) /\ \A i \in 1..Len(q) : t[d + i] = q[i]
  <2>1. /\ Len(t) = Len(p) + Len(q) /\ Len(q) \in Nat
        /\ (\A i \in 1..Len(p) : t[i] = p[i]) /\ \A i \in 1..Len(q) : t[Len(p) + i] = q[i]
    BY <1>12, CatAt
  <2>. QED
    BY <1>10, <2>1
<1>14. d # 0 => d \in 1..N /\ t[d].of = m + k /\ t[d].i = t[d].size /\ t[d].size \in Nat
  <2>. SUFFICES ASSUME d # 0 PROVE d \in 1..N /\ t[d].of = m + k /\ t[d].i = t[d].size /\ t[d].size \in Nat
    OBVIOUS
  <2>1. d \in 1..N /\ t[d] = buf[d]
    BY <1>3
  <2>2. buf[d].size \in Nat
    BY <1>1, <2>1, UnitIs
  <2>. QED
    BY <1>7, <1>8, <2>1, <2>2
<1>15. CASE q = << >>
  <2>1. Len(t) = d /\ Len(t) # 0
    BY <1>2, <1>3, <1>13, <1>15, NotEmpty
  <2>2. m + k = n
    BY <1>4, <1>14, <2>1
  <2>3. InSequence(q)
    BY <1>15 DEF InSequence
  <2>4. ReadFrom(q, m + k, n)
    BY <1>15, <2>2, <2>3 DEF ReadFrom
  <2>. QED
    BY <1>7, <1>8, <1>9, <1>11, <2>4
<1>16. CASE q # << >>
  <2>0. 1 \in 1..Len(q) /\ Len(q) \in 1..Len(q)
    BY <1>16, NotEmpty
  <2>1. t[d + 1] = q[1] /\ t[Len(t)] = q[Len(q)] /\ (d # 0 => d \in 1..(Len(t) - 1))
    <3>1. t[d + 1] = q[1]
      BY <1>13, <2>0
    <3>2. t[Len(t)] = q[Len(q)]
      BY <1>13, <2>0
    <3>3. Len(q) # 0
      BY <1>16, NotEmpty
    <3>. QED
      BY <1>13, <3>1, <3>2, <3>3
  <2>2. q[1].i = 1 /\ q[1].of = (m + k) + 1
    <3>1. CASE d = 0
      BY <1>4, <1>7, <1>8, <2>1, <3>1 DEF InSequence
    <3>2. CASE d # 0
      <4>1. Follows(t[d], q[1])
        BY <1>4, <2>1, <3>2 DEF InSequence
      <4>2. k # 0 /\ t[d].of = m + k /\ t[d].of # 0
        <5>1. k # 0 /\ t[d].of = m + k
          BY <1>7, <1>8, <1>14, <3>2
        <5>. QED
          BY <5>1
      <4>3. ~(t[d].i < t[d].size)
        <5>1. PICK x \in Nat : t[d].i = x /\ t[d].size = x
          BY <1>14, <3>2
        <5>2. ~(x < x)
          OBVIOUS
        <5>. QED
          BY <5>1, <5>2, Zenon
      <4>. QED
        BY <1>14, <3>2, <4>1, <4>2, <4>3 DEF Follows
    <3>. QED
      BY <3>1, <3>2
  <2>3. InSequence(q)
    <3>1. \A j \in 1..(Len(q) - 1) : Follows(q[j], q[j + 1])
      BY <1>4, <1>12, SequenceCat
    <3>. QED
      BY <2>2, <3>1 DEF InSequence
  <2>4. ReadFrom(q, m + k, n)
    BY <1>4, <1>16, <2>1, <2>2, <2>3 DEF ReadFrom
  <2>. QED
    BY <1>7, <1>8, <1>9, <1>11, <2>4
<1>. QED
  BY <1>15, <1>16

-----------------------------------------------------------------------------
(* What Lua hears is in order.                                             *)

Noted ==
  /\ gRcvBufq \in Seq(NoteBuf) /\ gRcvBufqTmp \in Seq(NoteBuf) /\ seen \in [Conn -> Seq(Notice)]
  /\ gone \subseteq Conn

(* A connection without a session is silent; of a session the packets up   *)
(* to m are told and the rest is in its buffer and its socket.             *)
Unheard(c) == Heard(c) = << >> /\ ReadFrom(inq[c], 0, Len(came[c]))
Listens(c) ==
  \E m \in Nat : Heard(c) = Greeted(m) /\ ReadFrom(sess[fdOf[c]].bufr \o inq[c], m, Len(came[c]))
Hears(c) == NoticesInOrder(Heard(c)) /\ (Fresh(c) => Unheard(c)) /\ (Session(c) => Listens(c))

Hearing == Noted /\ (~raced => \A c \in Conn : Hears(c))

(* The notices that the code puts together are in order.                   *)
LEMMA InOrderIs ==
  /\ NoticesInOrder(<< >>) /\ NoticesInOrder(<<CONN_FAIL>>)
  /\ \A m \in Nat : NoticesInOrder(Greeted(m)) /\ NoticesInOrder(Greeted(m) \o <<CLOSE>>)
<1>1. ASSUME NEW m \in Nat PROVE NoticesInOrder(Greeted(m)) /\ NoticesInOrder(Greeted(m) \o <<CLOSE>>)
  <2>1. PICK g \in Seq(Notice) : g = Greeted(m) /\ Len(g) = m + 1
    BY GreetedMore
  <2>2. g \o <<CLOSE>> = Append(g, CLOSE) /\ Len(Append(g, CLOSE)) = m + 2
    BY <2>1, NoticeIs
  <2>3. g = <<CONN_COMP>> \o [k \in 1..m |-> Packet(k)]
    <3>1. \A k \in 1..m : 0 + k = k
      OBVIOUS
    <3>2. Numbered(0, m) = [k \in 1..m |-> Packet(k)]
      BY <3>1 DEF Numbered
    <3>. QED
      BY <2>1, <3>2 DEF Greeted
  <2>4. m \in 0..Len(g) /\ m \in 0..Len(Append(g, CLOSE))
    BY <2>1, <2>2
  <2>5. NoticesInOrder(g) /\ NoticesInOrder(Append(g, CLOSE))
    BY <2>3, <2>4, Zenon DEF NoticesInOrder
  <2>. QED
    BY <2>1, <2>2, <2>5
<1>. QED
  BY <1>1, Zenon DEF NoticesInOrder

(* What is heard is a sequence of notices.                                 *)
LEMMA HeardType ==
  ASSUME Noted, NEW c \in Conn
  PROVE  Heard(c) \in Seq(Notice)
<1>1. seen[c] \in Seq(Notice) /\ What(gRcvBufq, c) \in Seq(Notice) /\ What(gRcvBufqTmp, c) \in Seq(Notice)
  BY WhatType DEF Noted
<1>2. PICK a \in Seq(Notice), b \in Seq(Notice), t \in Seq(Notice) :
        a = seen[c] /\ b = What(gRcvBufq, c) /\ t = What(gRcvBufqTmp, c)
  BY <1>1
<1>3. << >> \in Seq(Notice)
  OBVIOUS
<1>4. a \o b \in Seq(Notice)
  BY CatType
<1>5. (a \o b) \o t \in Seq(Notice) /\ (a \o b) \o << >> \in Seq(Notice)
  BY <1>3, <1>4, CatType
<1>. QED
  BY <1>2, <1>5 DEF Heard

(* Another notice. *)
LEMMA HeardMore ==
  ASSUME Noted, NEW b \in NoteBuf, tick # "spliced", tick' # "spliced", seen' = seen, gRcvBufq' = gRcvBufq,
         gone' = gone, gRcvBufqTmp' = Append(gRcvBufqTmp, b)
  PROVE  Noted' /\ \A c \in Conn : Heard(c)' = Heard(c) \o Ours(b, c)
<1>1. Noted'
  BY AppendAt DEF Noted
<1>2. ASSUME NEW c \in Conn PROVE Heard(c)' = Heard(c) \o Ours(b, c)
  <2>1. PICK x \in Seq(Notice), t \in Seq(Notice), o \in Seq(Notice) :
          x = seen[c] \o What(gRcvBufq, c) /\ t = What(gRcvBufqTmp, c) /\ o = Ours(b, c)
    <3>1. seen[c] \in Seq(Notice) /\ What(gRcvBufq, c) \in Seq(Notice)
      BY WhatType DEF Noted
    <3>2. seen[c] \o What(gRcvBufq, c) \in Seq(Notice)
      BY <3>1, CatType
    <3>. QED
      BY <3>2, WhatType, OursType DEF Noted
  <2>2. What(gRcvBufqTmp', c) = t \o o
    BY <2>1, WhatAppend DEF Noted
  <2>3. (x \o t) \o o = x \o (t \o o)
    OBVIOUS
  <2>4. Heard(c) = x \o t /\ Heard(c)' = x \o (t \o o)
    BY <2>1, <2>2 DEF Heard
  <2>. QED
    BY <2>1, <2>3, <2>4
<1>. QED
  BY <1>1, <1>2

(* Another notice of one connection is heard by it alone.                  *)
LEMMA NoteHeard ==
  ASSUME Noted, NEW c \in Conn, NEW x \in Notice, tick # "spliced", tick' # "spliced", seen' = seen,
         gone' = gone, gRcvBufq' = gRcvBufq, gRcvBufqTmp' = Append(gRcvBufqTmp, Note(c, x))
  PROVE  Noted' /\ Heard(c)' = Heard(c) \o <<x>> /\ \A d \in Conn : d # c => Heard(d)' = Heard(d)
<1>1. Note(c, x) \in NoteBuf /\ Ours(Note(c, x), c) = <<x>> /\ \A d \in Conn : d # c => Ours(Note(c, x), d) = << >>
  BY NoteIs
<1>2. Noted' /\ \A d \in Conn : Heard(d)' = Heard(d) \o Ours(Note(c, x), d)
  BY <1>1, HeardMore
<1>3. ASSUME NEW d \in Conn, d # c PROVE Heard(d)' = Heard(d)
  <2>1. Heard(d)' = Heard(d) \o << >>
    BY <1>1, <1>2, <1>3
  <2>2. Heard(d) \in Seq(Notice)
    BY HeardType
  <2>. QED
    BY <2>1, <2>2, CatType
<1>. QED
  BY <1>1, <1>2, <1>3

(* A connection that hears nothing new. *)
LEMMA HearsStill ==
  ASSUME NEW c \in Conn, Hears(c), Heard(c)' = Heard(c), Fresh(c)' => Fresh(c),
         Session(c)' => Session(c) /\ sess'[fdOf'[c]].bufr = sess[fdOf[c]].bufr,
         came'[c] = came[c],
         Fresh(c)' \/ Session(c)' => inq'[c] = inq[c]
  PROVE  Hears(c)'
<1>1. NoticesInOrder(Heard(c))'
  <2>1. NoticesInOrder(Heard(c))
    BY DEF Hears
  <2>. QED
    BY <2>1 DEF NoticesInOrder
<1>2. Fresh(c)' => Unheard(c)'
  BY DEF Hears, Unheard, ReadFrom
<1>3. ASSUME Session(c)' PROVE Listens(c)'
  <2>1. PICK m \in Nat : Heard(c) = Greeted(m) /\ ReadFrom(sess[fdOf[c]].bufr \o inq[c], m, Len(came[c]))
    BY <1>3 DEF Hears, Listens
  <2>2. PICK t : t = sess[fdOf[c]].bufr \o inq[c]
    OBVIOUS
  <2>3. sess'[fdOf'[c]].bufr \o inq'[c] = t
    BY <1>3, <2>2
  <2>. QED
    BY <2>1, <2>2, <2>3 DEF Listens
<1>. QED
  BY <1>1, <1>2, <1>3 DEF Hears

(* A step that reads nothing makes no session.                             *)
LEMMA SessionStill ==
  ASSUME 0 \notin Conn, Inv, Inv', NoRead, NEW c \in Conn, fdOf'[c] = fdOf[c] \/ fdOf[c] = 0, Session(c)'
  PROVE  Session(c) /\ sess'[fdOf'[c]].bufr = sess[fdOf[c]].bufr
<1>1. fdOf'[c] \in Fd /\ sess'[fdOf'[c]].sid = c /\ c # 0
  BY DEF Session, Inv, Types
<1>2. sess[fdOf'[c]].sid = c /\ sess'[fdOf'[c]].bufr = sess[fdOf'[c]].bufr
  BY <1>1 DEF NoRead
<1>3. fdOf[c] = fdOf'[c] /\ fdOf[c] # 0
  BY <1>1, <1>2 DEF Inv, OwnDescriptor, Session
<1>. QED
  BY <1>2, <1>3 DEF Session

(* A step that reads nothing and tells nothing. *)
LEMMA DeafHearing ==
  ASSUME 0 \notin Conn, Inv, Inv', Hearing, Noted', raced' = raced, NoRead,
         \A c \in Conn : /\ fdOf'[c] = fdOf[c] \/ fdOf[c] = 0
                         /\ Fresh(c)' => Fresh(c)
                         /\ Heard(c)' = Heard(c)
                         /\ came'[c] = came[c] /\ inq'[c] = inq[c]
  PROVE  Hearing'
<1>1. ASSUME NEW c \in Conn, Hears(c) PROVE Hears(c)'
  <2>1. Session(c)' => Session(c) /\ sess'[fdOf'[c]].bufr = sess[fdOf[c]].bufr
    BY SessionStill
  <2>. QED
    BY <1>1, <2>1, HearsStill
<1>. QED
  BY <1>1 DEF Hearing

(* One notice of the end and nothing after it. *)
LEMMA CloseHearing ==
  ASSUME 0 \notin Conn, 0 \notin Fd, Inv, Inv', Hearing, ~raced, raced' = raced, NEW f \in Fd, NEW s,
         s.sid = sess[f].sid, sess[f].sid # 0, close_session(f, s),
         tick # "spliced", tick' # "spliced", seen' = seen, gRcvBufq' = gRcvBufq, gone' = gone, fdOf' = fdOf,
         came' = came, NoneNew, \A d \in Conn : d # s.sid => inq'[d] = inq[d]
  PROVE  Hearing'
<1>1. PICK c \in Conn : c = s.sid /\ fdOf[c] = f
  BY DEF Inv, OwnDescriptor, Types
<1>2. Session(c) /\ ~Fresh(c)
  BY <1>1 DEF Session, Fresh, Waiting, Inv, Waits
<1>3. \A d \in Conn : Fresh(d)' => Fresh(d)
  BY FreshStill
<1>4. Noted' /\ Heard(c)' = Heard(c) \o <<CLOSE>> /\ \A d \in Conn : d # c => Heard(d)' = Heard(d)
  <2>1. gRcvBufqTmp' = Append(gRcvBufqTmp, Note(c, CLOSE))
    BY <1>1 DEF close_session
  <2>2. Noted
    BY DEF Hearing
  <2>. QED
    BY <2>1, <2>2, NoticeIs, NoteHeard
<1>5. NoRead
  BY ClosedNoRead
<1>6. ~Session(c)'
  <2>1. sess'[f].sid = 0 /\ fdOf'[c] = f
    BY <1>1, WipedIs DEF close_session, Inv, Types
  <2>. QED
    BY <2>1 DEF Session
<1>7. Hears(c)'
  <2>1. PICK m \in Nat : Heard(c) = Greeted(m)
    BY <1>2 DEF Hearing, Hears, Listens
  <2>2. PICK g : g = Greeted(m) \o <<CLOSE>> /\ NoticesInOrder(g)
    BY InOrderIs
  <2>3. Heard(c)' = g
    BY <1>4, <2>1, <2>2
  <2>. QED
    BY <1>2, <1>3, <1>6, <2>2, <2>3 DEF Hears, NoticesInOrder
<1>8. ASSUME NEW d \in Conn, d # c PROVE Hears(d)'
  <2>1. Session(d)' => Session(d) /\ sess'[fdOf'[d]].bufr = sess[fdOf[d]].bufr
    BY <1>5, SessionStill
  <2>2. Hears(d)
    BY DEF Hearing
  <2>. QED
    BY <1>1, <1>3, <1>4, <1>8, <2>1, <2>2, HearsStill
<1>. QED
  BY <1>4, <1>7, <1>8 DEF Hearing

(* The lists go on to the next without a change in their order. *)
LEMMA ListsHearing ==
  ASSUME 0 \notin Conn, Inv, Inv', Hearing, on_tick \/ TakeSndBufq \/ recv_bufq
  PROVE  Hearing'
<1>1. /\ sess' = sess /\ fdOf' = fdOf /\ came' = came /\ inq' = inq /\ gone' = gone /\ raced' = raced
  BY DEF on_tick, TakeSndBufq, recv_bufq, kernel, ghost
<1>2. NoneNew
  <2>1. CASE on_tick \/ recv_bufq
    BY <2>1, SameNone DEF on_tick, recv_bufq, SameLists, net
  <2>2. CASE TakeSndBufq
    BY <2>2, TakeStep
  <2>. QED
    BY <2>1, <2>2
<1>3. Noted
  BY DEF Hearing
<1>4. PICK B : B = Seq(NoteBuf)
  OBVIOUS
<1>5. PICK q \in B, r \in B : q = gRcvBufq /\ r = gRcvBufqTmp
  BY <1>3, <1>4 DEF Noted
<1>6. << >> \in Seq(NoteBuf) /\ << >> \in Seq(Notice)
  OBVIOUS
<1>7. ASSUME NEW c \in Conn
      PROVE  \E x \in Seq(Notice), y \in Seq(Notice), z \in Seq(Notice) :
               x = seen[c] /\ y = What(q, c) /\ z = What(r, c)
  <2>1. seen[c] \in Seq(Notice) /\ What(q, c) \in Seq(Notice) /\ What(r, c) \in Seq(Notice)
    BY <1>3, <1>4, <1>5, WhatType DEF Noted
  <2>. QED
    BY <2>1
<1>8. Noted' /\ \A c \in Conn : Heard(c)' = Heard(c)
  <2>1. CASE on_tick
    <3>1. gRcvBufq' = q \o r /\ gRcvBufqTmp' = r /\ tick # "spliced" /\ tick' = "spliced" /\ seen' = seen
      BY <1>5, <2>1 DEF on_tick, ghost
    <3>2. q \o r \in Seq(NoteBuf)
      BY <1>4, <1>5, CatType
    <3>3. ASSUME NEW c \in Conn PROVE Heard(c)' = Heard(c)
      <4>1. PICK x \in Seq(Notice), y \in Seq(Notice), z \in Seq(Notice) :
              x = seen[c] /\ y = What(q, c) /\ z = What(r, c)
        BY <1>7
      <4>2. What(q \o r, c) = y \o z
        BY <1>4, <1>5, <4>1, WhatCat
      <4>3. y \o z \in Seq(Notice)
        BY CatType
      <4>4. x \o (y \o z) \in Seq(Notice)
        BY <4>3, CatType
      <4>5. (x \o (y \o z)) \o << >> = x \o (y \o z)
        BY <4>4, CatType
      <4>6. (x \o y) \o z = x \o (y \o z)
        OBVIOUS
      <4>7. Heard(c)' = (x \o (y \o z)) \o << >>
        BY <3>1, <4>1, <4>2 DEF Heard
      <4>8. Heard(c) = (x \o y) \o z
        BY <1>5, <3>1, <4>1 DEF Heard
      <4>. QED
        BY <4>5, <4>6, <4>7, <4>8
    <3>4. Noted'
      BY <1>1, <1>3, <1>4, <1>5, <3>1, <3>2 DEF Noted
    <3>. QED
      BY <3>3, <3>4
  <2>2. CASE TakeSndBufq
    <3>1. gRcvBufq' = q /\ gRcvBufqTmp' = << >> /\ tick = "spliced" /\ tick' # "spliced" /\ seen' = seen
      BY <1>5, <2>2 DEF TakeSndBufq, AfterSplice, ghost
    <3>2. \A c \in Conn : Heard(c)' = Heard(c)
      BY <1>5, <3>1, WhatEmpty DEF Heard
    <3>3. Noted'
      BY <1>1, <1>3, <1>4, <1>5, <1>6, <3>1 DEF Noted
    <3>. QED
      BY <3>2, <3>3
  <2>3. CASE recv_bufq
    <3>1. gRcvBufq' = << >> /\ gRcvBufqTmp' = r /\ tick' = tick /\ seen' = [c \in Conn |-> seen[c] \o What(q, c)]
      BY <1>5, <2>3 DEF recv_bufq
    <3>2. ASSUME NEW c \in Conn PROVE Heard(c)' = Heard(c) /\ seen'[c] \in Seq(Notice)
      <4>1. PICK x \in Seq(Notice), y \in Seq(Notice) : x = seen[c] /\ y = What(q, c)
        BY <1>7
      <4>2. PICK w \in Seq(Notice) : w = x \o y
        BY CatType
      <4>3. w \o << >> = w
        BY CatType
      <4>4. seen'[c] = w /\ What(gRcvBufq', c) = << >>
        BY <3>1, <4>1, <4>2, WhatEmpty
      <4>5. seen[c] \o What(gRcvBufq, c) = w
        BY <1>5, <4>1, <4>2
      <4>6. PICK z : z = IF tick = "spliced" THEN << >> ELSE What(gRcvBufqTmp, c)
        OBVIOUS
      <4>7. Heard(c) = w \o z /\ Heard(c)' = (w \o << >>) \o z
        BY <1>5, <3>1, <4>4, <4>5, <4>6 DEF Heard
      <4>. QED
        BY <4>3, <4>4, <4>7
    <3>3. Noted'
      BY <1>1, <1>3, <1>4, <1>5, <1>6, <3>1, <3>2 DEF Noted
    <3>. QED
      BY <3>2, <3>3
  <2>. QED
    BY <2>1, <2>2, <2>3
<1>9. NoRead
  BY <1>1 DEF NoRead
<1>10. \A c \in Conn : Fresh(c)' => Fresh(c)
  BY <1>1, <1>2, FreshStill
<1>. QED
  BY <1>1, <1>8, <1>9, <1>10, DeafHearing

(* Steps that leave the lists of notices alone. *)
LEMMA MuteHearing ==
  ASSUME 0 \notin Conn, Inv, Inv', Hearing, NoRead, raced' = raced, came' = came, inq' = inq, seen' = seen,
         gRcvBufq' = gRcvBufq, gRcvBufqTmp' = gRcvBufqTmp, tick' = "spliced" <=> tick = "spliced",
         gone' \subseteq Conn,
         \A c \in Conn : (fdOf'[c] = fdOf[c] \/ fdOf[c] = 0) /\ (Fresh(c)' => Fresh(c))
  PROVE  Hearing'
<1>1. Noted'
  BY DEF Hearing, Noted
<1>2. \A c \in Conn : Heard(c)' = Heard(c)
  BY DEF Heard
<1>. QED
  BY <1>1, <1>2, DeafHearing

(* A write tells nothing.                                                  *)
LEMMA WriteHearing ==
  ASSUME NEW f \in Fd, NEW n, 0 \notin Conn, Inv, Inv', Hearing, common_write(f, n)
  PROVE  Hearing'
<1>. DEFINE s == sess[f]
            buf == IF s.bufw # << >> THEN s.bufw ELSE IF s.bufwq # << >> THEN NextBuf(s) ELSE << >>
            rest == [s EXCEPT !.state = "ok", !.bufw = SubSeq(buf, n + 1, Len(buf)),
                              !.bufwq = IF s.bufw = << >> /\ @ # << >> THEN Tail(@) ELSE @]
            new == [rest EXCEPT !.evw = Work(rest)]
<1>1. sess' = [sess EXCEPT ![f] = new]
  BY DEF common_write
<1>2. DOMAIN s = Fields
  BY DEF Inv, Types
<1>. HIDE DEF buf
<1>3. new.sid = s.sid /\ new.bufr = s.bufr /\ new.cap = s.cap
  BY <1>2 DEF Fields
<1>. HIDE DEF new
<1>4. NoRead
  BY <1>1, <1>3 DEF NoRead, Inv, Types
<1>5. /\ raced' = raced /\ came' = came /\ inq' = inq /\ seen' = seen /\ gone' = gone /\ tick' = tick
      /\ gRcvBufq' = gRcvBufq /\ gRcvBufqTmp' = gRcvBufqTmp /\ fdOf' = fdOf /\ SameLists
  BY DEF common_write, ghost, SameLists
<1>6. \A c \in Conn : Fresh(c)' => Fresh(c)
  BY <1>5, SameNone, FreshStill
<1>7. gone' \subseteq Conn
  BY <1>5 DEF Hearing, Noted
<1>. QED
  BY <1>4, <1>5, <1>6, <1>7, MuteHearing

(* Steps that leave the way to Lua alone.                                  *)
LEMMA QuietHearing ==
  ASSUME 0 \notin Conn, Inv, Inv', Hearing, NEW c \in Conn,
         send_buf(c) \/ disconnect(c) \/ PeerCloses(c) \/ UNCHANGED vars
  PROVE  Hearing'
<1>1. /\ sess' = sess /\ raced' = raced /\ came' = came /\ inq' = inq /\ seen' = seen /\ tick' = tick
      /\ gRcvBufq' = gRcvBufq /\ gRcvBufqTmp' = gRcvBufqTmp /\ fdOf' = fdOf
      /\ gone' = gone \/ gone' = gone \union {c}
  BY DEF send_buf, disconnect, PeerCloses, vars, net, kernel, ghost
<1>2. NoneNew
  <2>1. CASE send_buf(c) \/ disconnect(c)
    BY <2>1, LuaStep
  <2>2. CASE PeerCloses(c) \/ UNCHANGED vars
    BY <2>2, SameNone DEF PeerCloses, vars, net, SameLists
  <2>. QED
    BY <2>1, <2>2
<1>3. NoRead
  BY <1>1 DEF NoRead
<1>4. \A d \in Conn : Fresh(d)' => Fresh(d)
  BY <1>1, <1>2, FreshStill
<1>5. gone' \subseteq Conn
  BY <1>1 DEF Hearing, Noted
<1>. QED
  BY <1>1, <1>3, <1>4, <1>5, MuteHearing

(* Of a new connection nothing has been told.                              *)
LEMMA MadeHearing ==
  ASSUME 0 \notin Conn, 0 \notin Fd, Inv, Inv', Hearing, NEW c \in Conn, accept_callback(c) \/ connect_to(c)
  PROVE  Hearing'
<1>1. /\ sess' = sess /\ raced' = raced /\ came' = came /\ inq' = inq /\ seen' = seen /\ tick' = tick
      /\ gRcvBufq' = gRcvBufq /\ gRcvBufqTmp' = gRcvBufqTmp /\ gone' = gone
      /\ \E f \in Fd : makesid(c, f)
  BY DEF accept_callback, connect_to, ghost
<1>2. fdOf[c] = 0 /\ \A d \in Conn : d # c => fdOf'[d] = fdOf[d]
  BY <1>1 DEF makesid, Inv, Types
<1>3. \A l, i, d : At(l, i, d)' => At(l, i, d) \/ d = c
  BY AcceptStep, ConnectStep
<1>4. ASSUME NEW d \in Conn, Fresh(d)' PROVE Fresh(d)
  BY <1>2, <1>3, <1>4 DEF Fresh, Waiting
<1>5. NoRead
  BY <1>1 DEF NoRead
<1>6. gone' \subseteq Conn
  BY <1>1 DEF Hearing, Noted
<1>. QED
  BY <1>1, <1>2, <1>4, <1>5, <1>6, MuteHearing

(* A session that fails is told to be closed.                              *)
LEMMA FailHearing ==
  ASSUME 0 \notin Conn, 0 \notin Fd, Inv, Inv', Hearing, ~raced, NEW f \in Fd, ReadFails(f) \/ WriteFails(f)
  PROVE  Hearing'
<1>1. PICK s : s.sid = sess[f].sid /\ close_session(f, s)
  <2>1. CASE ReadFails(f)
    BY <2>1 DEF ReadFails
  <2>2. CASE WriteFails(f)
    <3>1. [sess[f] EXCEPT !.evw = FALSE].sid = sess[f].sid
      BY DEF Inv, Types, Fields
    <3>. QED
      BY <2>2, <3>1 DEF WriteFails
  <2>. QED
    BY <2>1, <2>2
<1>2. /\ tick = "loop" /\ tick' = tick /\ seen' = seen /\ gRcvBufq' = gRcvBufq /\ gone' = gone /\ fdOf' = fdOf
      /\ came' = came /\ inq' = inq /\ raced' = raced /\ SameLists
  BY DEF ReadFails, WriteFails, ghost, SameLists
<1>3. sess[f].sid # 0
  BY DEF ReadFails, WriteFails, Hearing, Noted
<1>4. NoneNew
  BY <1>2, SameNone
<1>5. tick # "spliced" /\ tick' # "spliced"
  BY <1>2
<1>. QED
  BY <1>1, <1>2, <1>3, <1>4, <1>5, CloseHearing

(* Of a connect that fails that is all that is told.                       *)
LEMMA ConnectorHearing ==
  ASSUME 0 \notin Conn, 0 \notin Fd, Inv, Inv', Hearing, ~raced, ConnectDone \/ ConnectFails
  PROVE  Hearing'
<1>1. /\ sess' = sess /\ came' = came /\ inq' = inq /\ seen' = seen /\ tick' = tick /\ fdOf' = fdOf
      /\ gRcvBufq' = gRcvBufq /\ gone' = gone /\ gConnectQue # << >> /\ gConnectQue' = Tail(gConnectQue)
  BY DEF ConnectDone, ConnectFails, kernel, ghost
<1>2. NoneNew /\ \A c \in Conn : Fresh(c)' => Fresh(c)
  BY <1>1, ConnectorStep, FreshStill
<1>3. NoRead
  BY <1>1 DEF NoRead
<1>4. CASE ConnectDone
  <2>1. raced' = raced /\ gRcvBufqTmp' = gRcvBufqTmp
    BY <1>4 DEF ConnectDone, ghost
  <2>2. gone' \subseteq Conn
    BY <1>1 DEF Hearing, Noted
  <2>. QED
    BY <1>1, <1>2, <1>3, <2>1, <2>2, MuteHearing
<1>5. CASE ConnectFails
  <2>1. PICK c \in Conn : c = Head(gConnectQue) /\ gConnectQue[1] = c /\ 1 \in DOMAIN gConnectQue
    BY <1>1, TailAt DEF Inv, Types
  <2>2. At("connect", 1, c)
    BY <2>1 DEF At
  <2>3. c \in held /\ fdOf[c] # 0 /\ ~Session(c) /\ Fresh(c)
    BY <2>2 DEF Inv, Waits, Types, Open, Session, Fresh, Waiting
  <2>4. ~Fresh(c)'
    <3>1. ASSUME NEW l, NEW i, At(l, i, c)' PROVE FALSE
      <4>1. gSndBufq' = gSndBufq /\ todo' = todo
        BY <1>5 DEF ConnectFails
      <4>2. CASE l = "connect"
        <5>1. i \in DOMAIN Tail(gConnectQue) /\ Tail(gConnectQue)[i] = c
          BY <1>1, <3>1, <4>2 DEF At
        <5>2. i + 1 \in DOMAIN gConnectQue /\ i + 1 # 1 /\ gConnectQue[i + 1] = c
          BY <1>1, <5>1, TailAt DEF Inv, Types
        <5>3. At("connect", i + 1, c)
          BY <5>2 DEF At
        <5>4. i + 1 = 1
          BY <2>2, <5>3 DEF Inv, Once
        <5>. QED
          BY <5>2, <5>4
      <4>3. CASE l # "connect"
        <5>1. At(l, i, c)
          BY <3>1, <4>1, <4>3 DEF At
        <5>. QED
          BY <2>2, <4>3, <5>1 DEF Inv, Once
      <4>. QED
        BY <4>2, <4>3
    <3>2. fdOf'[c] # 0
      BY <1>1, <2>3
    <3>. QED
      BY <3>1, <3>2 DEF Fresh, Waiting
  <2>5. \/ /\ gRcvBufqTmp' = Append(gRcvBufqTmp, Note(c, CONN_FAIL))
           /\ raced' = (raced \/ tick = "spliced")
        \/ /\ gRcvBufqTmp # << >> /\ raced' = TRUE
           /\ \E kept \in {Note(c, CONN_FAIL), Last(gRcvBufqTmp)} :
                gRcvBufqTmp' = Append(Front(gRcvBufqTmp), kept)
    BY <1>5, <2>1 DEF ConnectFails
  <2>6. Noted'
    <3>1. gRcvBufqTmp \in Seq(NoteBuf) /\ Note(c, CONN_FAIL) \in NoteBuf
      BY NoteIs, NoticeIs DEF Hearing, Noted
    <3>2. gRcvBufqTmp' \in Seq(NoteBuf)
      <4>1. CASE gRcvBufqTmp' = Append(gRcvBufqTmp, Note(c, CONN_FAIL))
        BY <3>1, <4>1, AppendAt
      <4>2. ASSUME gRcvBufqTmp # << >>, NEW kept \in {Note(c, CONN_FAIL), Last(gRcvBufqTmp)},
                   gRcvBufqTmp' = Append(Front(gRcvBufqTmp), kept)
            PROVE  gRcvBufqTmp' \in Seq(NoteBuf)
        <5>1. Len(gRcvBufqTmp) \in Nat \ {0}
          BY <3>1, <4>2, NotEmpty
        <5>2. Last(gRcvBufqTmp) \in NoteBuf
          BY <3>1, <5>1 DEF Last
        <5>3. Front(gRcvBufqTmp) \in Seq(NoteBuf)
          <6>1. Len(gRcvBufqTmp) - 1 \in 0..Len(gRcvBufqTmp)
            BY <5>1
          <6>. QED
            BY <3>1, <6>1, FirstOf DEF Front
        <5>4. kept \in NoteBuf
          BY <3>1, <4>2, <5>2
        <5>. QED
          BY <4>2, <5>3, <5>4, AppendAt
      <4>. QED
        BY <2>5, <4>1, <4>2
    <3>. QED
      BY <1>1, <3>2 DEF Hearing, Noted
  <2>7. CASE raced'
    BY <2>6, <2>7 DEF Hearing
  <2>8. CASE ~raced'
    <3>1. gRcvBufqTmp' = Append(gRcvBufqTmp, Note(c, CONN_FAIL)) /\ tick # "spliced"
      BY <2>5, <2>8
    <3>2. Heard(c)' = Heard(c) \o <<CONN_FAIL>> /\ \A d \in Conn : d # c => Heard(d)' = Heard(d)
      <4>1. Noted /\ tick' # "spliced"
        BY <1>1, <3>1 DEF Hearing
      <4>. QED
        BY <1>1, <3>1, <4>1, NoticeIs, NoteHeard
    <3>3. Hears(c)'
      <4>1. Heard(c) = << >>
        BY <2>3 DEF Hearing, Hears, Unheard
      <4>2. Heard(c)' = <<CONN_FAIL>>
        <5>1. << >> \o <<CONN_FAIL>> = <<CONN_FAIL>>
          OBVIOUS
        <5>. QED
          BY <3>2, <4>1, <5>1
      <4>3. ~Session(c)'
        BY <1>1, <2>3 DEF Session
      <4>. QED
        BY <2>4, <4>2, <4>3 DEF Hears, NoticesInOrder
    <3>4. ASSUME NEW d \in Conn, d # c PROVE Hears(d)'
      <4>1. Session(d)' => Session(d) /\ sess'[fdOf'[d]].bufr = sess[fdOf[d]].bufr
        BY <1>1, <1>3, SessionStill
      <4>2. Hears(d) /\ came'[d] = came[d] /\ inq'[d] = inq[d] /\ Heard(d)' = Heard(d)
        BY <1>1, <3>2, <3>4 DEF Hearing
      <4>. QED
        BY <1>2, <4>1, <4>2, HearsStill
    <3>. QED
      BY <2>6, <3>3, <3>4 DEF Hearing
  <2>. QED
    BY <2>7, <2>8
<1>. QED
  BY <1>4, <1>5

(* What a peer sends comes after what it has sent. *)
LEMMA PeerHearing ==
  ASSUME 0 \notin Conn, Size \subseteq Nat, Inv, Inv', Kept, Hearing, NEW c \in Conn, NEW size \in Size,
         PeerSends(c, size)
  PROVE  Hearing'
<1>1. /\ sess' = sess /\ fdOf' = fdOf /\ seen' = seen /\ gRcvBufq' = gRcvBufq /\ gRcvBufqTmp' = gRcvBufqTmp
      /\ tick' = tick /\ gone' = gone /\ raced' = raced /\ SameLists
      /\ came' = [came EXCEPT ![c] = Append(@, size)]
      /\ inq' = [inq EXCEPT ![c] = @ \o Units(Len(came'[c]), size)]
  BY DEF PeerSends, SameLists, net
<1>2. came[c] \in Seq(Nat) /\ inq[c] \in Seq(Unit) /\ size \in Nat
  BY DEF Kept, Typed
<1>3. PICK n \in Nat : n = Len(came[c])
  BY <1>2
<1>4. Len(came'[c]) = n + 1
  <2>1. came'[c] = Append(came[c], size)
    BY <1>1 DEF Kept, Typed
  <2>. QED
    BY <1>2, <1>3, <2>1
<1>5. PICK u \in Seq(Unit) : u = Units(n + 1, size)
  BY <1>2, UnitsAt, n + 1 \in Nat
<1>6. inq'[c] = inq[c] \o u
  BY <1>1, <1>4, <1>5 DEF Kept, Typed
<1>7. \A d \in Conn \ {c} : came'[d] = came[d] /\ inq'[d] = inq[d]
  BY <1>1 DEF Kept, Typed
<1>8. Noted' /\ \A d \in Conn : Heard(d)' = Heard(d)
  BY <1>1 DEF Hearing, Noted, Heard
<1>9. (\A d \in Conn : Fresh(d)' => Fresh(d)) /\ \A d \in Conn : Session(d)' <=> Session(d)
  BY <1>1, SameNone, FreshStill DEF Session
<1>10. ASSUME NEW d \in Conn, d # c, Hears(d) PROVE Hears(d)'
  BY <1>1, <1>7, <1>8, <1>9, <1>10, HearsStill
<1>11. ASSUME Hears(c) PROVE Hears(c)'
  <2>1. ASSUME NEW m \in Nat, NEW q \in Seq(Unit), ReadFrom(q, m, n), NEW t, t = q \o u
        PROVE  ReadFrom(t, m, n + 1)
    BY <1>2, <1>5, <2>1, ReadGrows
  <2>2. NoticesInOrder(Heard(c))'
    <3>1. NoticesInOrder(Heard(c)) /\ Heard(c)' = Heard(c)
      BY <1>8, <1>11 DEF Hears
    <3>. QED
      BY <3>1 DEF NoticesInOrder
  <2>3. ASSUME Fresh(c)' PROVE Unheard(c)'
    <3>1. Heard(c) = << >> /\ ReadFrom(inq[c], 0, n)
      BY <1>3, <1>9, <1>11, <2>3 DEF Hears, Unheard
    <3>2. ReadFrom(inq'[c], 0, n + 1)
      BY <1>2, <1>6, <2>1, <3>1
    <3>. QED
      BY <1>4, <1>8, <3>1, <3>2 DEF Unheard
  <2>4. ASSUME Session(c)' PROVE Listens(c)'
    <3>1. PICK m \in Nat : Heard(c) = Greeted(m) /\ ReadFrom(sess[fdOf[c]].bufr \o inq[c], m, n)
      BY <1>3, <1>9, <1>11, <2>4 DEF Hears, Listens
    <3>2. fdOf[c] \in Fd
      BY <1>9, <2>4 DEF Session, Inv, Types
    <3>3. PICK a \in Seq(Unit), b \in Seq(Unit) : a = sess[fdOf[c]].bufr /\ b = inq[c]
      BY <1>2, <3>2 DEF Kept, Typed
    <3>4. PICK q \in Seq(Unit) : q = a \o b
      BY CatType
    <3>5. PICK t : t = q \o u
      OBVIOUS
    <3>6. ReadFrom(q, m, n)
      BY <3>1, <3>3, <3>4
    <3>7. ReadFrom(t, m, n + 1)
      BY <2>1, <3>5, <3>6
    <3>8. (a \o b) \o u = a \o (b \o u)
      BY Regroup
    <3>9. sess'[fdOf'[c]].bufr \o inq'[c] = t
      BY <1>1, <1>6, <3>3, <3>4, <3>5, <3>8
    <3>. QED
      BY <1>4, <1>8, <3>1, <3>7, <3>9 DEF Listens
  <2>. QED
    BY <2>2, <2>3, <2>4 DEF Hears
<1>. QED
  BY <1>1, <1>8, <1>10, <1>11 DEF Hearing

(* A read moves units to the buffer and hands the whole packets over. *)
LEMMA ReadHearing ==
  ASSUME 0 \notin Conn, 0 \notin Fd, Inv, Inv', Kept, Hearing, ~raced, NEW f \in Fd, NEW n, common_read(f, n)
  PROVE  Hearing'
<1>. DEFINE s == sess[f]
<1>0. PICK c \in Conn : c = s.sid
  BY DEF common_read, Inv, Types, OwnDescriptor
<1>. DEFINE buf == s.bufr \o SubSeq(inq[c], 1, n)
            done == Whole(buf)
            rest == SubSeq(inq[c], n + 1, Len(inq[c]))
<1>1. /\ s.sid = c /\ c # 0 /\ s.bufr \in Seq(Unit) /\ inq[c] \in Seq(Unit) /\ fdOf[c] = f
      /\ s.cap \in Nat /\ Buffered(s.bufr, s.cap)
  BY <1>0 DEF common_read, Inv, Types, OwnDescriptor, Kept, Typed, Reads
<1>2. n \in 1..Len(inq[c])
  <2>1. s.cap - Len(s.bufr) \in Nat
    BY <1>1 DEF Buffered
  <2>2. n \in 1..Fits(s) /\ Fits(s) = Min({Len(inq[c]), s.cap - Len(s.bufr)})
    BY <1>1 DEF common_read, Fits
  <2>3. PICK a \in Nat, b \in Nat : a = Len(inq[c]) /\ b = s.cap - Len(s.bufr)
    BY <1>1, <2>1
  <2>4. n \in 1..Min({a, b})
    BY <2>2, <2>3
  <2>. QED
    BY <2>3, <2>4, MinOfTwo
<1>3. /\ SameLists /\ fdOf' = fdOf /\ came' = came /\ gone' = gone /\ raced' = raced /\ seen' = seen
      /\ gRcvBufq' = gRcvBufq /\ tick = "loop" /\ tick' = tick
      /\ inq' = [inq EXCEPT ![c] = rest]
  BY <1>1 DEF common_read, SameLists, ghost
<1>4. SubSeq(inq[c], 1, n) \in Seq(Unit) /\ Len(SubSeq(inq[c], 1, n)) = n /\ rest \in Seq(Unit) /\ n \in 0..Len(inq[c])
  <2>1. n \in 0..Len(inq[c])
    BY <1>1, <1>2
  <2>. QED
    BY <1>1, <2>1, FirstOf, RestOf
<1>5. buf \in Seq(Unit) /\ buf # << >>
  <2>1. PICK p \in Seq(Unit), x \in Seq(Unit) : p = s.bufr /\ x = SubSeq(inq[c], 1, n)
    BY <1>1, <1>4
  <2>2. p \o x \in Seq(Unit) /\ Len(p \o x) = Len(p) + Len(x) /\ Len(p) \in Nat
    BY CatAt
  <2>3. Len(p \o x) # 0
    BY <1>2, <1>4, <2>1, <2>2
  <2>4. p \o x # << >>
    BY <2>2, <2>3, NotEmpty
  <2>. QED
    BY <2>1, <2>2, <2>4
<1>6. buf \o rest = s.bufr \o inq[c]
  <2>1. PICK p \in Seq(Unit), q \in Seq(Unit) : p = s.bufr /\ q = inq[c]
    BY <1>1
  <2>2. (p \o SubSeq(q, 1, n)) \o SubSeq(q, n + 1, Len(q)) = p \o q
    BY <1>4, <2>1, Reread
  <2>. QED
    BY <2>1, <2>2
<1>7. inq'[c] = rest /\ \A d \in Conn \ {c} : inq'[d] = inq[d]
  BY <1>1, <1>3, <1>4 DEF Kept, Typed
<1>8. NoneNew /\ (\A d \in Conn : Fresh(d)' => Fresh(d)) /\ tick # "spliced" /\ tick' # "spliced"
  BY <1>3, SameNone, FreshStill
<1>9. Noted /\ Session(c) /\ ~Fresh(c) /\ Hears(c)
  BY <1>1 DEF Hearing, Session, Fresh, Waiting, Inv, Waits
<1>10. PICK m \in Nat : Heard(c) = Greeted(m) /\ ReadFrom(s.bufr \o inq[c], m, Len(came[c]))
  BY <1>1, <1>9 DEF Hears, Listens
<1>11. CASE Malformed(buf)
  <2>1. close_session(f, s)
    BY <1>1, <1>11 DEF common_read
  <2>. QED
    BY <1>1, <1>3, <1>7, <1>8, <2>1, CloseHearing
<1>12. CASE ~Malformed(buf)
  <2>. DEFINE left == IF done > 0 THEN Rest(buf, done) ELSE buf
              room == IF done > 0 THEN Max({Room, Len(buf) - done}) ELSE Grown(buf, s.cap)
              told == PacketsOf(buf)
  <2>1. sess' = [sess EXCEPT ![f].bufr = left, ![f].cap = room]
    BY <1>1, <1>12 DEF common_read
  <2>2. done > 0 \/ gRcvBufqTmp' = gRcvBufqTmp
    BY <1>1, <1>12 DEF common_read
  <2>3. done > 0 => gRcvBufqTmp' = Append(gRcvBufqTmp, [sid |-> c, what |-> told])
    BY <1>1, <1>12 DEF common_read
  <2>4. PICK l \in Nat : l = Len(came[c])
    BY <1>1 DEF Kept, Typed
  <2>5. PICK t \in Seq(Unit) : t = buf \o rest
    <3>. HIDE DEF buf, rest
    <3>. QED
      BY <1>4, <1>5, CatType
  <2>6. ReadFrom(t, m, l)
    BY <1>6, <1>10, <2>4, <2>5
  <2>. HIDE DEF left, room, buf, rest
  <2>7. PICK k \in Nat : told = Numbered(m, k) /\ ReadFrom(Rest(buf, done) \o rest, m + k, l)
    BY <1>4, <1>5, <1>12, <2>4, <2>5, <2>6, PacketsRead
  <2>8. told \in Seq(Notice)
    BY <2>7, NumberedAt
  <2>9. Noted' /\ (\A d \in Conn : d # c => Heard(d)' = Heard(d))
        /\ \E j \in Nat : Heard(c)' = Greeted(j) /\ ReadFrom(left \o rest, j, l)
    <3>1. CASE done > 0
      <4>1. PICK b \in NoteBuf : b = [sid |-> c, what |-> told]
        BY <1>1, <2>8 DEF NoteBuf
      <4>2. Ours(b, c) = told /\ \A d \in Conn : d # c => Ours(b, d) = << >>
        BY <4>1 DEF Ours
      <4>3. Noted' /\ \A d \in Conn : Heard(d)' = Heard(d) \o Ours(b, d)
        BY <1>3, <1>8, <1>9, <2>3, <3>1, <4>1, HeardMore
      <4>4. ASSUME NEW d \in Conn, d # c PROVE Heard(d)' = Heard(d)
        <5>1. Heard(d)' = Heard(d) \o << >>
          BY <4>2, <4>3, <4>4
        <5>2. Heard(d) \in Seq(Notice)
          BY <1>9, HeardType
        <5>. QED
          BY <5>1, <5>2, CatType
      <4>5. Heard(c)' = Greeted(m + k)
        <5>1. Heard(c)' = Heard(c) \o told
          BY <4>2, <4>3
        <5>2. Greeted(m) \o Numbered(m, k) = Greeted(m + k)
          BY GreetedMore
        <5>. QED
          BY <1>10, <2>7, <5>1, <5>2, Zenon
      <4>6. m + k \in Nat /\ ReadFrom(left \o rest, m + k, l)
        BY <2>7, <3>1 DEF left
      <4>. QED
        BY <4>3, <4>4, <4>5, <4>6
    <3>2. CASE ~(done > 0)
      <4>1. gRcvBufqTmp' = gRcvBufqTmp
        BY <2>2, <3>2
      <4>2. Noted' /\ \A d \in Conn : Heard(d)' = Heard(d)
        BY <1>3, <1>9, <4>1 DEF Noted, Heard
      <4>3. ReadFrom(left \o rest, m, l)
        BY <2>5, <2>6, <3>2 DEF left
      <4>. QED
        BY <1>1, <1>10, <4>2, <4>3
    <3>. QED
      BY <3>1, <3>2
  <2>10. /\ sess'[f].sid = c /\ sess'[f].bufr = left
         /\ \A g \in Fd \ {f} : sess'[g] = sess[g]
    <3>1. DOMAIN sess[f] = Fields /\ DOMAIN sess = Fd
      BY DEF Inv, Types
    <3>. QED
      BY <1>1, <2>1, <3>1 DEF Fields
  <2>11. Hears(c)'
    <3>1. PICK j \in Nat : Heard(c)' = Greeted(j) /\ ReadFrom(left \o rest, j, l)
      BY <2>9
    <3>2. NoticesInOrder(Greeted(j))
      BY InOrderIs
    <3>3. NoticesInOrder(Heard(c))'
      BY <3>1, <3>2 DEF NoticesInOrder
    <3>4. Listens(c)'
      BY <1>1, <1>3, <1>7, <2>4, <2>10, <3>1 DEF Listens
    <3>. QED
      BY <1>1, <1>8, <1>9, <3>3, <3>4 DEF Hears
  <2>12. ASSUME NEW d \in Conn, d # c PROVE Hears(d)'
    <3>1. Session(d)' => Session(d) /\ sess'[fdOf'[d]].bufr = sess[fdOf[d]].bufr
      <4>1. ASSUME Session(d)' PROVE fdOf[d] \in Fd /\ fdOf[d] # f
        <5>1. fdOf[d] # 0 /\ sess'[fdOf[d]].sid = d
          BY <1>3, <4>1 DEF Session
        <5>. QED
          BY <2>10, <2>12, <5>1 DEF Inv, Types
      <4>. QED
        BY <1>3, <2>10, <4>1 DEF Session
    <3>2. Hears(d)
      BY DEF Hearing
    <3>. QED
      BY <1>3, <1>7, <1>8, <2>9, <2>12, <3>1, <3>2, HearsStill
  <2>. QED
    BY <2>9, <2>11, <2>12 DEF Hearing
<1>. QED
  BY <1>11, <1>12

(* A new session is the first that Lua hears of the connection. *)
LEMMA IncomeHearing ==
  ASSUME 0 \notin Conn, 0 \notin Fd, Inv, Inv', Kept, Hearing, ~raced, raced' = raced, tick # "spliced",
         Shorter, NoneNew, came' = came, inq' = inq, seen' = seen, gRcvBufq' = gRcvBufq, gone' = gone,
         Income(Head(todo)), AddIncome(Head(todo))
  PROVE  Hearing'
<1>0. PICK b : b = Head(todo)
  OBVIOUS
<1>1. PICK c \in Conn : c = b.arg /\ Waiting(c) /\ \A f \in Fd : sess[f].sid # c
  <2>1. At("todo", 1, b.arg) /\ b.arg \in held
    BY <1>0, ShorterOnce DEF Inv, Waits
  <2>2. b.arg \in Conn
    BY <2>1 DEF Inv, Types
  <2>3. \A f \in Fd : sess[f].sid # b.arg
    BY <2>1 DEF Inv, Waits
  <2>4. Waiting(b.arg)
    BY <2>1 DEF Waiting
  <2>. QED
    BY <2>2, <2>3, <2>4
<1>2. ~Waiting(c)'
  <2>1. \A l, i : ~At(l, i, c)'
    BY <1>0, <1>1, ShorterOnce
  <2>. QED
    BY <2>1 DEF Waiting
<1>3. fdOf[c] \in Fd /\ sess[fdOf[c]].sid = 0
  BY <1>1 DEF Inv, Types, Open, OwnDescriptor, Waits, Waiting
<1>4. PICK new : /\ new.sid = c /\ new.bufr = << >>
                 /\ sess' = [sess EXCEPT ![fdOf[c]] = new]
  <2>. DEFINE new == [Free EXCEPT !.sid = b.arg, !.state = IF b.seed THEN "seed" ELSE "ok", !.evw = b.seed]
  <2>1. sess' = [sess EXCEPT ![fdOf[c]] = new]
    BY <1>0, <1>1 DEF AddIncome
  <2>2. new.sid = c /\ new.bufr = << >>
    BY <1>1 DEF Free
  <2>. HIDE DEF new
  <2>. QED
    BY <2>1, <2>2
<1>5. /\ sess'[fdOf[c]].sid = c /\ sess'[fdOf[c]].bufr = << >> /\ \A f \in Fd \ {fdOf[c]} : sess'[f] = sess[f]
      /\ fdOf' = fdOf /\ tick' # "spliced"
  BY <1>3, <1>4 DEF Inv, Types, Shorter
<1>6. gRcvBufqTmp' = Append(gRcvBufqTmp, Note(c, CONN_COMP))
  BY <1>0, <1>1 DEF AddIncome
<1>7. Noted' /\ Heard(c)' = Heard(c) \o <<CONN_COMP>> /\ \A d \in Conn : d # c => Heard(d)' = Heard(d)
  BY <1>5, <1>6, NoticeIs, NoteHeard DEF Hearing
<1>8. \A d \in Conn : Fresh(d)' => Fresh(d)
  BY <1>5, FreshStill
<1>9. Hears(c)'
  <2>1. Heard(c) = << >> /\ ReadFrom(inq[c], 0, Len(came[c])) /\ inq[c] \in Seq(Unit)
    BY <1>1 DEF Hearing, Hears, Fresh, Unheard, Kept, Typed
  <2>2. << >> \o <<CONN_COMP>> = <<CONN_COMP>> /\ <<CONN_COMP>> \o << >> = <<CONN_COMP>>
    OBVIOUS
  <2>3. Numbered(0, 0) = << >>
    BY DEF Numbered
  <2>4. Heard(c)' = Greeted(0)
    BY <1>7, <2>1, <2>2, <2>3 DEF Greeted
  <2>5. NoticesInOrder(Greeted(0))
    BY InOrderIs
  <2>6. NoticesInOrder(Heard(c))'
    BY <2>4, <2>5 DEF NoticesInOrder
  <2>7. << >> \o inq[c] = inq[c]
    BY <2>1
  <2>8. ReadFrom(sess'[fdOf'[c]].bufr \o inq'[c], 0, Len(came'[c]))
    BY <1>5, <2>1, <2>7
  <2>9. Listens(c)'
    BY <2>4, <2>8 DEF Listens
  <2>10. ~Fresh(c)'
    BY <1>2, <1>3, <1>5 DEF Fresh, Waiting
  <2>. QED
    BY <2>6, <2>9, <2>10 DEF Hears
<1>10. ASSUME NEW d \in Conn, d # c PROVE Hears(d)'
  <2>1. Session(d)' => Session(d) /\ sess'[fdOf'[d]].bufr = sess[fdOf[d]].bufr
    <3>1. ASSUME Session(d)' PROVE fdOf[d] \in Fd /\ fdOf[d] # fdOf[c]
      <4>1. fdOf[d] # 0 /\ sess'[fdOf[d]].sid = d
        BY <1>5, <3>1 DEF Session
      <4>. QED
        BY <1>5, <1>10, <4>1 DEF Inv, Types
    <3>. QED
      BY <1>5, <3>1 DEF Session
  <2>2. Hears(d)
    BY DEF Hearing
  <2>. QED
    BY <1>7, <1>8, <1>10, <2>1, <2>2, HearsStill
<1>. QED
  BY <1>7, <1>9, <1>10 DEF Hearing

(* The event thread opens a session, closes one, or passes a buffer on.    *)
LEMMA HandleHearing ==
  ASSUME 0 \notin Conn, 0 \notin Fd, Inv, Inv', Kept, Hearing, ~raced, HandleBuf
  PROVE  Hearing'
<1>1. PICK b : b = Head(todo)
  OBVIOUS
<1>2. Shorter /\ tick # "spliced" /\ tick' # "spliced"
  BY DEF HandleBuf, Shorter, Inv, Types, ghost
<1>3. /\ raced' = raced /\ came' = came /\ inq' = inq /\ seen' = seen /\ gRcvBufq' = gRcvBufq /\ gone' = gone
      /\ fdOf' = fdOf
  BY DEF HandleBuf, ghost
<1>4. NoneNew /\ b \in Buf /\ (\A c \in Conn : Fresh(c)' => Fresh(c)) /\ gone' \subseteq Conn
  <2>1. NoneNew /\ b \in Buf
    BY <1>1, <1>2, ShorterOnce DEF NoneNew
  <2>. QED
    BY <1>3, <2>1, FreshStill DEF Hearing, Noted
<1>5. CASE b.sid # 0 /\ Session(b.sid)
           /\ sess' = [sess EXCEPT ![fdOf[b.sid]].evw = @ \/ Arm(sess[fdOf[b.sid]]),
                                   ![fdOf[b.sid]].bufwq = Append(@, b.arg)]
           /\ UNCHANGED <<held, gRcvBufqTmp>>
  <2>1. NoRead
    BY <1>5 DEF NoRead, Inv, Types, Fields
  <2>. QED
    BY <1>2, <1>3, <1>4, <1>5, <2>1, MuteHearing
<1>6. CASE b.sid = 0 /\ b.cmd = "income" /\ AddIncome(b)
  BY <1>1, <1>2, <1>3, <1>4, <1>6, IncomeHearing DEF Income
<1>7. CASE b.sid = 0 /\ b.cmd = "close" /\ Session(b.arg) /\ close_session(fdOf[b.arg], sess[fdOf[b.arg]])
  <2>1. b.arg \in Conn
    BY <1>4, <1>7 DEF Buf
  <2>2. PICK f \in Fd : f = fdOf[b.arg] /\ sess[f].sid = b.arg /\ close_session(f, sess[f])
    BY <1>7, <2>1 DEF Session, Inv, Types
  <2>3. sess[f].sid # 0
    BY <2>1, <2>2
  <2>. QED
    BY <1>2, <1>3, <1>4, <2>2, <2>3, CloseHearing
<1>8. CASE UNCHANGED <<sess, held, gRcvBufqTmp>>
  <2>1. NoRead
    BY <1>8 DEF NoRead
  <2>. QED
    BY <1>2, <1>3, <1>4, <1>8, <2>1, MuteHearing
<1>. QED
  BY <1>1, <1>5, <1>6, <1>7, <1>8 DEF HandleBuf

(* Every step but the race keeps what is heard in order.                   *)
LEMMA NextHearing ==
  ASSUME 0 \notin Conn, 0 \notin Fd, Size \subseteq Nat, Inv, Inv', Kept, Hearing, [Next]_vars
  PROVE  Hearing'
<1>1. CASE UNCHANGED vars
  <2>1. CASE Conn = {}
    <3>1. Noted'
      BY <1>1 DEF Hearing, Noted, vars, net, kernel, ghost
    <3>. QED
      BY <2>1, <3>1 DEF Hearing
  <2>2. CASE Conn # {}
    <3>1. PICK c \in Conn : TRUE
      BY <2>2
    <3>. QED
      BY <1>1, <3>1, QuietHearing
  <2>. QED
    BY <2>1, <2>2
<1>2. CASE Next
  <2>1. ~raced
    BY <1>2 DEF Next
  <2>2. CASE on_tick \/ TakeSndBufq \/ recv_bufq
    BY <2>2, ListsHearing
  <2>3. CASE HandleBuf
    BY <2>1, <2>3, HandleHearing
  <2>4. ASSUME NEW f \in Fd, ReadFails(f) \/ WriteFails(f) PROVE Hearing'
    BY <2>1, <2>4, FailHearing
  <2>5. ASSUME NEW f \in Fd, NEW n, common_write(f, n) PROVE Hearing'
    BY <2>5, WriteHearing
  <2>6. ASSUME NEW f \in Fd, NEW n, common_read(f, n) PROVE Hearing'
    BY <2>1, <2>6, ReadHearing
  <2>7. CASE ConnectDone \/ ConnectFails
    BY <2>1, <2>7, ConnectorHearing
  <2>8. ASSUME NEW c \in Conn, accept_callback(c) \/ connect_to(c) PROVE Hearing'
    BY <2>8, MadeHearing
  <2>9. ASSUME NEW c \in Conn, send_buf(c) \/ disconnect(c) \/ PeerCloses(c) PROVE Hearing'
    BY <2>9, QuietHearing
  <2>10. ASSUME NEW c \in Conn, NEW size \in Size, PeerSends(c, size) PROVE Hearing'
    BY <2>10, PeerHearing
  <2>. QED
    BY <1>2, <2>2, <2>3, <2>4, <2>5, <2>6, <2>7, <2>8, <2>9, <2>10 DEF Next, EventStep
<1>. QED
  BY <1>1, <1>2

(* At the start nothing has come and nothing is told.                      *)
LEMMA InitHearing == Init => Hearing
<1>. SUFFICES ASSUME Init PROVE Hearing
  OBVIOUS
<1>1. Noted
  <2>1. \A S : << >> \in Seq(S)
    OBVIOUS
  <2>. QED
    BY <2>1 DEF Init, Noted
<1>2. ASSUME NEW c \in Conn PROVE Hears(c)
  <2>1. Heard(c) = << >>
    <3>1. seen[c] = << >> /\ What(gRcvBufq, c) = << >> /\ What(gRcvBufqTmp, c) = << >>
      BY WhatEmpty DEF Init
    <3>2. << >> \o << >> = << >>
      OBVIOUS
    <3>. QED
      BY <3>1, <3>2 DEF Heard
  <2>2. inq[c] = << >> /\ came[c] = << >> /\ fdOf[c] = 0
    BY DEF Init
  <2>3. ReadFrom(inq[c], 0, Len(came[c]))
    BY <2>2 DEF ReadFrom, InSequence
  <2>. QED
    BY <2>1, <2>2, <2>3, InOrderIs DEF Hears, Unheard, Session
<1>. QED
  BY <1>1, <1>2 DEF Hearing

(* Whatever the packets and however they are cut, whenever the lists are   *)
(* taken and whatever step comes between: until the race of the connecter, *)
(* Lua hears of a connection that it is there, its packets in their order  *)
(* without a gap or a repetition, one notice of its end and nothing after  *)
(* it; and what a peer gets are the whole buffers sent to its very         *)
(* session, in order (net.c: on_tick, on_handle_buf, common_read,          *)
(* common_write, close_session; recv_bufq).                                *)
THEOREM InOrderHolds == Spec => []InOrder
<1>0. /\ 0 \notin Fd /\ 0 \notin Conn /\ Called \subseteq Conn
      /\ Room \in Nat \ {0} /\ MaxPacket \in Nat /\ Size \subseteq Nat
  BY NetAssumption
<1>. DEFINE All == Inv /\ Kept /\ Sending /\ Hearing
<1>1. Init => All
  BY <1>0, InitInv, InitKept, InitSending, InitHearing
<1>2. All /\ [Next]_vars => All'
  <2> SUFFICES ASSUME All, [Next]_vars PROVE All'
    OBVIOUS
  <2>1. Inv' /\ Kept'
    BY <1>0, NextInv, NextKept
  <2>. QED
    BY <1>0, <2>1, NextSending, NextHearing
<1>3. All => InOrder
  BY DEF Sending, Sends, Hearing, Hears, InOrder
<1>. QED
  BY <1>1, <1>2, <1>3, PTL DEF Spec
=============================================================================
