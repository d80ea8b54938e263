------------------------------- MODULE MCLua -------------------------------
(* Model-checking instance of what C gives to the Lua thread, one at a     *)
(* time: the rank list (SkipList), packed values (MsgPack), documents      *)
(* (Bson), the connection to the database (Mongo), packets (Packet), free  *)
(* places of the map (Places); and what carries it: the lists of the       *)
(* threads (Ring) and a byte stream of the gate (Stream).                  *)
EXTENDS SkipList

VARIABLES part,                                        \* the module that runs
          m_args, m_buf, m_bytes, m_given, m_got, m_offset, m_err,
          b_doc, b_want, b_index, b_out, b_err,
          p_frame, p_buf, p_rpc, p_snd, p_rcv, p_recv, p_pull, p_adding, p_reading, p_sent, p_taken,
          p_begun, p_over,
          d_sn, d_pend, d_cursor, d_handed, d_wire, d_writes, d_replies, d_open, d_lost, d_dead,
          r_next, r_prev, r_loose,
          w_land, w_placed, w_asked, w_found,
          s_mode, s_encode, s_state, s_pid, s_bufwq, s_bufw, s_ctxw, s_ctxr, s_bufr, s_down, s_up,
          s_peerw, s_peerr, s_put, s_heard, s_told, s_got, s_slipped, s_early

N(n) == <<"int", n>>

-----------------------------------------------------------------------------
(* Values to pack: both ends of every form, nested and mixed tables.       *)
Str(n) == <<"str", [i \in 1..n |-> <<"char", i>>]>>
Row(f) == <<"tab", {<<N(i), f[i]>> : i \in DOMAIN f}>>
Packed ==
  {N(n) : n \in {0, 1, 2, 3, 4, 15, 16, 255, 256, 65535, -1, -2, -3, -8, -9, -128, -129, -32768}}
  \cup {Str(n) : n \in {0, 1, 2, 3, 4, 15, 16}}
  \cup {<<"nil">>, <<"bool", TRUE>>, <<"other">>, <<"whole", 3>>, <<"single", 1>>, <<"double", 1>>,
        Row(<<>>), Row(<<<<"other">>>>), Row(<<N(1), N(5)>>), Row([i \in 1..16 |-> N(0)]),
        Row(<<Row(<<Row(<<N(7)>>), N(2)>>)>>),
        <<"tab", {<<N(0), N(4)>>}>>, <<"tab", {<<Str(1), Row(<<N(4)>>)>>, <<Str(3), N(4)>>}>>,
        <<"tab", {<<N(i), N(9)>> : i \in {1, 3}}>>,
        <<"tab", {<<N(257), N(9)>>}>>,
        <<"tab", {<<N(i), N(9)>> : i \in 2..17}>>}
PackedFew == {N(3), <<"nil">>, Str(15), Row([i \in 1..16 |-> N(0)]), <<"whole", 3>>}
CArgs == {<<v>> : v \in Packed} \cup [1..2 -> PackedFew] \cup {<<Str(1), Str(16), Str(3)>>}

M == INSTANCE MsgPack WITH
       Byte <- 4, FixPos <- 1, FixNeg <- 1, FixStr <- 1, FixTab <- 1, IntMod <- 256,
       MaxNesting <- 2, ArgLists <- CArgs,
       args <- m_args, mp_buf <- m_buf, bytes <- m_bytes, given <- m_given,
       got <- m_got, offset <- m_offset, err <- m_err

-----------------------------------------------------------------------------
(* Tables to store: every type, keys that read as numbers, arrays, mixed   *)
(* tables in the orders lua_next may give, too deep ones, metatables.      *)
Ch(c) == <<<<"char", c>>>>
K(c) == <<"str", Ch(c)>>
Dec(n) == <<"str", <<<<"dec", n>>>>>>
List(f) == <<"tab", [i \in DOMAIN f |-> <<N(i), f[i]>>], Len(f)>>
Tab(f) == <<"tab", f, 0>>
Chars(n) == [i \in 1..n |-> <<"char", i>>]
New(type, x) == <<"new", type, x>>
Stored ==
  {N(n) : n \in {0, 127, 128, -128, -129}} \cup
  {<<"real", 2>>, <<"bool", FALSE>>, <<"str", <<>>>>, K("x"),
   List(<<N(5)>>), List(<<N(5), K("x")>>),
   Tab(<<>>), Tab(<<<<K("x"), List(<<Tab(<<<<N(3), N(4)>>>>)>>)>>>>),
   <<"tab", <<<<N(2), N(1)>>, <<N(1), N(2)>>>>, 2>>,
   <<"tab", <<<<N(1), N(2)>>, <<K("x"), N(3)>>>>, 1>>,
   <<"tab", <<<<K("x"), N(3)>>, <<N(1), N(2)>>>>, 1>>,
   <<"tab", <<<<N(0), N(3)>>, <<N(1), N(2)>>>>, 1>>,
   <<"proxy", <<<<N(1), N(2)>>>>, 0>>, <<"func">>, <<"doc", <<<<K("x"), N(3)>>>>>>,
   New("binary", Chars(2)), New("objectid", [i \in 1..24 |-> (i \div 3) % 2]), New("date", 3),
   New("date", -1), New("timestamp", <<3, 2>>), New("null", <<>>), New("minkey", <<>>),
   New("regex", <<Chars(1), Chars(2)>>), New("regex", <<Chars(1), <<>>>>),
   New("jscode", <<<<"byte", 2>>, <<"byte", 0>>, <<"byte", 0>>, <<"byte", 0>>>> \o Chars(2))}
CTables ==
  {<<"tab", <<<<K("a"), v>>, <<Dec(7), w>>>>, 0>> :
     v \in Stored, w \in {N(1), <<"bool", TRUE>>, New("date", 9), <<"real", 1>>}}
  \cup {<<"tab", <<<<N(7), N(1)>>, <<<<"str", <<>>>>, N(2)>>, <<Dec(7), N(3)>>, <<<<"real", 1>>, N(3)>>>>, 0>>}
  \cup {List(<<N(1), v>>) : v \in Stored}
COrdered == {<<<<K("update"), K("tab")>>, <<K("updates"), List(<<Tab(<<<<K("q"), N(1)>>>>)>>)>>,
               <<K("ordered"), <<"bool", FALSE>>>>>>, <<>>}
CReplacements ==
  {<<<<<<"dec", 7>>>>, v>> : v \in {N(4), N(300), <<"bool", FALSE>>, New("date", 8), K("x"), <<"real", 3>>}}
  \cup {<<Ch("a"), N(5)>>, <<Ch("a"), New("timestamp", <<1, 4>>)>>}

B == INSTANCE Bson WITH
       Hex <- 2, Milli <- 10, MAX_DEPTH <- 1, Tables <- CTables, Ordered <- COrdered,
       Replacements <- CReplacements,
       doc <- b_doc, want <- b_want, index <- b_index, out <- b_out, err <- b_err

-----------------------------------------------------------------------------
CContent == [r \in {1, 2} |-> IF r = 1 THEN <<"a", "b", "c">> ELSE <<"b", "b">>]
CDocLength == [a |-> 5, b |-> 7, c |-> 5, query |-> 5, sel |-> 9]

D == INSTANCE Mongo WITH
       Reader <- {1, 2}, Content <- CContent, DocLength <- CDocLength, Batch <- 2, MaxWrites <- 1,
       querySn <- d_sn, pend <- d_pend, cursor <- d_cursor, handed <- d_handed, wire <- d_wire,
       writes <- d_writes, replies <- d_replies, open <- d_open, lost <- d_lost, dead <- d_dead

-----------------------------------------------------------------------------
CArgs2 == {<<>>, <<<<"int", 5>>, <<"string", 4>>>>, <<<<"pack", 2>>>>}

P == INSTANCE Packet WITH
       Sid <- {1, 2}, BUF_SIZE <- 8, MaxString <- 3, Args <- CArgs2, MaxPackets <- 3, None <- Absent,
       frame <- p_frame, buf <- p_buf, gRpcBufQ <- p_rpc, gSndBufq <- p_snd, gRcvBufq <- p_rcv,
       gRecvPackQ <- p_recv, pull <- p_pull, adding <- p_adding, reading <- p_reading,
       sent <- p_sent, taken <- p_taken, begun <- p_begun, over <- p_over

-----------------------------------------------------------------------------
R == INSTANCE Ring WITH
       Que <- {"q1", "q2"}, Node <- {"n1", "n2", "n3"},
       next <- r_next, prev <- r_prev, loose <- r_loose

-----------------------------------------------------------------------------
(* 18 blocks of 2 cells each way, with a place taken in every block of the *)
(* innermost zone and in a corner.                                         *)
CLands == {{14, 16, 18, 20} \X {14, 16, 18, 20} \cup {<<0, 0>>}}

W == INSTANCE Places WITH
       BLOCK_NUM <- 18, BLOCK_WIDTH <- 2, RingWidth <- 1, Foot <- {2}, Random <- {7},
       Sites <- {<<0, 0>>, <<3, 3>>, <<34, 0>>}, Lands <- CLands, MaxPlaced <- 1,
       gLand <- w_land, placed <- w_placed, asked <- w_asked, found <- w_found

-----------------------------------------------------------------------------
S == INSTANCE Stream WITH
       Block <- 3, BUF_SIZE <- 7, Lead <- 2, Size <- {1, 6}, MaxFirst <- 2, MaxPackets <- 2, Fresh <- Absent,
       mode <- s_mode, encode <- s_encode, state <- s_state, pid <- s_pid, bufwq <- s_bufwq,
       bufw <- s_bufw, ctxw <- s_ctxw, ctxr <- s_ctxr, bufr <- s_bufr, down <- s_down, up <- s_up,
       peerw <- s_peerw, peerr <- s_peerr, put <- s_put, heard <- s_heard, told <- s_told,
       got <- s_got, slipped <- s_slipped, early <- s_early

-----------------------------------------------------------------------------
mvars == <<m_args, m_buf, m_bytes, m_given, m_got, m_offset, m_err>>
bvars == <<b_doc, b_want, b_index, b_out, b_err>>
dvars == <<d_sn, d_pend, d_cursor, d_handed, d_wire, d_writes, d_replies, d_open, d_lost, d_dead>>
pvars == <<p_frame, p_buf, p_rpc, p_snd, p_rcv, p_recv, p_pull, p_adding, p_reading, p_sent, p_taken,
           p_begun, p_over>>

rvars == <<r_next, r_prev, r_loose>>
wvars == <<w_land, w_placed, w_asked, w_found>>
svars == <<s_mode, s_encode, s_state, s_pid, s_bufwq, s_bufw, s_ctxw, s_ctxr, s_bufr, s_down, s_up,
           s_peerw, s_peerr, s_put, s_heard, s_told, s_got, s_slipped, s_early>>

(* A question leaves the rank list as it was: nothing new follows on one.  *)
Updates == {"add", "rem", "limit", "rev_limit"}

LuaInit ==
  /\ part \in {"ranks", "values", "documents", "database", "packets", "lists", "places", "stream"}
  /\ Init /\ M!Init /\ B!Init /\ D!Init /\ P!Init /\ R!Init /\ W!Init /\ S!Init
  /\ part # "stream" => s_mode = "srv"
LuaNext ==
  /\ UNCHANGED part
  /\ \/ part = "ranks" /\ (asked # <<>> => asked[1] \in Updates) /\ Next
        /\ UNCHANGED <<mvars, bvars, dvars, pvars, rvars, wvars, svars>>
     \/ part = "values" /\ M!Next /\ UNCHANGED <<vars, bvars, dvars, pvars, rvars, wvars, svars>>
     \/ part = "documents" /\ B!Next /\ UNCHANGED <<vars, mvars, dvars, pvars, rvars, wvars, svars>>
     \/ part = "database" /\ D!Next /\ UNCHANGED <<vars, mvars, bvars, pvars, rvars, wvars, svars>>
     \/ part = "packets" /\ P!Next /\ UNCHANGED <<vars, mvars, bvars, dvars, rvars, wvars, svars>>
     \/ part = "lists" /\ R!Next /\ UNCHANGED <<vars, mvars, bvars, dvars, pvars, wvars, svars>>
     \/ part = "places" /\ W!Next /\ UNCHANGED <<vars, mvars, bvars, dvars, pvars, rvars, svars>>
     \/ part = "stream" /\ S!Next /\ UNCHANGED <<vars, mvars, bvars, dvars, pvars, rvars, wvars>>
LuaSpec ==
  LuaInit /\ [][LuaNext]_<<part, vars, mvars, bvars, dvars, pvars, rvars, wvars, svars>>

(* See MsgPack: values unpack as they were packed, however the string is   *)
(* read, and the buffer they are packed in is never overrun.               *)
UnpackedAsPacked == M!UnpackedAsPacked

(* See Bson: a document reads back as its table, and keeps its length.     *)
ReadsBack == B!ReadsBack

(* See Mongo: a coroutine is handed the documents of its collection.       *)
HandsOutAll == D!HandsOutAll

(* See Packet: packets are handed to Lua as they were sent.                *)
HandledAsSent == P!HandledAsSent

(* See Ring: the pointers are lists.                                       *)
ListsSpec == R!ListsSpec

(* See Places: a place that was found is free and where it was asked for.  *)
PlacesFit == W!PlacesFit

(* See Stream: packets pass the gate whole, in order and in clear.         *)
StreamIntact == S!StreamIntact
=============================================================================
