------------------------------- MODULE Stream -------------------------------
(***************************************************************************)
(* One session of the gate as a stream of bytes, egate.c: do_read and the  *)
(* writing half of loop, with the cipher of pike.c.  send and recv take as *)
(* much as they like.  A cell stands for some bytes; it carries the        *)
(* positions of the key stream it has been combined with, which undo       *)
(* themselves.  The peer ciphers the way the gate does.                    *)
(***************************************************************************)
EXTENDS Integers, SequencesExt

CONSTANTS
  Block,       \* 4096 bytes of key are generated at a time
  BUF_SIZE,    \* room of a buffer, in cells
  Lead,        \* cells of the length before a packet
  Size,        \* lengths of the packets, without the length itself
  MaxFirst,    \* 256: what a client may send before it has logged in
  MaxPackets,  \* bound: packets, both ways
  Fresh        \* stands for no Ctx yet

VARIABLES
  mode, encode,
  state,       \* "shake", "on" or "break"
  pid,         \* the client has logged in
  bufwq, bufw, \* buffers to send, the cells of the one being sent and those of it already sent
  ctxw, ctxr,
  bufr,        \* the cells read and the room for them
  down, up,    \* on the way to the peer and from it
  peerw, peerr,\* the Ctx of the peer
  put, heard,  \* the packets sent to the peer, and what it has read (history)
  told, got,   \* the packets the peer has sent, and those the gate has taken (history)
  slipped,     \* send has failed and the session has gone on (history)
  early        \* the session broke before the login (history)

gate == <<bufwq, bufw, ctxw>>
reads == <<ctxr, bufr, got, early>>
session == <<mode, encode, state, pid>>
vars == <<session, gate, reads, down, up, peerw, peerr, put, heard, told, slipped>>

-----------------------------------------------------------------------------
(* pike.c.  Both ends start from the same sid. *)

ctx_init == [round |-> -1, index |-> Block]
ctx_generate(c) == [round |-> c.round + 1, index |-> 0]

Combined(cell, k) == [cell EXCEPT !.keys = SymDiff(@, {k})]

(* Up to the end of the block, then with the next one. *)
RECURSIVE ctx_encode(_, _)
ctx_encode(c, cells) ==
  IF cells = <<>> THEN [ctx |-> c, out |-> <<>>]
  ELSE IF c.index >= Block THEN ctx_encode(ctx_generate(c), cells)
  ELSE LET n == Min({Block - c.index, Len(cells)})
           rest == ctx_encode([c EXCEPT !.index = @ + n], SubSeq(cells, n + 1, Len(cells)))
           part == [i \in 1..n |-> Combined(cells[i], c.round * Block + c.index + i)]
       IN  [ctx |-> rest.ctx, out |-> part \o rest.out]

Started(c) == IF c = Fresh THEN ctx_init ELSE c

RereadsAll(c, old, new) ==  \* Mutant: what was read before is deciphered again
  IF encode THEN ctx_encode(Started(c), old \o new) ELSE [ctx |-> c, out |-> old \o new]

ReadMore(c, old, new) ==
  LET e == IF encode THEN ctx_encode(Started(c), new) ELSE [ctx |-> c, out |-> new]
  IN  [ctx |-> e.ctx, out |-> old \o e.out]

-----------------------------------------------------------------------------
Cells(n, size) == [i \in 1..(Lead + size) |-> [of |-> n, i |-> i, size |-> size, keys |-> {}]]
Sent(sizes) == FlattenSeq([n \in DOMAIN sizes |-> Cells(n, sizes[n])])

Init ==
  /\ \E m \in {"cli", "srv"} : mode = m
  /\ encode \in {TRUE, FALSE} /\ (encode => mode = "cli")
  /\ state = (IF encode THEN "shake" ELSE "on") /\ pid = FALSE
  /\ bufwq = <<>> /\ bufw = <<>> /\ ctxw = Fresh
  /\ ctxr = Fresh /\ bufr = [cells |-> <<>>, room |-> BUF_SIZE] /\ got = <<>>
  /\ down = <<>> /\ up = <<>> /\ peerw = ctx_init /\ peerr = ctx_init
  /\ put = <<>> /\ heard = <<>> /\ told = <<>> /\ slipped = FALSE /\ early = FALSE

Quiet == Len(put) + Len(told) < MaxPackets

-----------------------------------------------------------------------------
(* Writing. *)

(* The worker is handed a buffer for the session. *)
send_to_sck(size) ==
  /\ state = "on" /\ Quiet
  /\ put' = Append(put, size)
  /\ bufwq' = Append(bufwq, [cells |-> Cells(Len(put) + 1, size), room |-> Max({Lead + size, BUF_SIZE})])
  /\ UNCHANGED <<session, bufw, ctxw, reads, down, up, peerw, peerr, heard, told, slipped>>

(* The seed goes out before anything else; the peer takes its sid from it. *)
Shake ==
  /\ state = "shake" /\ state' = "on"
  /\ UNCHANGED <<mode, encode, pid, gate, reads, down, up, peerw, peerr, put, heard, told, slipped>>

(* The first buffer takes in the ones behind it, while they fit. *)
RECURSIVE Merged(_, _)
Merged(b, q) ==
  IF q # <<>> /\ b.room - Len(b.cells) > Len(Head(q).cells)
  THEN Merged([b EXCEPT !.cells = @ \o Head(q).cells], Tail(q))
  ELSE [buf |-> b.cells, rest |-> q]

(* What is left of bufw, or the next buffer, ciphered once as it is taken. *)
Sending ==
  IF bufw # <<>> THEN [cells |-> bufw, rest |-> bufwq, ctx |-> ctxw]
  ELSE LET m == Merged(Head(bufwq), Tail(bufwq))
           e == IF encode THEN ctx_encode(Started(ctxw), m.buf) ELSE [ctx |-> ctxw, out |-> m.buf]
       IN  [cells |-> e.out, rest |-> m.rest, ctx |-> e.ctx]

Writes == state = "on" /\ (bufw # <<>> \/ bufwq # <<>>)

Send(n) ==
  /\ Writes /\ n \in 1..Len(Sending.cells)
  /\ down' = down \o SubSeq(Sending.cells, 1, n)
  /\ bufw' = SubSeq(Sending.cells, n + 1, Len(Sending.cells))
  /\ bufwq' = Sending.rest /\ ctxw' = Sending.ctx
  /\ UNCHANGED <<session, reads, up, peerw, peerr, put, heard, told, slipped>>

(* send gives -1, and that is added to buf->h: what lies there is sent next. *)
Stray == [of |-> 0, i |-> 0, size |-> 0, keys |-> {}]

SendFails ==
  /\ Writes /\ ~slipped /\ slipped' = TRUE
  /\ bufw' = <<Stray>> \o Sending.cells
  /\ bufwq' = Sending.rest /\ ctxw' = Sending.ctx
  /\ UNCHANGED <<session, reads, down, up, peerw, peerr, put, heard, told>>

PeerReads(n) ==
  /\ n \in 1..Len(down)
  /\ LET e == IF encode THEN ctx_encode(peerr, SubSeq(down, 1, n)) ELSE [ctx |-> peerr, out |-> SubSeq(down, 1, n)]
     IN  heard' = heard \o e.out /\ peerr' = e.ctx
  /\ down' = SubSeq(down, n + 1, Len(down))
  /\ UNCHANGED <<session, gate, reads, up, peerw, put, told, slipped>>

-----------------------------------------------------------------------------
(* Reading. *)

PeerSends(size) ==
  /\ state = "on" /\ Quiet
  /\ told' = Append(told, size)
  /\ LET cells == Cells(Len(told) + 1, size)
         e == IF encode THEN ctx_encode(peerw, cells) ELSE [ctx |-> peerw, out |-> cells]
     IN  up' = up \o e.out /\ peerw' = e.ctx
  /\ UNCHANGED <<session, gate, reads, down, peerr, put, heard, slipped>>

(* A length of which a part is missing is not looked at; one that is not *)
(* in clear is taken for one that is refused.                             *)
Length(cells) ==
  IF \A i \in 1..Lead : cells[i].i = i /\ cells[i].keys = {} THEN Lead + cells[1].size ELSE 0

(* The packets of the buffer, one after the other; a client that has not
   logged in sends one at a time. *)
RECURSIVE Taken(_, _)
Taken(cells, packets) ==
  LET done(broke) == [packets |-> packets, rest |-> cells, broke |-> broke]
  IN  IF Len(cells) < Lead THEN done(FALSE)
      ELSE IF Length(cells) = 0 THEN done(TRUE)
      ELSE IF mode = "cli" /\ ~pid /\ (cells[1].size > MaxFirst \/ Length(cells) # Len(cells)) THEN done(TRUE)
      ELSE IF Length(cells) > Len(cells) THEN done(FALSE)
      ELSE Taken(SubSeq(cells, Length(cells) + 1, Len(cells)),
                 Append(packets, SubSeq(cells, 1, Length(cells))))

(* A packet that does not fit gets a larger buffer, but not a client's. *)
do_read(n) ==
  /\ state = "on" /\ n \in 1..Min({Len(up), bufr.room - Len(bufr.cells)})
  /\ LET more == ReadMore(ctxr, bufr.cells, SubSeq(up, 1, n))
         t == Taken(more.out, <<>>)
         full == t.packets = <<>> /\ Len(t.rest) = bufr.room
         broke == t.broke \/ (full /\ mode = "cli")
     IN  /\ ctxr' = more.ctx
         /\ got' = got \o t.packets
         /\ state' = IF broke THEN "break" ELSE state
         /\ early' = (broke /\ ~pid)
         /\ bufr' = [cells |-> t.rest,
                     room |-> IF t.rest = <<>> THEN BUF_SIZE
                              ELSE IF full /\ ~broke THEN Max({Length(t.rest), BUF_SIZE}) ELSE bufr.room]
  /\ up' = SubSeq(up, n + 1, Len(up))
  /\ UNCHANGED <<mode, encode, pid, gate, down, peerw, peerr, put, heard, told, slipped>>

(* CMD_CERTIFY: the login the first packet asked for has come back. *)
Certify ==
  /\ mode = "cli" /\ ~pid /\ got # <<>> /\ pid' = TRUE
  /\ UNCHANGED <<mode, encode, state, gate, reads, down, up, peerw, peerr, put, heard, told, slipped>>

Next ==
  \/ Shake \/ SendFails \/ Certify
  \/ \E size \in Size : send_to_sck(size) \/ PeerSends(size)
  \/ \E n \in 1..(MaxPackets * (Lead + Max(Size))) : Send(n) \/ PeerReads(n) \/ do_read(n)

Spec == Init /\ [][Next]_vars

(* However send and recv cut the stream and buffers are merged, the peer reads
   the packets put for it and the gate takes the packets of the peer, whole, in
   order and in clear, unless send has failed.  The gate breaks no session but
   a client's, for a packet that no buffer holds or, before the login, for one
   that is too long or did not come alone and in one piece. *)
StreamIntact ==
  /\ ~slipped => IsPrefix(heard, Sent(put))
  /\ IsPrefix(FlattenSeq(got), Sent(told))
  /\ state = "break" => /\ mode = "cli"
                        /\ early \/ \E n \in DOMAIN told : Lead + told[n] > BUF_SIZE
=============================================================================
