------------------------------- MODULE Mongo -------------------------------
(***************************************************************************)
(* The database driver: the packages lmongo.c builds, the replies it takes *)
(* apart, and the coroutines of mongo.lua that read collections over one   *)
(* connection.  A package is a sequence of fields, each with its size in   *)
(* bytes; the connection carries fields; the database is external.         *)
(***************************************************************************)
EXTENDS Integers, SequencesExt

CONSTANTS
  Reader,    \* coroutines, each reads a collection of its own
  Content,   \* Content[r]: the documents of that collection, in order
  DocLength, \* DocLength[d]: the size of a document
  Batch,     \* the most documents the database puts in a reply
  MaxWrites  \* bound: writes

VARIABLES
  querySn, \* requests numbered so far
  pend,    \* gCoroPend.db: the coroutine that waits for the reply to a request
  cursor,  \* of every coroutine: where it is, its __document, __ptr and __cursor
  handed,  \* what next() has returned to it
  wire,    \* the fields on their way to the database
  writes,  \* writes sent
  replies, \* the replies on their way back
  open,    \* the cursors the database keeps, and where they are
  lost,    \* the database met a length that is not that of a package
  dead     \* the process has read through a null pointer

mongoVars == <<querySn, pend, cursor, handed, wire, writes, replies, open, lost, dead>>

Take(s, n) == SubSeq(s, 1, n)
Drop(s, n) == SubSeq(s, n + 1, Len(s))

-----------------------------------------------------------------------------
(* Packages: the fields written one after the other (write_int32,          *)
(* write_string, write_bytes), the length in front when all is known.      *)

FieldSize(f) ==
  CASE f[1] = "doc" -> DocLength[f[2]] [] f[1] = "cursor" -> 8
    [] f[1] = "name" -> 6 [] OTHER -> 4
Size(fs) == FoldLeft(LAMBDA n, f : n + FieldSize(f), 0, fs)

I(n) == <<"int", n>>
Op(code) == <<"op", code>>
Docs(ds) == [i \in DOMAIN ds |-> <<"doc", ds[i]>>]
Package(fields, ds, total) == <<I(total)>> \o fields \o Docs(ds)

(* document_length *)
Lengths(ds) == FoldLeft(LAMBDA n, d : n + DocLength[d], 0, ds)

(* ds: the query, and the selector if there is one. *)
op_query(id, r, ds) ==
  LET buf == <<I(id), I(0), Op("query"), I(0), <<"name", r>>, I(0), I(0)>>
  IN  Package(buf, ds, 4 + Size(buf) + Lengths(ds))

op_get_more(id, r, c) ==
  LET buf == <<I(id), I(0), Op("more"), I(0), <<"name", r>>, I(0), <<"cursor", c>>>>
  IN  Package(buf, <<>>, 4 + Size(buf))

op_kill(c) ==
  LET buf == <<I(0), I(0), Op("kill"), I(0), I(1), <<"cursor", c>>>>
  IN  Package(buf, <<>>, 4 + Size(buf))

op_delete(r, selector) ==
  LET buf == <<I(0), I(0), Op("delete"), I(0), <<"name", r>>, I(1)>>
  IN  Package(buf, <<selector>>, 4 + Size(buf) + DocLength[selector])

op_update(r, selector, update) ==
  LET buf == <<I(0), I(0), Op("update"), I(0), <<"name", r>>, I(1)>>
  IN  Package(buf, <<selector, update>>, 4 + Size(buf) + Lengths(<<selector, update>>))

op_insert(r, ds) ==
  LET buf == <<I(0), I(0), Op("insert"), I(0), <<"name", r>>>>
  IN  Package(buf, ds, 4 + Size(buf) + Lengths(ds))

-----------------------------------------------------------------------------
(* Mutant: what the table held before is not cleared. *)
ReplyKeepsRest(reply, result) ==
  LET n == Len(reply.docs)
  IN  IF reply.failure THEN [succ |-> FALSE, id |-> reply.id, doc |-> TRUE, cursor |-> 0, result |-> result]
      ELSE [succ |-> TRUE, id |-> reply.id, doc |-> reply.number # 0,
            cursor |-> reply.cursor, result |-> reply.docs \o Drop(result, n)]

(* Replies.  result: the table the documents are to go to; what is past
   them is cleared. *)
op_reply(reply, result) ==
  IF reply.failure THEN [succ |-> FALSE, id |-> reply.id, doc |-> TRUE, cursor |-> 0, result |-> result]
  ELSE [succ |-> TRUE, id |-> reply.id, doc |-> reply.number # 0,
        cursor |-> reply.cursor, result |-> reply.docs]

(* The id even of a reply that tells of a failure. *)
lgetReplyID(reply) == reply.id

-----------------------------------------------------------------------------
(* The coroutines.  A cursor is ready (hasNext may be called), waits, has  *)
(* come to its end, has met an error or has been closed.                   *)

Start == [at |-> "ready", begun |-> FALSE, document |-> <<>>, ptr |-> 0, cursor |-> 0]

Init ==
  /\ querySn = 0 /\ pend = <<>> /\ wire = <<>> /\ writes = 0
  /\ cursor = [r \in Reader |-> Start]
  /\ handed = [r \in Reader |-> <<>>]
  /\ replies = <<>> /\ open = {} /\ lost = FALSE /\ dead = FALSE

Put(f, k, v) == [x \in DOMAIN f \cup {k} |-> IF x = k THEN v ELSE f[x]]
Without(f, k) == [x \in DOMAIN f \ {k} |-> f[x]]

(* genId, socket.write, get_reply *)
Request(r, package) ==
  /\ querySn' = querySn + 1
  /\ wire' = wire \o package
  /\ pend' = Put(pend, querySn + 1, r)
  /\ cursor' = [cursor EXCEPT ![r].at = "waits"]
  /\ UNCHANGED <<handed, writes, replies, open, lost, dead>>

(* hasNext when all that came has been handed out. *)
hasNext(r) ==
  /\ ~dead /\ cursor[r].at = "ready" /\ cursor[r].ptr = 0
  /\ \/ /\ ~cursor[r].begun
        /\ \E selector \in {<<>>, <<"sel">>} :
             Request(r, op_query(querySn + 1, r, <<"query">> \o selector))
     \/ /\ cursor[r].begun /\ cursor[r].cursor # 0
        /\ Request(r, op_get_more(querySn + 1, r, cursor[r].cursor))
     \/ /\ cursor[r].begun /\ cursor[r].cursor = 0
        /\ cursor' = [cursor EXCEPT ![r].at = "end"]
        /\ UNCHANGED <<querySn, pend, handed, wire, writes, replies, open, lost, dead>>

next(r) ==
  LET c == cursor[r] IN
  /\ ~dead /\ c.at = "ready" /\ c.ptr # 0
  /\ handed' = [handed EXCEPT ![r] = Append(@, c.document[c.ptr])]
  /\ cursor' = [cursor EXCEPT ![r].ptr = IF c.ptr + 1 > Len(c.document) THEN 0 ELSE c.ptr + 1]
  /\ UNCHANGED <<querySn, pend, wire, writes, replies, open, lost, dead>>

close(r) ==
  /\ ~dead /\ cursor[r].at = "ready" /\ cursor[r].begun
  /\ cursor' = [cursor EXCEPT ![r].at = "closed"]
  /\ wire' = IF cursor[r].cursor # 0 THEN wire \o op_kill(cursor[r].cursor) ELSE wire
  /\ UNCHANGED <<querySn, pend, handed, writes, replies, open, lost, dead>>

(* insert, update, delete: nothing comes back. *)
Write(package) ==
  /\ ~dead /\ writes < MaxWrites
  /\ writes' = writes + 1
  /\ wire' = wire \o package
  /\ UNCHANGED <<querySn, pend, cursor, handed, replies, open, lost, dead>>
insert(r) == Write(op_insert(r, <<"query">>))
update(r) == Write(op_update(r, "query", "sel"))
delete(r) == Write(op_delete(r, "query"))

(* batch_insert: with a table op_insert looks for every document where the
   table is, and reads through a null pointer. *)
batch_insert ==
  /\ ~dead /\ writes < MaxWrites
  /\ writes' = writes + 1 /\ dead' = TRUE
  /\ UNCHANGED <<querySn, pend, cursor, handed, wire, replies, open, lost>>

(* recvReply and the rest of hasNext, in the coroutine it resumes. *)
recvReply ==
  /\ ~dead /\ replies # <<>>
  /\ replies' = Tail(replies)
  /\ LET id == lgetReplyID(Head(replies))
         r == pend[id]
         got == op_reply(Head(replies), cursor[r].document)
     IN  /\ pend' = Without(pend, id)
         /\ cursor' = [cursor EXCEPT ![r] =
              CASE got.succ /\ got.doc -> [at |-> "ready", begun |-> TRUE, ptr |-> 1,
                                           document |-> got.result, cursor |-> got.cursor]
                [] got.succ /\ ~got.doc -> [Start EXCEPT !.at = "end"]
                [] OTHER               -> [Start EXCEPT !.at = "error"]]
  /\ UNCHANGED <<querySn, handed, wire, writes, open, lost, dead>>

-----------------------------------------------------------------------------
(* The database: takes as many fields as the length says, serves them in   *)
(* their order, and forgets a cursor that has been read to its end.        *)

Framed == Len(wire) > 4 /\ wire[1][1] = "int" /\ wire[4][1] = "op"
Whole == {n \in 1..Len(wire) : Size(Take(wire, n)) = wire[1][2]}
Reply(id, number, ds, c, failure) ==
  [id |-> id, number |-> number, docs |-> ds, cursor |-> c, failure |-> failure]

(* Documents of r from the i-th on, under the cursor c. *)
Batched(id, r, i, c) ==
  \E n \in 0..Batch :
    LET ds == [k \in 1..n |-> Content[r][i + k - 1]]
        more == i + n <= Len(Content[r])
    IN  /\ n = 0 <=> i > Len(Content[r])
        /\ i + n <= Len(Content[r]) + 1
        /\ replies' = Append(replies, Reply(id, Len(ds), ds, IF more THEN c ELSE 0, FALSE))
        /\ open' = {o \in open : o.cursor # c} \cup
                     (IF more THEN {[cursor |-> c, of |-> r, next |-> i + n]} ELSE {})

Fails(id) ==
  /\ replies' = Append(replies, Reply(id, 1, <<"query">>, 0, TRUE))
  /\ UNCHANGED open

Database ==
  /\ wire # <<>> /\ ~lost
  /\ IF ~Framed \/ Whole = {}
     THEN lost' = TRUE /\ UNCHANGED <<wire, replies, open>>
     ELSE LET n == CHOOSE k \in Whole : TRUE
              id == wire[2][2]
              c == wire[n][2]
          IN  /\ wire' = Drop(wire, n) /\ UNCHANGED lost
              /\ CASE wire[4][2] = "query" -> Batched(id, wire[6][2], 1, id) \/ Fails(id)
                   [] wire[4][2] = "more"  ->
                        LET o == CHOOSE x \in open : x.cursor = c IN Batched(id, o.of, o.next, c)
                   [] wire[4][2] = "kill"  ->
                        open' = {o \in open : o.cursor # c} /\ UNCHANGED replies
                   [] OTHER -> UNCHANGED <<replies, open>>
  /\ UNCHANGED <<querySn, pend, cursor, handed, writes, dead>>

Next ==
  \/ \E r \in Reader : hasNext(r) \/ next(r) \/ close(r)
  \/ \E r \in Reader : insert(r) \/ update(r) \/ delete(r)
  \/ batch_insert \/ recvReply \/ Database

Spec == Init /\ [][Next]_mongoVars

-----------------------------------------------------------------------------
(* Reading a collection (hasNext, next, op_reply): a coroutine is handed the
   documents of its own collection, each once and in order, though others
   wait on the same connection and its table is used for every reply; it
   comes to the end only when it has had them all.  The database, which goes
   by the lengths alone (write_length), always finds where the next package
   begins, and when nobody reads any more it keeps no cursor. *)
HandsOutAll ==
  /\ ~lost
  /\ \A r \in Reader : /\ IsPrefix(handed[r], Content[r])
                       /\ cursor[r].at = "end" => handed[r] = Content[r]
  /\ wire = <<>> /\ (\A r \in Reader : cursor[r].at \in {"end", "error", "closed"}) => open = {}
=============================================================================
