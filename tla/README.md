# Models of the lxz_server game server

The server (`warx_pub/`) is a C engine (`engine/`) of threads that talk through
queues, a gate process (`egate.c`) in front of it, and Lua game logic
(`script/`) on the engine's main thread. This directory holds TLA+ models of
its concurrent and protocol-like parts and of the C libraries under the Lua
code, the TLC instances that check them and TLAPS proofs about them. Paths below
are relative to `src/warx_pub/`.

    tlc -workers 2 -config MCMailbox.cfg MCMailbox.tla
    tlapm MailboxProofs.tla

## Inventory

| Component | State | Operations | Talks to | What is hard | What makes it correct |
|---|---|---|---|---|---|
| thread queue, `engine/que.c` | list, mutex, condition, waiter counter | `QuePut(All)`, `QueGet(All)`, `QueTry(All)` | every pair of threads | signal after unlock, unlocked look, spurious wake-ups | FIFO, no lost wake-up |
| gate mailbox, `engine/egate.c` | list `qw`, counter `nw`, pipe | `send_to_sck`, `exchange_loop` distribution, `loop` | exchange thread and workers | byte written after unlock, only by the first producer | no lost wake-up, pipe never fills, FIFO |
| engine timer, `engine/timer.c` | wheel `tv1`..`tv5`, `timer_jiffies`, put and get queues | `add_timer`, `run_timer_list`, `cascade_timers` | Lua thread, clock thread | unsynchronised jiffies, cascades, boundaries of the vectors | each timer once, never early, at its jiffy or less than a turn late |
| gate, `engine/egate.c` | `vSess` by descriptor, `vPid2Sid`, counters, queues | accept, connect, first packet, sign-in, takeover, sign-out, routing, broadcast | clients, map servers, tool server, core server | worker and exchange threads share sessions unlocked, descriptors are reused, messages in flight outlive sessions | one session per player, table = sessions, nothing delivered to the wrong connection, map server learns of a break |
| map server side, `script/player_t.lua`, `agent_t.lua`, `frame/conn.lua` | `gOnlines`, `p.gid`, `p.sockid`, `p.map` | `firstPacket2`, `onBreak`, `onCrossServerBreak`, `cross_migrate(_back)`, the `agent_*` calls, reconnect | gate, one another | late news of an old session, calls that cross each other, a record on two maps | a map that has the player online on a session agrees with the gate about where its packets go |
| gate byte stream and cipher, `engine/egate.c`, `pike.c` | buffers read and being sent, two key streams | `do_read`, the writing half of `loop`, `ctx_encrypt` | `EGate`'s workers | reads and writes cut anywhere, one key stream over merged buffers, a `send` that fails | packets whole, in order, in clear |
| network thread, `engine/net.c`, `buf.c` | `gSess`, bufferevents, connect queue | read, write, connect, close, notify | main loop, connecter | sid against descriptor reuse, close in the middle of a write | no packet to a wrong session, packets whole and in order, one end notice each |
| main loop, clock, packets: `engine/game.c`, `handle.c` | `gMsec`, `gTime`, buffers being written and read by Lua | `lua_loop`, `pushBuf`, `pullBuf`, Lua bindings | all | a Lua error in the middle of a packet, start-up order | packets handled as sent, whatever a handler leaves |
| area of interest, `engine/world.c` | entities, occupancy bits, eyes, troops, sprites | add, move, remove, broadcast, step | main loop through two queues | test-then-set of bits across threads, time steps longer than a range | bits match entities, eyes see what is in view, no range crossed unseen |
| free places, `engine/world.c`, `script/player_t.lua` | zones of the map, bits | `map_get_pos*`, `map_test_pos` | world thread | a random search with several exits | the place given is free and in the zone asked for |
| rank list, `engine/skiplist.c`, `lua-skiplist.c`, `frame/zset.lua` | skip list, table of scores | insert, delete, rank, range, limit | game logic | spans | equals a sorted set |
| packed values, `engine/lua_cmsgpack.c` | buffer, cursor | `pack`, `unpack`, `unpack_one`, `unpack_limit` | packets, database | forms at their boundaries, tables read as arrays, nesting | a value unpacks as it was packed |
| documents, `engine/lbson.c` | buffer of a document, index | `encode`, `decode`, `makeindex`, replacement | database driver | arrays, numeric keys, depth, replacement in place | a document reads back as its table |
| database driver, `engine/lmongo.c`, `frame/mongo.lua` | request numbers, waiting coroutines, cursors | query, more, kill, insert, update, delete, reply | network thread, database | replies of several coroutines on one connection, live cursors | every reader gets its whole collection, in order |
| lists, `engine/mylist.h` | `next`, `prev` | add, delete, splice at either end, assign | everything in C | stores in an order that matters, lists spliced empty | rings act as sequences |
| Lua timers, `frame/timer.lua` | `_sns`, tags, cron | `new`, `cycle`, `del`, `acc`, `callback`, `reopen_timer` | engine timer, database | delete or re-arm inside the callback, restart | a live timer has exactly one engine timer |
| pending save, `frame/pending_save.lua` | change marks, pending documents, journal | mark, make ready, save, restore | database, `frame.lua` | unacknowledged writes, failures, crash | last change is written or pending |
| Lua scheduler, `frame/frame.lua`, `login_queue.lua` | coroutine pools, `gActionQue`, `gActionCur` | main loop, dispatch, `wait`, save checkers | all Lua | overtaking, pool exhaustion, time-outs | per-player order, every call resumed |
| remote calls, `frame/rpc` | call tables | pack, dispatch | gate | arguments a handler does not read | arguments as sent |
| save manager, `frame/mongo_save_mng.lua`, `dbmng.lua` | write batches | build and send | database | | |
| cron, `frame/crontab.lua` | calendar entries | next time | Lua timers | | |
| old code: `gate.c`, `trans.c`, `lbson.old.c`, `lmongo.old.c` | | | | not built | |
| logging, daemon, debugging | | | | pure I/O | |
| game rules, `script/*.lua`; generated tables, `script/data` | | | | sequential content | |
| bots, web pages, vendored libraries (`lib/lua-mongo`, Lua, skynet helpers) | | | | not part of the server | |

`PROJECT.json` lists the same parts with their status, and the hazards, each at
its line.

## Modules

| Module | Models | State and actions against the code |
|---|---|---|
| `Fifo` | the promise of every hand-over queue | `Put` appends a batch, `Take` takes from the front |
| `Que` | `que.c` | `chain`, `wait` are the fields of `Que`; a critical section is an action; `Sleep`/`Resume` are the two halves of `pthread_cond_wait`, `Signal` the call after the unlock, `Look`/`TryTake` the two tests of `QueTry`; implements `Fifo` |
| `Mailbox` | the worker mailbox of `egate.c` | `qw`, `nw`, `pipe`; `HandOver` is the producers' critical section, `WriteByte` what follows it, `ReadPipe`, `Splice`, `Deliver` the worker; implements `Fifo` |
| `TimerEngine` | what engine timers promise | `Add`, `Advance` that hands back a set of due timers, `Restart` |
| `TimerWheel` | `timer.c` and the clock of `game.c` | `index`, `wheel` are `tv_n.index`, `tv_n.vec`; `AddRead`/`AddPut` split `add_timer` at its unsynchronised read; `Drain`, `RunJiffy`, `RunDone` are `action` and one turn of `run_timer_list`; `SetStart` is `timer_time_set_start`, `Release` lets the held clock go; implements `TimerEngine` |
| `EGate` | `egate.c` and what its peers do with its packets | see below |
| `Stream` | the bytes of one gate session | `bufr`, `bufwq`, `bufw` are the buffers, `ctxr`, `ctxw` the key streams of `pike.c`; a `recv` or a `send` of any length is an action; the peer is external |
| `NetSess` | `net.c` over `buf.c` | event thread, connecter and the game's two queues are actors; `common_read`, `common_write`, `on_tick` and `close_session` with their failures are actions; libevent and the kernel are external |
| `World` | entities, bits, eyes of `world.c` | what Lua posts is `World`'s queue, each `roi_*` handler an action; the Lua thread's tests of the bits are actions of their own |
| `TroopView` | the troop grids of `world.c` | a troop is put on the cells it crosses in one of three grids; eyes are told of troops of their cell |
| `Sprite` | sprites and scanners of `world.c` | `sprite_process` walks every sprite by the time that has passed, in parts when the step is long |
| `Places` | `map_init`, the searches for a free place | zones as a function of the block, each search with what `random` may give |
| `SortedSet` | what a ranking promises | `Set`, `KeepsRanks` (every deletion), answers; `asked` is the call and `answer` its result, so that each answer is for the question asked |
| `SkipList` | `skiplist.c`, `lua-skiplist.c`, `zset.lua` | `skiplist.c` node by node with its spans; implements `SortedSet` |
| `MsgPack` | `lua_cmsgpack.c` | one operator per form, written and read; `Pack`, `Unpack` in whole, one by one, by number |
| `Bson` | `lbson.c` | encoding, decoding, `makeindex` and replacement in place |
| `Mongo` | `lmongo.c`, `frame/mongo.lua` | packages of fields with sizes, coroutines suspended on `gCoroPend.db`; the database is external |
| `Packet` | `handle.c`, the packet loops of `frame.lua` | `pushBuf`, `pullBuf` and the queues between; any handler may end in an error |
| `Lists` | a list as a sequence | the promise of `mylist.h` |
| `Ring` | `mylist.h` | every inline function, and the loops, as their stores to `next` and `prev`; implements `Lists` |
| `MC*` | TLC instances | constants in the `.cfg` files; `MCThreads`, `MCWorld` and `MCLua` run one of several modules, named by `part` |
| `QueProofs`, `MailboxProofs` | TLAPS proofs of the two queues | |
| `EGateProofs`, `EGateTable`, `EGateCount` | TLAPS proofs of the gate: types and wiped sessions; the table, who is certified, kinds; the counters. Each extends the one before | |
| `NetSessProofs`, `WorldProofs`, `TimerWheelProofs` | TLAPS proofs of the network thread, of the area of interest and of the timing wheel | |

**EGate.** `vSess[fd]` has the fields of `Sess` that control depends on: sid,
mode, state, pid, map. `exq` is `exchange_msg`, `wq[fd]` the way from the
exchange thread to a descriptor (mailbox, `bufwq`, socket), `out[fd]` the list
`msgRecv` a worker's turn collects before `QuePutAll`. The queues are FIFO
because `Que` and `Mailbox` are shown to be. A turn of a worker on one event
is one action (`FirstPacket`, `ClientPacket`, `ClientBreak`, `SetMapId`,
`SetSrvId`, ...), then `Flush`. The exchange thread takes one command per action
except where another thread can see the middle of it: `CMD_SIGNIN_CLI` is
`SigninKick`, `SigninAssign`, `SigninOn`; `CMD_SIGNOUT` is `SignoutClose` (the
kernel may reuse the descriptor from here) and `SignoutWipe`. Map servers are
modelled as far as the gate's protocol goes. `gPlys[m][p]` is what map server `m`
has of player `p`: `map`, `sockid`, whether `gid` is set, and whether it is in
`gOnlines`. `Refuse` and `Certify` are the ends of `firstPacket2`: `Certify` runs
`onBreak` over the account's players that are online, tells the gate, and sends
a guest's session on to the map the guest is on. `Request` is a call of the player,
which sets `gid` and `gOnlines`, and `cross_migrate` among them; `MigrateBack` is
`cross_migrate_back`. `AgentMigrate`, `AgentMigrateAck`, `AgentMigrateBack`,
`AgentMigrateBackAck` and `AgentLogin` are the calls between map servers that a
move consists of: home keeps the record of a guest and all of it but the map,
also its `gid`, `sockid` and `gOnlines`, while the map a guest leaves drops its own.
`OnBreak` tells the home of a guest (`OnCrossServerBreak`); `Stranger` is any of
these calls about a player who is not there. A packet's contents are a type and
what routing or the map server reads of it. `sent[fd]` is what a server has
written on its connection and the gate has not read.

**How they fit.** `EGate` takes its queues for FIFO because `Que` and `Mailbox`
are shown to be; `Que`, `Mailbox`, `TimerWheel` and `NetSess` take C's lists
for sequences because `Ring` is shown to act as `Lists`. `EGate`'s messages are
whole because `Stream` cuts and joins them right; the same holds of `Packet`
over `NetSess`. What is in an argument of a packet or a document is `MsgPack`
and `Bson`; `Mongo` takes documents whole.

Mutants of operators stand before the operator they mutate and are marked
`Mutant:`; nothing but the mutation runs named in `PROJECT.json` uses them.

## What the runs check

| Run | Instance | Shows |
|---|---|---|
| `mailbox` | 3 producers, 2 items each, one `read` drains 128 bytes | no lost wake-up, at most one byte in the pipe, delivery, FIFO |
| `threads` | two parts: `Que` with 2 producers, 2 items each; `NetSess` with 2 connections, one of them called by the connecter, on 1 descriptor | waiter count, no lost signal, unlocked look stays true, FIFO; the descriptor a sid leads to is its own, packets whole and in order, every end heard once and with a cause, everything arrives |
| `wheel` | vectors of 4, 2, 2 slots; three parts: one timer with delays on and around every boundary, added over a full turn; two timers added early; a restart with a timer in the wheel and one added while the clock is held | no timer dropped, copied, early or late (less than a turn of `tv1` if linked overdue), `TimerEngine` is implemented, every timer goes off |
| `gate_takeover` | 3 descriptors, 3 connections, 1 player at home or a guest, two map servers that move it there and back | table = sessions, counters agree, a map that has the player online on a session agrees with the gate on the map its packets go to |
| `gate_reuse` | two parts: 4 connections on 2 descriptors with 2 players and all kinds of packets; 3 connections on 3 descriptors with a map server that reconnects during takeovers, before or after the gate has seen the end of its old connection | table = sessions, a signed-in server stays in the table unless its connections overlapped, nothing reaches a connection it was not meant for |
| `gate_tool` | 3 connections on 2 descriptors: clients, the tool server and a map server whose connections overlap | every packet reaches a peer of its kind, sessions are wiped before reuse |
| `gate_live` | `-e` handshake, 4 connections | every map takes a player that broke off line on that session at some time after, descriptors are closed |
| `gate_status` | tool server connected | **violated**: the check in `status()` |
| `gate_why` | one client, one map server | **violated**: the check in `CMD_SIGNIN_CLI` ("why?") |
| `world` | three parts: entities and eyes on 10 by 3 cells; troops on three grids; sprites on two walks past two scanners | what a player was told is what its eye sees, a broadcast about what an eye is told of comes between the news that it is there and the news that it has gone, bits and counts match entities, troops are shown, triggers pair up, no range crossed unseen, no sprite falls behind |
| `world_overlap` | as `world` | **violated**: no two entities on one cell |
| `lua_libs` | eight parts: `SkipList`, `MsgPack`, `Bson`, `Mongo`, `Packet`, `Places`, `Ring`, `Stream` | spans measure and every call is answered as by a sorted set; values unpack as packed; documents read back; every reader of the database gets its collection; packets are handled as sent; places fit; rings are lists; streams stay intact, merged buffers included |

**Bounds.** `MaxPut` bounds producers, `MaxConns` connections made, `emap` and `Account` give
the players' homes and accounts, `MaxQueue`
the queue lengths at which peers speak of their own accord, `AddUntil`,
`MaxLag`, `MaxFrame`, `EarlyUntil`, `EarlyEnd` the clock, `MaxTurns` jiffies a
call, `MaxTraffic`, `MaxPackets`, `MaxWrites`, `MaxPost`, `MaxPlaced` and
`MaxNow` what is sent, written, posted, placed and how long sprites walk. The
lost wake-ups of a queue need one consumer and two producers; two items each let
a producer come back. In the wheel the interesting cases are the boundaries
between vectors and a full turn of each, which small vectors reach in a few
jiffies; the restart needs a timer in the wheel and one more, and an outage
longer than a turn of `tv1`. In the gate a race needs the old session, the new
session and the map server, which three descriptors give; reuse needs two
connections on one descriptor, and four connections on two descriptors give up
to three. A move needs a home, another map and sessions that come and go
between its four calls; with `MaxQueue` 1 a map server starts one move at a time.
Both players of `gate_reuse` have one account, so that one breaks the other. `NetSess` needs one descriptor used twice, by either kind of
connection, with a packet longer than what one read takes (`Room`).
`World` needs an entity that is seen from afar and one that is not (`Upper`), an
eye, and places one, two and three blocks apart, on
both sides of the edge of either view, two of them overlapping. A troop is seen at three
scales, so `TroopView` has three grids of cells of 4, with ends in every kind of
cell and on the borders. Sprites have a speed that stays within a window in a step, one that
crosses it, and one that does not divide into the cells of a step. `MsgPack` has digits of base 4 for bytes and short forms of 2
members, so that both ends of every form of the format fit in short values;
`Bson` has one document for each thing the encoder tells apart, `Hex` 2 and
`MAX_DEPTH` 1. `Mongo` has two readers on one connection and two documents a
batch. `Packet` has cells of two bytes and a first buffer of 8, so that it grows,
and strings above `MaxString` to be cut. In `SkipList` each question is asked after an update, since a question
changes nothing, and of every rank from 0 to one past the last. `Ring` has two
lists and three elements; `Places` 18 by 18 blocks, which give the levels of the zones; in `Stream`
a key block is 3 cells, a length 2 and a buffer 7, so that they end at different
places, a read may end inside a length, and of packets of 1 and 6 cells two short
ones are merged into one buffer and a long one has a buffer of its own.
Symmetry (descriptors, players, maps) is used in safety runs only. In
`gate_reuse`, whose parts differ in descriptors and players, two states of a part
are identified only by a permutation of what that part has.

**Deadlock** is not checked, because the systems really stop: a worker sleeps
in `epoll_wait` when nobody sends, nobody is obliged to connect, and the
libraries end with their answer. In `Que` a sleeping consumer may always be woken
for nothing, so the check would say nothing of it; `NoLostSignal` does.

**Fairness.** A thread inside its loop keeps running: weak fairness of each
worker, the exchange thread, the timer thread, the clock, the event thread and
the connecter of `net.c`, Lua's own reading of its queue, and of a producer
that has left its critical section (its next statement is the signal or the
write). Sockets deliver and map servers handle what they are sent (weak
fairness of `Handle`). The clock held by a restart is let go at the end of
start-up (weak fairness of `Release`). Nothing is owed a spurious wake-up, and
no client has to connect, speak or leave. `Que` assumes a consumer that asks
again, as every consumer thread does. `World`, `TroopView`, `Sprite` and what
`lua_libs` runs are checked for safety and refinement only and state none.

## What the counterexamples show

* `gate_status` — the tool server is counted in `gCountSrv` (line 1068) but its
  connection never in `gCountSck`, so `status()` (line 165) reports an ERROR.
* `gate_why` — a client that leaves between its first packet and its
  certification is signed in on a broken session. `TableMatchesSessions` shows
  that the sign-out behind it repairs the table.
* `world_overlap` — `roi_add_ety` of an entity that is there already clears its
  bits (`rem_eid`, `world.c:1440`) and sets the new ones later
  (`roi_set_bit`, line 1462). In between, the Lua thread finds the place free and
  gives it away, though it refuses a taken one with `TIPS_OVERLAP`
  (`player_t.lua:5106-5107`).

## Proofs

For every value of the constants (producers and items, descriptors, players,
maps and connections), from their named assumptions alone:

* `MailboxProofs`: `TypeCorrect`, `CounterHolds`, `NoLostWakeupHolds`,
  `PipeBoundedHolds`, `MailboxIsQueue`. `NoLostWakeup` is inductive together with
  `CounterMatchesList`: a producer that does not write has seen `nw # 0`, hence a
  non-empty list, for which a wake-up is already pending. The same wake-up is the
  only one (`OneWakeup`): a byte in the pipe, a producer about to write one and a
  worker about to splice exclude each other, so the pipe never holds two.
* `QueProofs`: `TypeCorrect` (with `WaitCounts`), `NoLostSignalHolds`,
  `LookStillTrueHolds`, `QueIsQueue`. `WaitCounts` is what makes `NoLostSignal`
  inductive: a producer that finds the consumer asleep finds `wait = 1` and so
  goes on to signal. `LookStillTrue` rests on there being one consumer.

* `EGateProofs`: `TypeCorrect`. `TypeOK` says which fields each command and
  packet has and which values they take, so it is inductive by itself: what a
  queue hands on is what some action has put there. `Shape` says what all the
  calls between map servers have in common: they are about one player and its
  sid. Players are assumed finitely many, as `firstPacket2` goes through those of
  an account one by one (`Orders`).
  `FreshSessionHolds`: a new connection finds its session wiped.
  The wipe is the last of three steps of three threads (the worker lets go of
  the descriptor, the exchange thread calls `close()`, then `memset`), and the
  kernel may hand the descriptor out after the second. The argument, `Inv`:
  a `CMD_INCOME` or `CMD_CONNECT` waits in one place only (`WaitsOnce`), a queue
  of its own descriptor (`OwnQueue`), which is open and not polled yet
  (`WaitingOpen`); while it waits, or the descriptor is closed, the session is
  wiped or `close_sess` is about to wipe it (`WaitingWiped`), and the exchange
  thread handles nothing else until it has. That a sign-out in flight is never
  one of the new session follows from serial numbers: a session has the sid of
  its own descriptor with a serial already given out (`OwnSid`), and a sign-out
  of a session that still exists was sent by a worker that no longer polls the
  descriptor (`Signouts`). `SigninStays` carries the session over the three
  steps of `CMD_SIGNIN_CLI`.
* `EGateTable`: `TableMatches`, `CertifiedOnly`, `RightKinds`. A pid and a sid
  travel together: in a sign-in, in a packet for a map server and back in its
  `NET_SET_SRV_ID`, in the table. The invariant says of each such pair, wherever
  it is (`CommandOK`, `QueuedOK`, `SaidOK`, `Table`), that the sid's connection, if
  it still has its session, was certified as the pid. A client asks to be
  certified with its first packet, of which there is one (`Asked`), so a
  connection is certified as one player at most. In the middle of
  `CMD_SIGNIN_CLI` the table already, or still, names another session than
  `vSess` does; the invariant says which, for each value of `xpc`. The
  assumption `None \notin Nat \X Fd` only says that the mark for no sid is none.
* `EGateCount`: `CountsAgreeHolds`. Each counter is the size of a set read off
  the state: connections announced and not signed out (`Announced`), server
  sessions signed in (`ServersOn`), players in the table (`PlayersOn`). The work
  is to show that a counter changes when its set does: a descriptor's `CMD_INCOME`
  or `CMD_CONNECT` comes before everything else about it, a server sends its
  `NET_SET_MAP_ID` once, sign-in comes before sign-out, sign-out once. The
  hypothesis is that no tool server connects: with one the counters do disagree,
  which is what the run `gate_status` shows.
* `NetSessProofs`: `OwnDescriptorHolds`, `EndsWithCauseHolds`, `InOrderHolds`. A connection on its
  way from the connecter or the listener to the event thread waits in one queue,
  once, holds its descriptor and has no session; a session has the sid of a
  connection that holds the descriptor it is on. That a session ends with a
  cause needs what is in the read buffer: a prefix of whole packets of its peer
  and the beginning of the next, so that a size the reader finds malformed or
  too large is one the peer has sent. That both directions keep their order
  follows from two lines that run through all the threads. `Line(c)`: what is on
  the wire, then what the session still has to write, then what waits in `todo`
  and `gSndBufq`, are whole buffers one after the other, the last of them number
  `out[c]` (`Sending`); a buffer that finds no session is dropped from the front of
  the part not yet written, which is why a wire may begin with any of them.
  `Heard(c)`: what Lua has been told, then `gRcvBufq`, then `gRcvBufqTmp`, are the
  first `m` packets, and the read buffer with what the socket still holds is the
  packets from `m + 1` to the last that came (`Hearing`). Before it has
  a session a connection has written and heard nothing; the lists may be spliced
  and taken between any two steps. `InOrder` is claimed of a run up to the
  connecter's unlocked `add` (`raced`), after which a notice may be lost.
  `NetAssumption` says only that connections are numbered, finitely many, that 0 is
  no descriptor and that sizes and bounds are naturals.
* `WorldProofs`: `MarksAgreeHolds`, `ViewAgreesHolds`, `BroadcastOfKnownHolds`.
  Lua's knowledge of an entity (`placed`) runs ahead of the world thread's
  (`ety`) by the messages in `g_msgq`. The invariant follows an entity through
  its stops, where it is now and where each message in the queue will put it:
  the cells of two stops overlap another entity's never, and the marks are the
  union of the cells of all stops, but for what `rem_eid` has cleared and
  `roi_set_bit` has yet to set while `linking`. For the views (`ViewInv`) what
  counts is what a player will know when it has read all that is on its way:
  each entity it knows is within the reach of its eye, of a level the eye sees,
  and where the entity stands or the message in hand puts it; each entity in
  view is known. A broadcast goes to the eyes within reach of the entity, so if
  the eye is told of such entities at all it is appended behind what made the
  entity known. Nothing is claimed of a global eye and a resource: `broadcast`
  reads its level where the packet has its type (`world.c:1525`), which is never
  0, so global eyes get broadcasts about resources that they are never told of.
  The proof showed that `ViewAgrees`, as it was first stated, fails after five
  messages, more than the run posts: an eye that moves away and comes back finds
  what was there before, unless the client forgets what it leaves behind, as
  `Entity:_onMovEye` does. The model now has that step (`Forgets`).

* `TimerWheelProofs`: `OnTimeHolds`, `TimerWheelIsEngine`, for any number and size
  of the vectors. The invariant says where a timer may be. `Coming(n, j)` counts
  the slots of `tv_n` from jiffy 0 to the first that has not cascaded by jiffy
  `j`; `index[n]` is that number modulo the size of the vector (`Indexed`). A timer
  in `tv_n` is for one of the `Size(n)` slots from `Coming(n, jiffies)` on
  (`AllFit`), so what a slot holds when it cascades is for the jiffies that start
  now and not for those a turn later, and what `tv1`'s slot holds is due now. In
  the middle of a jiffy some vectors have cascaded and the others have not
  (`Mixed`); each cascade is one step of an induction along the vectors
  (`CascadeFits`, `CascadedKept`). A timer that was linked overdue can be in `tv1`
  only, in a slot that comes round before a turn has passed since. `Stages` says
  that a timer is with the Lua thread, on the put queue, in the wheel and on the
  get queue one after the other. `WheelAssumption` asks for vectors of at least two
  slots, at least two vectors, finitely many timers and delays within the reach of
  the wheel; that a timer which waits at a restart is due within that reach of
  jiffy 0 is a bound of `SetStart`.

The refinement theorems prove that the initial states map to initial states of
the abstract specification (`Fifo`, `TimerEngine`) and every step to one of its
actions or a stutter.

`CounterHolds` and the `TypeCorrect` of `MailboxProofs`, `EGateProofs` and
`TimerWheelProofs` state
lemmas of the argument that no run checks; `CertifiedOnly` is part of what
`gate_reuse` checks. The others state a property of a run.

What a player will know is defined by the last of several packets, and what a
cascade leaves by recursive functions, which need induction. The library's
induction theorems cannot be used, because they take an operator as a parameter;
`WFMin` with `NatLessThanWellFounded` gives the least number of a set (`LeastIn`,
`LeastNat`), which is enough for statements about naturals and lengths of
sequences, and for the existence of a recursive function (`Iterates`, `Joined`).

Only model-checked: `MapFollowsPlayer`, `ServerStaysMapped`, `TableInBoth` and
`CertifiedInBoth` as the runs state them, `TroopView` (products of
coordinates), `Sprite`, everything `lua_libs` runs, and all liveness
(`Delivered`, `Fires`, `ServerLearns`, `DescriptorsComeBack`,
`EverythingArrives`), which the prover does not handle.
What the recursive operators of `MsgPack`, `Bson`, `Packet`, `Ring` and `Stream`
compute is out of the prover's reach.

## Not modelled, and why

**Gate.**
* `NET_SNAPSHOT` is the `ServerPacket` of another type; `NET_ECHO` changes
  only the sender's own send queue. `CMD_LISTEN` runs once, at start-up.
* The core server (`MODE_TRANS_GATE`, `MODE_TRANS_CORE`, `NET_ROUTER`) is a
  later module; `vMerge` is never loaded (`load_merge` is not called).
* `break_sess` reads pid and map one after the other; both reads are one step
  here. The exchange thread's `memset` of a `bufwq` its worker has left is too.
* The `sn` of `make_sid` is a static variable that the workers increment without
  a lock (`egate.c:707`); in `EGate` each increment is one step.
* `ServerStaysMapped` does not hold, and claims nothing, of connections of one map
  server that were open together (`overlapped`): `CMD_SIGNOUT` of the older one
  calls `rem_cli(pid)` (`egate.c:1122`) whatever sid the table has, so the newer
  one is signed in and gets no packets. The other properties hold in that
  case too.
* `ServerLearns` says that every map takes the player off line on the session that
  broke at some time after. It is not claimed that it stays so (a call of a kicked
  session, handled later, sets `gid` again, `frame.lua:443`), nor that the player
  of a live session stays online (`onBreak` compares no sockid), nor that the home
  of a guest forgets it at the notice (which carries none for it to compare).
* `MapFollowsPlayer` speaks of sessions some map has the player online on. A guest
  whose map has no connection when its session is handed on is online nowhere
  but at home, and loses its session when it is taken back; that is allowed.
  Two moves in flight at a time, and two players of one account of which one has
  its home on another map, are in no run.
* Of the map servers: `from_map` in a first packet is taken for the map it is sent
  to; players are there from the start (`Loaded`), as if created before; packets
  to clients, `first_packet_ack` too, change nothing and are `Chatter`;
  `agent_migrate_back` is one step, though it waits for the database before it
  changes anything, and so is never overtaken by a later message; calls held
  back in `gActionQue` while another of the same player runs; a map server's
  refusals of a move (busy troops, no item) only mean that it asks for none; web
  clients (`is_web_client`), `change_server`, the restart of the gate under running map
  servers, and its left-over `gid`.
* The idle check of `script/timerfunc.lua` that calls `onBreak` by itself.
* In `Stream`, packets `do_packet` refuses and a failed `NEW_BUF`. The gate's
  seed is 12 bytes with the sid in its third word, while `STATE_RECV_SEED` of
  `net.c` reads 8 with the sid in the second, so `net.c` is no peer of an
  encoding gate and the peer is external. `StreamIntact` speaks for the peer
  until a `send` first fails: the gate then goes on one byte back.

**Network thread.** A sid is a connection (`makesid` is unique until its serial
wraps; `gSn++` races). The model stops where the event thread and the connecter
are both inside `recv_buf` (`raced`): there the list is undefined. The order of
callbacks is libevent 2.1's. The game never calls `start_listen`, `encrypt` is 0,
and sizes are far below `MAX_BUF_SIZE`. A failed connect leaks its descriptor.

**Timer.** A timer that waits in the wheel when the clock is set back keeps
its place and loses its time; `OnTime` exempts it, `Fires` does not.
`timer_time_step` is never reached: `local real = gCompensation`
(`frame.lua:698`) ends the loop that would call it at once.

**Area of interest.**
* Resources and access times of blocks (`NTY_NO_RES`), and the phase before
  `gGate` is set.
* `ViewAgrees` exempts an entity moved under its own id (the `c_rem_ety` before
  it is commented out at `player_t.lua:5128`) and eyes of which the removal is
  posted; what a player was told starts afresh with each `ADD_EYE`. The client is
  that of `script/forqc`: it forgets what its eye leaves behind when it asks for
  the move; the model lets it forget in the order of what it is sent, so a
  packet that crosses the request on its way is not shown.
* `add_to_troop_cover`, which nothing reaches: `sprite_get_status` returns 0.
* In `TroopView`, the map is scaled, floats are exact numbers, and a troop that
  was turned back is exempt: it stays on the cells of its first way. The cut-off
  at 30 troops or eyes is not reached.
* `Sprite` walks along the axes in thousandths of a cell. It shows, and its
  properties allow, that a sprite starting in the black area leaves a range it
  never entered, that arrival and removal announce no leaving, that
  `UPD_ACTOR` charges the new speed from the last step on, and that
  `REM_ETY` does not remove a sprite. `roi_get_actor_pos`, which the Lua
  thread calls while the world thread moves the sprite, is not modelled.
* Some scripts are newer than the engine's C interface; where they differ, C
  is followed.

**Libraries.**
* `MsgPack` leaves out the byte order of the host. `UnpackedAsPacked` is claimed
  except for tables whose largest key does not fit the `int` with which
  `table_is_an_array` counts: they may lose their contents.
* Keys that are tables or functions are left out of `MsgPack` (a function is packed
  as nil, and a nil key cannot be read back).
* In `Bson`, `lua_next`'s order and `rawlen`'s border are given with a table. Object
  ids made from clock and counter, and the growth of the buffer, are left out. An
  `int32` replaced by a longer number is cut without an error.
* In `Mongo`, login, `runCommand` and indexes. An empty batch with a live cursor
  leaves the cursor open.
* `Packet` follows the loop of `do_threadPK` without its debugging line that
  overrides `gateid` and `tag` (`frame.lua:252`). Malformed packets come from
  peers between frames only.

**Not started.** What the inventory lists and the plan below still has; game
rules and tables (sequential content), old code, tools and vendored libraries
are not part of the plan.

## Plan

1. *done* — queues: `Fifo`, `Que`, `Mailbox`, with proofs.
2. *done* — `TimerEngine`, `TimerWheel`, with the restart and the proofs.
3. *done* — `EGate`, and its bytes: `Stream`.
4. *done* — `NetSess`.
5. *done* — `World`, `TroopView`, `Sprite`, `Places`.
6. *done* — the libraries: `SkipList`, `MsgPack`, `Bson`, `Mongo`, `Packet`, `Ring`.
7. Proofs of the gate: *done* — `EGateProofs` (types, wiped sessions),
   `EGateTable`, `EGateCount`; *next* — `MapFollowsPlayer`, `ServerStaysMapped`.
8. *done* — `PipeBounded`, `OwnDescriptor`, `EndsWithCause` and `InOrder`, the
   properties of `World`; *next* — `TroopView`, `Sprite`, and `Ring` implementing
   `Lists` (with `Walk` as a recursive function).
9. `LuaTimer` (`frame/timer.lua`) over `TimerEngine`: one engine timer per live
   id, deletion and re-arming inside callbacks, reopening after a restart.
10. `PendingSave` (`frame/pending_save.lua` and the save and acknowledgement path
    of `frame.lua`): abstract specification "the last change is written or
    pending"; crashes, lost acknowledgements, retry after 100 frames.
11. `PlayerDispatch` (`do_threadPK2`, coroutine pools, `login_queue.lua`): order
    per player, overtaking, pool exhaustion, time-outs of `syncall`.
12. The core server in the gate; the liveness of a move.
