------------------------------ MODULE MsgPack ------------------------------
(***************************************************************************)
(* cmsgpack, lua_cmsgpack.c: the arguments of remote calls (rpctype.lua)   *)
(* and the snapshots of the state (snapshot.lua, mongo_save_mng.lua) are   *)
(* packed Lua values.  A byte is a tag, a digit in base Byte or a          *)
(* character; the limits of the short forms are parameters, so that small  *)
(* numbers reach every form.  A table is a set of <<key, value>>.          *)
(***************************************************************************)
EXTENDS Integers, SequencesExt

CONSTANTS
  Byte,                           \* 256
  FixPos, FixNeg, FixStr, FixTab, \* 127, 32, 31 and 15
  IntMod,                         \* 2^32: a C int goes round there
  MaxNesting,                     \* LUACMSGPACK_MAX_NESTING
  ArgLists                        \* the lists of values that are packed

VARIABLES
  args,   \* what has been packed last
  mp_buf, \* the buffer: len used, free by its own count, cap allocated, over once overrun
  bytes,  \* the string mp_pack returned
  given,  \* how much of it the last unpacking was given
  got,    \* the values unpacked from it
  offset, \* where to go on, -1 at the end
  err     \* the error of the last unpacking, or "none"

mpVars == <<args, mp_buf, bytes, given, got, offset, err>>

LuaNil == <<"nil">>
Base(w) == Byte^w
Digits(n, w) == [i \in 1..w |-> <<"byte", (n \div Base(w - i)) % Byte>>]
Number(s) == FoldLeft(LAMBDA n, c : n * Byte + c[2], 0, s)
Signed(n, m) == IF 2 * n >= m THEN n - m ELSE n

-----------------------------------------------------------------------------
(* Encoding: every operator gives the chunks it appends to the buffer.     *)

Wide(kind, n, w) == <<<<kind, w>>>> \o Digits(n, w)

mp_encode_bytes(s) ==
  <<IF Len(s) <= FixStr THEN <<<<"fixraw", Len(s)>>>>
    ELSE Wide("raw", Len(s), Min({w \in {1, 2, 4} : Len(s) < Base(w)})), s>>

mp_encode_array(n) ==
  <<IF n <= FixTab THEN <<<<"fixarray", n>>>>
    ELSE Wide("array", n, Min({w \in {2, 4} : n < Base(w)}))>>

mp_encode_map(n) ==
  <<IF n <= FixTab THEN <<<<"fixmap", n>>>>
    ELSE Wide("map", n, Min({w \in {2, 4} : n < Base(w)}))>>

(* Mutant: the width of a negative number chosen as if it had no sign. *)
EncodeIntUnsigned(n) ==
  <<IF n \in -FixNeg..FixPos THEN <<<<"fixint", n>>>>
    ELSE IF n >= 0 THEN Wide("uint", n, Min({w \in {1, 2, 4, 8} : n < Base(w)}))
    ELSE LET w == Min({v \in {1, 2, 4, 8} : -n < Base(v)}) IN Wide("int", n % Base(w), w)>>

mp_encode_int(n) ==
  <<IF n \in -FixNeg..FixPos THEN <<<<"fixint", n>>>>
    ELSE IF n >= 0 THEN Wide("uint", n, Min({w \in {1, 2, 4, 8} : n < Base(w)}))
    ELSE LET w == Min({v \in {1, 2, 4, 8} : -2 * n <= Base(v)}) IN Wide("int", n % Base(w), w)>>

(* A fraction goes out as a float when that loses nothing. *)
mp_encode_double(x) ==
  LET w == IF x[1] = "single" THEN 4 ELSE 8
  IN  <<<<<<"float", w>>>> \o [i \in 1..w |-> <<"part", x>>]>>

mp_encode_lua_number(v) ==
  IF v[1] \in {"int", "whole"} THEN mp_encode_int(v[2]) ELSE mp_encode_double(v)

Keys(t) == {e[1] : e \in t}
At(t, k) == IF k \in Keys(t) THEN (CHOOSE e \in t : e[1] = k)[2] ELSE LuaNil

(* lua_rawlen: a border of the table. *)
Length(t) == Min({n \in 0..Cardinality(t) : <<"int", n + 1>> \notin Keys(t)})

(* The keys are 64 bits wide, max is an int. *)
table_is_an_array(t) ==
  /\ \A k \in Keys(t) : k[1] = "int" /\ k[2] > 0
  /\ FoldSet(LAMBDA k, m : IF k[2] > m THEN Signed(k[2] % IntMod, IntMod) ELSE m,
             0, Keys(t)) = Cardinality(t)

RECURSIVE mp_encode_lua_type(_, _)

mp_encode_lua_table_as_array(t, level) ==
  mp_encode_array(Length(t)) \o
    FlattenSeq([j \in 1..Length(t) |-> mp_encode_lua_type(At(t, <<"int", j>>), level + 1)])

mp_encode_lua_table_as_map(t, level) ==
  FoldSet(LAMBDA e, chunks : chunks \o mp_encode_lua_type(e[1], level + 1)
                                    \o mp_encode_lua_type(e[2], level + 1),
          mp_encode_map(Cardinality(t)), t)

mp_encode_lua_table(t, level) ==
  IF table_is_an_array(t) THEN mp_encode_lua_table_as_array(t, level)
                          ELSE mp_encode_lua_table_as_map(t, level)

(* Functions, threads and userdata, and tables nested too deep, go out as nil. *)
mp_encode_lua_type(v, level) ==
  CASE v[1] = "str"                       -> mp_encode_bytes(v[2])
    [] v[1] = "bool"                      -> <<<<v>>>>
    [] v[1] \in {"int", "whole", "single", "double"} -> mp_encode_lua_number(v)
    [] v[1] = "tab" /\ level # MaxNesting -> mp_encode_lua_table(v[2], level)
    [] OTHER                              -> <<<<LuaNil>>>>

(* When it grows, newlen of the 2 * newlen bytes are counted as free. *)
mp_buf_append(b, n) ==
  LET newlen == b.len + n
  IN  IF b.free < n
      THEN [len |-> newlen, free |-> newlen - n, cap |-> 2 * newlen, over |-> b.over]
      ELSE [b EXCEPT !.len = newlen, !.free = @ - n, !.over = @ \/ newlen > b.cap]

mp_buf_new == [len |-> 0, free |-> 0, cap |-> 0, over |-> FALSE]

(* Every argument is encoded from the start of the same buffer. *)
mp_pack(vs) ==
  /\ args' = vs
  /\ bytes' = FlattenSeq([i \in DOMAIN vs |-> FlattenSeq(mp_encode_lua_type(vs[i], 0))])
  /\ mp_buf' = FoldLeft(LAMBDA b, v :
                          LET full == FoldLeft(LAMBDA c, s : mp_buf_append(c, Len(s)),
                                               b, mp_encode_lua_type(v, 0))
                          IN  [full EXCEPT !.free = @ + full.len, !.len = 0],
                        mp_buf_new, vs)
  /\ given' = Len(bytes')
  /\ got' = <<>> /\ offset' = 0 /\ err' = "none"

-----------------------------------------------------------------------------
(* Decoding: a cursor is the place reached, the values read and the error. *)

Cursor(p, vals, e) == [p |-> p, vals |-> vals, err |-> e]
Failed(c, e) == [c EXCEPT !.err = e]

RECURSIVE mp_decode_to_lua_type(_, _), DecodeMany(_, _, _)

(* n values one after the other, none after an error. *)
DecodeMany(s, c, n) ==
  IF n = 0 \/ c.err # "none" THEN c ELSE DecodeMany(s, mp_decode_to_lua_type(s, c), n - 1)
Several(s, c, n) == DecodeMany(s, [c EXCEPT !.vals = <<>>], n)

(* A nil is not stored: the entry is not there. *)
mp_decode_to_lua_array(s, c, n) ==
  LET d == Several(s, c, n)
      t == {<<<<"int", i>>, d.vals[i]>> : i \in {j \in DOMAIN d.vals : d.vals[j] # LuaNil}}
  IN  IF d.err # "none" THEN Failed(c, d.err) ELSE Cursor(d.p, Append(c.vals, <<"tab", t>>), "none")

(* A nil key raises an error of Lua's. *)
mp_decode_to_lua_hash(s, c, n) ==
  LET d == Several(s, c, 2 * n)
      t == {<<d.vals[2 * i - 1], d.vals[2 * i]>> : i \in {j \in 1..n : d.vals[2 * j] # LuaNil}}
  IN  CASE d.err # "none"                       -> Failed(c, d.err)
        [] \E i \in 1..n : d.vals[2 * i - 1] = LuaNil -> Failed(c, "index is nil")
        [] OTHER -> Cursor(d.p, Append(c.vals, <<"tab", t>>), "none")

Pushed(c, v, n) == Cursor(c.p + n, Append(c.vals, v), "none")

(* The forms told by the high bits of the tag, which holds a small number. *)
DecodeFix(s, c) ==
  LET h == s[c.p]
      Past == [c EXCEPT !.p = @ + 1]
  IN  CASE h[1] = "fixint"   -> Pushed(c, <<"int", h[2]>>, 1)
        [] h[1] = "fixarray" -> mp_decode_to_lua_array(s, Past, h[2])
        [] h[1] = "fixmap"   -> mp_decode_to_lua_hash(s, Past, h[2])
        [] h[1] = "fixraw"   ->
             IF c.p + h[2] > Len(s) THEN Failed(c, "eof")
             ELSE Pushed(c, <<"str", SubSeq(s, c.p + 1, c.p + h[2])>>, 1 + h[2])
        [] OTHER -> Failed(c, "badfmt")

(* What a tag says of w digits behind it: how many elements follow ... *)
DecodeTable(s, c, n, w) ==
  LET Past == [c EXCEPT !.p = @ + 1 + w]
  IN  IF s[c.p][1] = "array" THEN mp_decode_to_lua_array(s, Past, n)
                             ELSE mp_decode_to_lua_hash(s, Past, n)

(* ... a number ... *)
DecodeNumber(s, c, n, w) ==
  LET h == s[c.p]
  IN  Pushed(c, CASE h[1] = "float" -> s[c.p + 1][2]
                  [] h[1] = "uint"  -> <<"int", n>>
                  [] h[1] = "int"   -> <<"int", Signed(n, Base(w))>>, 1 + w)

(* ... or the length of a string, which has to be there. *)
DecodeRaw(s, c, n, w) ==
  LET first == c.p + 1 + w
  IN  IF c.p + w + n > Len(s) THEN Failed(c, "eof")
      ELSE Pushed(c, <<"str", SubSeq(s, first, first + n - 1)>>, 1 + w + n)

DecodeWide(s, c) ==
  LET h == s[c.p]
      w == h[2]
      n == Number(SubSeq(s, c.p + 1, c.p + w))
  IN  CASE c.p + w > Len(s)               -> Failed(c, "eof")
        [] h[1] \in {"array", "map"}      -> DecodeTable(s, c, n, w)
        [] h[1] = "raw"                   -> DecodeRaw(s, c, n, w)
        [] OTHER                          -> DecodeNumber(s, c, n, w)

mp_decode_to_lua_type(s, c) ==
  CASE c.p > Len(s)                   -> Failed(c, "eof")
    [] s[c.p][1] \in {"nil", "bool"}  -> Pushed(c, s[c.p], 1)
    [] s[c.p][1] \in {"float", "uint", "int", "array", "map", "raw"} -> DecodeWide(s, c)
    [] OTHER                          -> DecodeFix(s, c)

(* The loop over the string: limit 0 at offset 0 takes everything. *)
RECURSIVE UnpackFrom(_, _, _, _)
UnpackFrom(s, c, limit, all) ==
  IF c.err # "none" \/ c.p > Len(s) \/ (~all /\ limit = 0) THEN c
  ELSE UnpackFrom(s, mp_decode_to_lua_type(s, c), limit - 1, all)

(* After an error nothing is returned. *)
mp_unpack_full(s, limit, off) ==
  LET c == UnpackFrom(s, Cursor(off + 1, <<>>, "none"), limit, limit = 0 /\ off = 0)
  IN  /\ err' = c.err
      /\ got' = IF c.err = "none" THEN got \o c.vals ELSE <<>>
      /\ offset' = IF c.err # "none" \/ c.p > Len(s) THEN -1 ELSE c.p - 1

Init ==
  /\ args = <<>> /\ bytes = <<>> /\ got = <<>> /\ err = "none"
  /\ mp_buf = mp_buf_new /\ given = 0 /\ offset = -1

(* Nothing of an earlier call is left: one packing in a behaviour. *)
Pack == args = <<>> /\ \E vs \in ArgLists : mp_pack(vs)

Untouched == offset = 0 /\ got = <<>>

(* mp_unpack: the whole string. *)
Unpack ==
  /\ Untouched /\ mp_unpack_full(bytes, 0, 0)
  /\ UNCHANGED <<args, mp_buf, bytes, given>>

(* mp_unpack_one, mp_unpack_limit: from where the last one stopped. *)
UnpackLimit ==
  /\ offset # -1
  /\ \E limit \in 1..2 : mp_unpack_full(bytes, limit, offset)
  /\ UNCHANGED <<args, mp_buf, bytes, given>>

(* A string that was cut on its way, through mp_safe. *)
UnpackCut ==
  /\ Untouched
  /\ \E n \in 1..Len(bytes) - 1 : given' = n /\ mp_unpack_full(SubSeq(bytes, 1, n), 0, 0)
  /\ UNCHANGED <<args, mp_buf, bytes>>

Next == Pack \/ Unpack \/ UnpackLimit \/ UnpackCut

Spec == Init /\ [][Next]_mpVars

-----------------------------------------------------------------------------
(* What a value is when it has been packed and unpacked: a float without   *)
(* fraction is an integer, an entry whose value is nil is gone.            *)
RECURSIVE Kept(_, _)
Kept(v, level) ==
  CASE v[1] = "other" -> LuaNil
    [] v[1] = "whole" -> <<"int", v[2]>>
    [] v[1] = "tab" /\ level = MaxNesting -> LuaNil
    [] v[1] = "tab" /\ level # MaxNesting ->
         <<"tab", {<<e[1], Kept(e[2], level + 1)>> :
                     e \in {f \in v[2] : Kept(f[2], level + 1) # LuaNil}}>>
    [] OTHER -> v

(* A table with a key that does not fit in an int may be taken for an array
   and lose what it holds: nothing is claimed of it. *)
Claimed(v) == v[1] # "tab" \/ \A k \in Keys(v[2]) : k[1] # "int" \/ 2 * k[2] < IntMod

(* Packing, unpacking (mp_pack, mp_unpack, mp_unpack_one, mp_unpack_limit):
   whatever the steps in which the string is read, the values are the ones
   that were packed, in their order; at the end they are all there, and a
   string that was cut gives some of the first ones or "Missing bytes".  The
   buffer they are packed in grows before it is written past its end, and the
   count of its free bytes never promises more than there are. *)
UnpackedAsPacked ==
  /\ (\A i \in DOMAIN args : Claimed(args[i])) =>
       LET kept == [i \in DOMAIN args |-> Kept(args[i], 0)]
       IN  /\ IsPrefix(got, kept)
           /\ err \in (IF given = Len(bytes) THEN {"none"} ELSE {"none", "eof"})
           /\ offset = -1 /\ given = Len(bytes) => got = kept
  /\ ~mp_buf.over /\ mp_buf.len + mp_buf.free <= mp_buf.cap
=============================================================================
