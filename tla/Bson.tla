-------------------------------- MODULE Bson --------------------------------
(***************************************************************************)
(* lbson.c: Lua tables as the length-prefixed documents the database       *)
(* stores, and the index through which fields are replaced in place.       *)
(*                                                                         *)
(* A table is <<"tab", entries, len>>: its entries <<key, value>> in the   *)
(* order lua_next gives them and the border lua_rawlen finds; "proxy"      *)
(* tables show their entries through __pairs only, a "doc" is the userdata *)
(* encode made of its entries, a "str" that starts with a zero byte and a  *)
(* type stands for an object and is <<"obj", type, the other bytes>>.  A   *)
(* byte is a digit in base Byte, a character, the decimal text of a number *)
(* (one cell) or a part of a double.                                       *)
(***************************************************************************)
EXTENDS Integers, SequencesExt

CONSTANTS
  Hex,         \* 16; a byte is two hex digits
  Milli,       \* 1000
  MAX_DEPTH,   \* tables within tables
  Tables,      \* the tables that are encoded; their numeric keys fit an int
  Ordered,     \* the argument lists of encode_order, sequences of <<key, value>>
  Replacements \* <<key, value>> pairs written through the index

VARIABLES
  doc,   \* the userdata, <<>> before there is one
  want,  \* the table it stands for, as bson.type tells it
  index, \* its user value: of each field its type and offset
  out,   \* what decode returned last, or None
  err    \* the error raised last, or "none"

bsonVars == <<doc, want, index, out, err>>

None == <<"none">>
Byte == Hex * Hex
Word == Byte^4     \* a 32-bit word
Zero == <<"byte", 0>>
Signed(n, m) == IF 2 * n >= m THEN n - m ELSE n

(* Little endian, w bytes. *)
Bytes(n, w) == [i \in 1..w |-> <<"byte", (n \div Byte^(i - 1)) % Byte>>]
Number(s) == FoldRight(LAMBDA c, n : n * Byte + c[2], s, 0)
Parts(x) == [i \in 1..8 |-> <<"part", x>>]

-----------------------------------------------------------------------------
(* Encoding.                                                               *)

append_key(type, key) == <<<<"type", type>>>> \o key \o <<Zero>>
is_32bit(n) == -Word <= 2 * n /\ 2 * n < Word

append_number(key, v) ==
  CASE v[1] = "real" -> append_key("real", key) \o Parts(v[2])
    [] v[1] = "int" /\ is_32bit(v[2]) -> append_key("int32", key) \o Bytes(v[2] % Word, 4)
    [] OTHER -> append_key("int64", key) \o Bytes(v[2] % Byte^8, 8)

(* An array when the last entry of the table is the one at its border. *)
IsArray(t) == t[1] = "tab" /\ t[3] > 0 /\ Last(t[2])[1] = <<"int", t[3]>>

write_binary(s) == Bytes(Len(s) - 1, 4) \o s

make_object(type, buf) == <<"obj", type, buf>>

(* The constructors of Lua. *)
lobjectid(hex) == make_object("objectid", [i \in 1..12 |-> <<"byte", hex[2 * i - 1] * Hex + hex[2 * i]>>])
ldate(d) == make_object("date", Bytes(d % Word, 4))
ltimestamp(d, inc) == make_object("timestamp", Bytes(inc % Word, 4) \o Bytes(d % Word, 4))
lregex(r, flags) == make_object("regex", r \o <<Zero>> \o flags \o <<Zero>>)
lbinary(x) == make_object("binary", <<Zero>> \o x)

(* A value the constructors make, <<"new", type, args>>. *)
New(v) ==
  LET a == v[3]
  IN  CASE v[2] = "objectid"  -> lobjectid(a)
        [] v[2] = "date"      -> ldate(a)
        [] v[2] = "timestamp" -> ltimestamp(a[1], a[2])
        [] v[2] = "regex"     -> lregex(a[1], a[2])
        [] v[2] = "binary"    -> lbinary(a)
        [] OTHER              -> make_object(v[2], a)

(* Dates are kept in milliseconds. *)
ObjectBytes(v) ==
  CASE v[2] = "binary" -> write_binary(v[3])
    [] v[2] = "date"   -> Bytes(Number(v[3]) * Milli, 8)
    [] OTHER           -> v[3]

(* bson_numstr(lua_tointeger(key) - 1), or the key as a string. *)
KeyText(k, isarray) ==
  CASE isarray        -> <<<<"dec", ((IF k[1] = "int" THEN k[2] ELSE 0) - 1) % Word>>>>
    [] k[1] = "str" /\ ~isarray -> k[2]
    [] k[1] = "int" /\ ~isarray -> <<<<"dec", k[2]>>>>
    [] OTHER          -> <<<<"text", k[2]>>>>

RECURSIVE append_one(_, _, _), PackError(_, _, _)

pack_dict(entries, isarray, depth) ==
  LET body == FlattenSeq([i \in DOMAIN entries |->
                append_one(KeyText(entries[i][1], isarray), entries[i][2], depth)])
  IN  Bytes(Len(body) + 5, 4) \o body \o <<Zero>>

append_table(key, t, depth) ==
  append_key(IF IsArray(t) THEN "array" ELSE "document", key) \o pack_dict(t[2], IsArray(t), depth)

append_one(key, v, depth) ==
  CASE v[1] \in {"int", "real"}  -> append_number(key, v)
    [] v[1] = "doc"              -> append_key("document", key) \o pack_dict(v[2], FALSE, 0)
    [] v[1] = "new"              -> append_key(v[2], key) \o ObjectBytes(New(v))
    [] v[1] = "str"              -> append_key("string", key) \o Bytes(Len(v[2]) + 1, 4)
                                      \o v[2] \o <<Zero>>
    [] v[1] \in {"tab", "proxy"} -> append_table(key, v, depth + 1)
    [] v[1] = "bool"             -> append_key("boolean", key) \o <<<<"byte", IF v[2] THEN 1 ELSE 0>>>>

(* The first error met on the way: nothing is returned then. *)
PackError(entries, isarray, depth) ==
  LET Of(e) == CASE isarray /\ e[1][1] = "str"              -> "array key"
                 [] e[1][1] \notin {"int", "real", "str"}   -> "key type"
                 [] e[2][1] = "func"                        -> "value type"
                 [] e[2][1] \in {"tab", "proxy"} -> PackError(e[2][2], IsArray(e[2]), depth + 1)
                 [] OTHER                                   -> "none"
  IN  IF depth > MAX_DEPTH THEN "too deep"
      ELSE FoldLeft(LAMBDA e, x : IF e # "none" THEN e ELSE Of(x), "none", entries)

-----------------------------------------------------------------------------
(* Decoding.                                                               *)

(* The game's change: a key that reads as a number is a number, the empty
   one too, in an int. *)
KeyOf(text, array) ==
  CASE array               -> <<"int", Signed((Head(text)[2] + 1) % Word, Word)>>
    [] ~array /\ text = <<>> -> <<"int", 0>>
    [] OTHER -> IF Len(text) = 1 /\ text[1][1] = "dec"
                THEN <<"int", Signed(text[1][2] % Word, Word)>> ELSE <<"str", text>>

(* read_cstring: where the next zero byte is. *)
ZeroFrom(s, p) == CHOOSE i \in p..Len(s) : s[i] = Zero /\ \A j \in p..i - 1 : s[j] # Zero
Word32(s, p) == Number(SubSeq(s, p, p + 3))
read_byte(s, p) == s[p][2]
read_bytes(s, p, n) == SubSeq(s, p, p + n - 1)
read_int32(s, p) == Signed(Word32(s, p), Word)
read_int64(s, p) == Signed(Number(read_bytes(s, p, 8)), Byte^8)
read_double(s, p) == s[p][2]

Fixed == [int64 |-> 8, timestamp |-> 8, date |-> 8, real |-> 8,
          boolean |-> 1, objectid |-> 12, int32 |-> 4]

(* Put(t, k, v): lua_rawset. *)
Put(t, k, v) == {e \in t : e[1] # k} \cup {<<k, v>>}

RECURSIVE unpack_dict(_, _, _)

(* The value of this type at p, and where the next field starts. *)
ReadValue(s, p, bt) ==
  LET sz == Word32(s, p)
      Read(v, n) == [val |-> v, p |-> p + n]
      Object(n) == Read(make_object(bt, read_bytes(s, p, n)), n)
  IN  CASE bt = "real"      -> Read(<<"real", read_double(s, p)>>, 8)
        [] bt = "boolean"   -> Read(<<"bool", read_byte(s, p) # 0>>, 1)
        [] bt = "string"    -> Read(<<"str", read_bytes(s, p + 4, sz - 1)>>, 4 + sz)
        [] bt = "document"  -> Read(unpack_dict(s, p, FALSE), sz)
        [] bt = "array"     -> Read(unpack_dict(s, p, TRUE), sz)
        [] bt = "binary"    -> Read(make_object(bt, read_bytes(s, p + 4, sz + 1)), 5 + sz)
        [] bt = "date"      -> Read(ldate(read_int64(s, p) \div Milli), 8)
        [] bt = "int32"     -> Read(<<"int", read_int32(s, p)>>, 4)
        [] bt = "int64"     -> Read(<<"int", read_int64(s, p)>>, 8)
        [] bt \in {"objectid", "timestamp"} -> Object(Fixed[bt])
        [] bt \in {"minkey", "maxkey", "null"} -> Object(0)
        [] bt = "regex"     -> Object(ZeroFrom(s, ZeroFrom(s, p) + 1) + 1 - p)
        [] bt = "dbpointer" -> Object(sz + 16)
        [] bt \in {"jscode", "symbol"} -> Object(sz + 4)
        [] bt = "codews"    -> Object(sz)

RECURSIVE Fields(_, _, _, _, _)
Fields(s, p, end, array, t) ==
  IF p = end THEN t
  ELSE LET z == ZeroFrom(s, p + 1)
           r == ReadValue(s, z + 1, s[p][2])
       IN  Fields(s, r.p, end, array, Put(t, KeyOf(SubSeq(s, p + 1, z - 1), array), r.val))

unpack_dict(s, p, array) == <<"tab", Fields(s, p + 4, p + Word32(s, p) - 1, array, {})>>

(* How far makeindex goes over a value it does not read. *)
Skip(s, p, bt) ==
  LET sz == Word32(s, p)
  IN  CASE bt \in DOMAIN Fixed                   -> Fixed[bt]
        [] bt \in {"jscode", "symbol", "string"} -> 4 + sz
        [] bt \in {"codews", "array", "document"} -> sz
        [] bt = "binary"                         -> 5 + sz
        [] bt = "regex"     -> ZeroFrom(s, ZeroFrom(s, p) + 1) + 1 - p
        [] bt = "dbpointer" -> sz + 16
        [] OTHER            -> 0

(* The fields of fixed size, under their text, with where their value is. *)
RECURSIVE IndexFrom(_, _)
IndexFrom(s, p) ==
  IF p = Len(s) THEN {}
  ELSE LET z == ZeroFrom(s, p + 1)
           bt == s[p][2]
           key == SubSeq(s, p + 1, z - 1)
           rest == IndexFrom(s, z + 1 + Skip(s, z + 1, bt))
       IN  IF bt \in DOMAIN Fixed /\ \A e \in rest : e.key # key
           THEN rest \cup {[key |-> key, type |-> bt, offset |-> z]} ELSE rest

-----------------------------------------------------------------------------
(* bson.type: what a value stands for, and its parts. *)
lsubtype(subtype, buf) ==
  LET end == Len(buf) - 1
      zero == CHOOSE i \in 1..end : buf[i] = Zero /\ \A j \in i + 1..end : buf[j] # Zero
      Half(i) == buf[(i + 1) \div 2][2]
  IN  CASE subtype = "objectid"  -> <<subtype, [i \in 1..24 |-> IF i % 2 = 1 THEN Half(i) \div Hex
                                                                          ELSE Half(i) % Hex]>>
        [] subtype = "date"      -> <<subtype, Signed(Number(buf), Word)>>
        [] subtype = "timestamp" -> <<subtype, <<Number(SubSeq(buf, 5, 8)), Number(SubSeq(buf, 1, 4))>>>>
        [] subtype = "regex"     -> <<subtype, <<SubSeq(buf, 1, zero - 1), SubSeq(buf, zero + 1, end)>>>>
        [] subtype = "binary"    -> <<subtype, Tail(buf)>>
        [] subtype = "null"      -> <<"nil", <<>>>>
        [] subtype \in {"minkey", "maxkey"} -> <<subtype, <<>>>>
        [] OTHER                 -> <<"unsupported", buf>>

ltype(v) ==
  CASE v[1] \in {"int", "real"} -> <<"number", v>>
    [] v[1] = "bool"            -> <<"boolean", v>>
    [] v[1] = "str"             -> <<"string", v>>
    [] v[1] = "obj"             -> lsubtype(v[2], v[3])
    [] v[1] = "tab"             -> <<"table", v[2]>>

(* ... all the way down. *)
RECURSIVE Typed(_)
Typed(v) ==
  IF v[1] = "tab" THEN <<"table", {<<e[1], Typed(e[2])>> : e \in v[2]}>> ELSE ltype(v)

(* What a table is once it has been stored: the keys that read as numbers  *)
(* are numbers, whatever they were, a fraction is its text, an object is   *)
(* what its constructor was given.                                         *)
StoredKey(k) ==
  CASE k[1] = "int" -> k
    [] k[1] = "real" -> <<"str", <<<<"text", k[2]>>>>>>
    [] k[1] = "str" /\ k[2] = <<>> -> <<"int", 0>>
    [] OTHER -> IF k[2][1][1] = "dec" THEN <<"int", k[2][1][2]>> ELSE k

TypeName(type) ==
  CASE type = "null" -> "nil"
    [] type \in {"jscode", "dbpointer", "symbol", "codews"} -> "unsupported"
    [] OTHER -> type

RECURSIVE Stored(_)
StoredTable(entries) ==
  <<"table", FoldLeft(LAMBDA t, e : Put(t, StoredKey(e[1]), Stored(e[2])), {}, entries)>>
Stored(v) ==
  CASE v[1] \in {"tab", "proxy", "doc"} -> StoredTable(v[2])
    [] v[1] = "new"                     -> <<TypeName(v[2]), v[3]>>
    [] OTHER                            -> ltype(v)

Init == doc = <<>> /\ want = <<"table", {}>> /\ index = {} /\ out = None /\ err = "none"

Made(entries) ==
  IF PackError(entries, FALSE, 0) # "none"
  THEN err' = PackError(entries, FALSE, 0) /\ UNCHANGED <<doc, want, index, out>>
  ELSE /\ doc' = pack_dict(entries, FALSE, 0)
       /\ want' = StoredTable(entries)
       /\ index' = {} /\ out' = None /\ err' = "none"

(* One document in a behaviour. *)
lencode == doc = <<>> /\ \E t \in Tables : Made(t[2])
lencode_order == doc = <<>> /\ \E kvs \in Ordered : Made(kvs)

ldecode ==
  /\ doc # <<>>
  /\ out' = unpack_dict(doc, 1, FALSE)
  /\ UNCHANGED <<doc, want, index, err>>

lmakeindex ==
  /\ doc # <<>>
  /\ index' = IndexFrom(doc, 5)
  /\ UNCHANGED <<doc, want, out, err>>

(* A value the field can hold, or None: a double takes any number, a
   boolean anything, an int32 is cut to its word. *)
Fitted(type, v) ==
  CASE type = "real" /\ v[1] \in {"int", "real"} -> <<"real", v[2]>>
    [] type = "boolean"                      -> <<"bool", v # <<"bool", FALSE>>>>
    [] type = "int32" /\ v[1] = "int"        -> <<"int", Signed(v[2] % Word, Word)>>
    [] type = "int64" /\ v[1] = "int"        -> v
    [] type \in {"objectid", "date", "timestamp"} /\ v[1] = "new" -> IF v[2] = type THEN v ELSE None
    [] OTHER                                 -> None

(* Mutant: any integer written with eight bytes. *)
ValueBytesWide(type, v) ==
  CASE type = "real"    -> Parts(v[2])
    [] type = "boolean" -> <<<<"byte", IF v[2] THEN 1 ELSE 0>>>>
    [] type \in {"int32", "int64"} -> Bytes(v[2] % Byte^8, 8)
    [] OTHER            -> ObjectBytes(New(v))

ValueBytes(type, v) ==
  CASE type = "real"    -> Parts(v[2])
    [] type = "boolean" -> <<<<"byte", IF v[2] THEN 1 ELSE 0>>>>
    [] type = "int32"   -> Bytes(v[2] % Word, 4)
    [] type = "int64"   -> Bytes(v[2] % Byte^8, 8)
    [] OTHER            -> ObjectBytes(New(v))

(* doc[key] = v: the bytes of the field are overwritten where they are. *)
lreplace ==
  \E r \in Replacements :
    LET found == {e \in index : e.key = r[1]}
        e == CHOOSE x \in found : TRUE
        v == Fitted(e.type, r[2])
        s == ValueBytes(e.type, v)
    IN  /\ doc # <<>>
        /\ IF found = {} THEN err' = "cannot replace" /\ UNCHANGED <<doc, want, out>>
           ELSE IF v = None THEN err' = "type mismatch" /\ UNCHANGED <<doc, want, out>>
           ELSE /\ doc' = SubSeq(doc, 1, e.offset) \o s
                            \o SubSeq(doc, e.offset + Len(s) + 1, Len(doc))
                /\ want' = <<"table", Put(want[2], KeyOf(r[1], FALSE), Stored(v))>>
                /\ out' = None /\ err' = "none"
        /\ UNCHANGED index

Next == lencode \/ lencode_order \/ ldecode \/ lmakeindex \/ lreplace

Spec == Init /\ [][Next]_bsonVars

-----------------------------------------------------------------------------
(* Decoding (unpack_dict, ldecode, ltype): a document reads back as the
   table it was made from, every value with the type and the parts it was
   constructed with, whatever was replaced in it through the index meanwhile:
   the lengths written after the fact frame every nested document, an index
   made by skipping over values points at the fields it names, and a field
   that is replaced (lreplace) moves nothing behind it. *)
ReadsBack ==
  /\ out # None => Typed(out) = want
  /\ doc # <<>> => Word32(doc, 1) = Len(doc) /\ Last(doc) = Zero
=============================================================================
