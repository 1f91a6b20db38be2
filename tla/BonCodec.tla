------------------------------- MODULE BonCodec -------------------------------
(***************************************************************************)
(* bon.rs: the binary object notation of the game's packets.  A stream is a *)
(* sequence of bytes.  A string is the sequence of its bytes, a finite float *)
(* the bytes of its representation.  A 32-bit word has WordBytes bytes here, *)
(* so that the 64-bit numbers stay within the integers of the model checker. *)
(***************************************************************************)
EXTENDS Integers, Sequences, SequencesExt

CONSTANT WordBytes

\* The number of values of an i32.
WordBase == 256 ^ WordBytes

-----------------------------------------------------------------------------
(* The values (serde_json::Value).                                          *)

Null == [t |-> "null"]
Bool(b) == [t |-> "bool", b |-> b]
Num(n) == [t |-> "num", n |-> n]
Float(f) == [t |-> "float", f |-> f]
Str(s) == [t |-> "str", s |-> s]
Arr(a) == [t |-> "arr", a |-> a]
\* An object is the set of its entries [k, v]; a key is a Str, or the Json text
\* of another value.
Obj(o) == [t |-> "obj", o |-> o]
Json(v) == [t |-> "json", of |-> v]

-----------------------------------------------------------------------------
(* DataWriter.                                                              *)

write_i32(n) == [i \in 1..WordBytes |-> (n \div 256 ^ (i - 1)) % 256]

\* The high word of a negative number is the complement of a quotient rounded
\* towards zero.
write_i64(n) ==
    write_i32(n) \o write_i32(IF n < 0 THEN -((-n) \div WordBase) - 1 ELSE n \div WordBase)

RECURSIVE write_7bit_int(_)
write_7bit_int(n) ==
    IF n >= 128 THEN <<(n % 128) + 128>> \o write_7bit_int(n \div 128) ELSE <<n>>

write_utf(s) == write_7bit_int(Len(s)) \o s

-----------------------------------------------------------------------------
(* BonEncoder: the bytes written and the strings seen, in order.            *)

EmptyEncoder == [out |-> <<>>, strs |-> <<>>]

Put(e, bytes) == [e EXCEPT !.out = @ \o bytes]

FitsWord(n) == -(WordBase \div 2) <= n /\ n < WordBase \div 2

encode_number(n) ==
    IF FitsWord(n) THEN <<1>> \o write_i32(n) ELSE <<2>> \o write_i64(n)

\* The number a string got when it was first written.
string_index(strs, s) == (CHOOSE i \in 1..Len(strs) : strs[i] = s) - 1

encode_string(s, e) ==
    IF Contains(e.strs, s)
    THEN Put(e, <<99>> \o write_7bit_int(string_index(e.strs, s)))
    ELSE [out |-> e.out \o <<5>> \o write_utf(s), strs |-> Append(e.strs, s)]

RECURSIVE encode_value(_, _)
encode_value(v, e) ==
    CASE v.t = "null"  -> Put(e, <<0>>)
      [] v.t = "bool"  -> Put(e, <<6, IF v.b THEN 1 ELSE 0>>)
      [] v.t = "num"   -> Put(e, encode_number(v.n))
      [] v.t = "float" -> Put(e, <<4>> \o v.f)
      [] v.t = "str"   -> encode_string(v.s, e)
      [] v.t = "arr"   ->
            FoldLeft(LAMBDA acc, x : encode_value(x, acc),
                     Put(e, <<9>> \o write_7bit_int(Len(v.a))), v.a)
      [] v.t = "obj"   ->
            LET entries == SetToSeq(v.o)
            IN  FoldLeft(LAMBDA acc, x : encode_value(x.v, encode_value(x.k, acc)),
                         Put(e, <<8>> \o write_7bit_int(Len(entries))), entries)

encode(v) == encode_value(v, EmptyEncoder).out

encode_binary(bytes, e) == Put(e, <<7>> \o write_7bit_int(Len(bytes)) \o bytes)

-----------------------------------------------------------------------------
(* Binary values are decoded to the text of their base64 form.              *)

\* CHARS[i], as a byte.
CHARS(i) ==
    CASE i < 26 -> 65 + i
      [] i \in 26..51 -> 97 + i - 26
      [] i \in 52..61 -> 48 + i - 52
      [] i = 62 -> 43
      [] i = 63 -> 47

Pad == 61

base64_chunk(c) ==
    LET b(i) == IF i <= Len(c) THEN c[i] ELSE 0
    IN  << CHARS(b(1) \div 4),
           CHARS((b(1) % 4) * 16 + b(2) \div 16),
           IF Len(c) > 1 THEN CHARS((b(2) % 16) * 4 + b(3) \div 64) ELSE Pad,
           IF Len(c) > 2 THEN CHARS(b(3) % 64) ELSE Pad >>

RECURSIVE base64_encode(_)
base64_encode(bytes) ==
    IF bytes = <<>> THEN <<>>
    ELSE LET n == IF Len(bytes) < 3 THEN Len(bytes) ELSE 3
         IN  base64_chunk(SubSeq(bytes, 1, n))
                \o base64_encode(SubSeq(bytes, n + 1, Len(bytes)))

-----------------------------------------------------------------------------
(* DataReader.  A reader is what is left of the stream; a read gives a value *)
(* and the rest, or None.                                                    *)

None == [ok |-> FALSE]
Some(v, rest) == [ok |-> TRUE, v |-> v, rest |-> rest]

read_bytes(rest, n) ==
    IF n <= Len(rest) THEN Some(SubSeq(rest, 1, n), SubSeq(rest, n + 1, Len(rest)))
    ELSE None

Unsigned(b) == FoldRight(LAMBDA x, acc : x + 256 * acc, b, 0)
Signed(b) == LET u == Unsigned(b) IN IF u >= WordBase \div 2 THEN u - WordBase ELSE u

\* A float whose exponent is all ones is not a number of JSON.
NonFinite(f) == f[Len(f)] % 128 = 127
from_f64(f) == IF NonFinite(f) THEN Null ELSE Float(f)

\* The value of two words, low word first.
read_i64(b) ==
    LET lo == Signed(SubSeq(b, 1, WordBytes))
    IN  (IF lo < 0 THEN lo + WordBase ELSE lo)
          + WordBase * Signed(SubSeq(b, WordBytes + 1, 2 * WordBytes))

\* The bytes of a character that starts with b; 0 if none does.
Width(b) ==
    CASE b < 128 -> 1
      [] b \in 194..223 -> 2
      [] b \in 224..239 -> 3
      [] b \in 240..244 -> 4
      [] OTHER -> 0

\* b may be the byte i > 1 of a character: no overlong form, no surrogate and
\* nothing beyond the last code point.
Continues(first, i, b) ==
    /\ b \in 128..191
    /\ i = 2 => CASE first = 224 -> b >= 160
                  [] first = 237 -> b < 160
                  [] first = 240 -> b >= 144
                  [] first = 244 -> b < 144
                  [] OTHER -> TRUE

Replacement == <<239, 191, 189>>    \* U+FFFD

\* The bytes of a text: characters are kept, and as many bytes as do not make one
\* become a replacement character.
RECURSIVE from_utf8_lossy(_)
from_utf8_lossy(s) ==
    IF s = <<>> THEN <<>>
    ELSE LET begun == {n \in 2..Width(s[1]) : n <= Len(s)
                          /\ \A i \in 2..n : Continues(s[1], i, s[i])}
             n == Max({1} \cup begun)
         IN  (IF n = Width(s[1]) THEN SubSeq(s, 1, n) ELSE Replacement)
                \o from_utf8_lossy(SubSeq(s, n + 1, Len(s)))

RECURSIVE read_7bit_from(_, _, _)
read_7bit_from(rest, index, value) ==
    IF rest = <<>> \/ index = 5 THEN None
    ELSE LET b == Head(rest)
         IN  IF index = 4 /\ b >= 16 THEN None
             ELSE LET sum == value + (b % 128) * 128 ^ index
                  IN  IF b < 128 THEN Some(sum, Tail(rest))
                      ELSE read_7bit_from(Tail(rest), index + 1, sum)

read_7bit_int(rest) == read_7bit_from(rest, 0, 0)

-----------------------------------------------------------------------------
(* BonDecoder: what is left to read, the strings read, and what is left of   *)
(* the budgets for nodes and for value bytes.  lim is a BonDecodeLimits.     *)

Reader(data, lim) ==
    [rest |-> data, strs |-> <<>>, nodes |-> lim.nodes, bytes |-> lim.total]

\* A decoded value and the decoder after it.
Decoded(v, d) == [ok |-> TRUE, v |-> v, d |-> d]

\* n bytes taken and turned into a value.
Fixed(d, n, Value(_)) ==
    LET r == read_bytes(d.rest, n)
    IN  IF r.ok THEN Decoded(Value(r.v), [d EXCEPT !.rest = r.rest]) ELSE None

\* A length and so many bytes, charged to the budget for value bytes.
Sized(d, lim) ==
    LET n == read_7bit_int(d.rest)
        r == read_bytes(n.rest, n.v)
    IN  IF n.ok /\ n.v <= lim.value /\ n.v <= d.bytes /\ r.ok
        THEN Decoded(r.v, [d EXCEPT !.rest = r.rest, !.bytes = @ - n.v])
        ELSE None

\* Charged by the bytes read; what is not UTF-8 becomes a longer text.
decode_string(d, lim) ==
    LET r == Sized(d, lim)
        s == from_utf8_lossy(r.v)
    IN  IF r.ok THEN Decoded(Str(s), [r.d EXCEPT !.strs = Append(@, s)]) ELSE None

decode_binary(d, lim) ==
    LET r == Sized(d, lim)
    IN  IF r.ok THEN Decoded(Str(base64_encode(r.v)), r.d) ELSE None

\* Faulty: a reference is free
decode_reference_free(d) ==
    LET n == read_7bit_int(d.rest)
    IN  IF n.ok /\ n.v < Len(d.strs)
        THEN Decoded(Str(d.strs[n.v + 1]), [d EXCEPT !.rest = n.rest])
        ELSE None

\* A reference to a string is charged by the text of the string.
decode_reference(d) ==
    LET n == read_7bit_int(d.rest)
        s == d.strs[n.v + 1]
    IN  IF n.ok /\ n.v < Len(d.strs) /\ Len(s) <= d.bytes
        THEN Decoded(Str(s), [d EXCEPT !.rest = n.rest, !.bytes = @ - Len(s)])
        ELSE None

\* A key that is not a string becomes its JSON text.
KeyOf(v) == IF v.t = "str" THEN v ELSE Json(v)

\* Entries are inserted in turn: a repeated key keeps its last value.
Entries(items) ==
    LET Insert(o, i) == {x \in o : x.k # KeyOf(items[2 * i - 1])}
                            \cup {[k |-> KeyOf(items[2 * i - 1]), v |-> items[2 * i]]}
    IN  FoldLeft(Insert, {}, [i \in 1..Len(items) \div 2 |-> i])

RECURSIVE decode_at(_, _, _), decode_items(_, _, _, _, _)

\* n values in turn, each with what the ones before it left.
decode_items(d, n, depth, lim, items) ==
    IF n = 0 THEN Decoded(items, d)
    ELSE LET r == decode_at(d, depth, lim)
         IN  IF r.ok THEN decode_items(r.d, n - 1, depth, lim, Append(items, r.v))
             ELSE None

decode_at(decoder, depth, lim) ==
    IF depth > lim.depth \/ decoder.nodes = 0 \/ decoder.rest = <<>> THEN None
    ELSE
    LET tag == Head(decoder.rest)
        d == [decoder EXCEPT !.nodes = @ - 1, !.rest = Tail(@)]
        count == read_7bit_int(d.rest)
        Items(n) == decode_items([d EXCEPT !.rest = count.rest], n, depth + 1, lim, <<>>)
        Collection(n, Value(_)) ==
            IF count.ok /\ count.v <= lim.items
            THEN LET r == Items(n) IN IF r.ok THEN Decoded(Value(r.v), r.d) ELSE None
            ELSE None
    IN
    CASE tag = 0 -> Decoded(Null, d)
      [] tag = 1 -> Fixed(d, WordBytes, LAMBDA b : Num(Signed(b)))
      [] tag \in {2, 10} -> Fixed(d, 2 * WordBytes, LAMBDA b : Num(read_i64(b)))
      [] tag = 3 -> Fixed(d, WordBytes, from_f64)
      [] tag = 4 -> Fixed(d, 2 * WordBytes, from_f64)
      [] tag = 5 -> decode_string(d, lim)
      [] tag = 6 -> Fixed(d, 1, LAMBDA b : Bool(b[1] = 1))
      [] tag = 7 -> decode_binary(d, lim)
      [] tag = 8 -> Collection(2 * count.v, LAMBDA items : Obj(Entries(items)))
      [] tag = 9 -> Collection(count.v, Arr)
      [] tag = 99 -> decode_reference(d)
      [] OTHER -> None

decode_with_limits(data, lim) == decode_at(Reader(data, lim), 0, lim)

-----------------------------------------------------------------------------
(* What a decoded value takes.                                              *)

\* The items directly inside a value.
Inside(v) ==
    CASE v.t = "arr" -> v.a
      [] v.t = "obj" -> FoldLeft(LAMBDA acc, x : acc \o <<x.k, x.v>>, <<>>, SetToSeq(v.o))
      [] OTHER -> <<>>

SumOf(s, Op(_)) == FoldLeft(LAMBDA acc, x : acc + Op(x), 0, s)

RECURSIVE NodesOf(_), TextOf(_), DepthOf(_)
NodesOf(v) == 1 + SumOf(Inside(v), NodesOf)
TextOf(v) == IF v.t = "str" THEN Len(v.s) ELSE SumOf(Inside(v), TextOf)
DepthOf(v) ==
    IF v.t \in {"arr", "obj"}
    THEN FoldLeft(LAMBDA acc, x : LET n == 1 + DepthOf(x) IN IF n > acc THEN n ELSE acc,
                  0, Inside(v))
    ELSE 0

-----------------------------------------------------------------------------
(* Properties, of a value v, or of a stream and limits.                     *)

\* Decoding what encode wrote gives the value back and reads all of it, with
\* strings that come up several times written as references.
RoundTrips(v, lim) ==
    LET r == decode_with_limits(encode(v), lim)
    IN  r.ok /\ r.v = v /\ r.d.rest = <<>>

\* How much longer than the bytes charged for it a text may be: base64 makes up to
\* four bytes of one, a replacement character three; other text does not grow.
Growth(data) ==
    CASE Contains(data, 7) -> 4
      [] \E i \in 1..Len(data) : data[i] >= 128 -> 3
      [] OTHER -> 1

\* However the stream repeats its strings and nests its collections, a decoded
\* value stays within the limits for nodes and depth, and its strings within the
\* limit for bytes times the growth of their text.  The JSON text of a key that
\* is not a string is charged nowhere, and not counted here.
WithinLimits(data, lim) ==
    LET r == decode_with_limits(data, lim)
    IN  r.ok => /\ NodesOf(r.v) <= lim.nodes
                /\ TextOf(r.v) <= Growth(data) * lim.total
                /\ DepthOf(r.v) <= lim.depth
=============================================================================
