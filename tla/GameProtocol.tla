----------------------------- MODULE GameProtocol -----------------------------
(***************************************************************************)
(* crypto.rs and protocol.rs: the packet a client builds, the masking of the *)
(* wire formats "x" and "lx", and the message read back.                    *)
(***************************************************************************)
EXTENDS BonCodec, Bitwise

CONSTANT MaskedPrefix    \* the bytes of an lx frame that are masked (100)

-----------------------------------------------------------------------------
(* encode_game_packet: an object written field by field, the body as binary. *)

\* The names of the fields, one byte each.
CmdKey == <<1>>
AckKey == <<2>>
SeqKey == <<3>>
TimeKey == <<4>>
BodyKey == <<5>>

\* body is a sequence of at most one value.
encode_game_packet(cmd, ack, seq, time, body) ==
    LET Field(k, v, e) == encode_value(v, encode_string(k, e))
        head == Put(EmptyEncoder, <<8>> \o write_7bit_int(4 + Len(body)))
        four == Field(TimeKey, Num(time), Field(SeqKey, Num(seq),
                   Field(AckKey, Num(ack), Field(CmdKey, Str(cmd), head))))
    IN  IF body = <<>> THEN four.out
        ELSE encode_binary(encode(body[1]), encode_string(BodyKey, four)).out

-----------------------------------------------------------------------------
(* The masks.  The mask is kept in every second bit of the bytes 3 and 4.   *)

XorAll(bytes, mask) == [i \in 1..Len(bytes) |-> bytes[i] ^^ mask]

Bit(n, i) == (n \div 2 ^ i) % 2

\* Four bits spread over the even bits of a byte.
Spread(byte, bits) ==
    (byte & 170) + 64 * Bit(bits, 3) + 16 * Bit(bits, 2) + 4 * Bit(bits, 1) + Bit(bits, 0)

\* magic is the second byte of the format.
Header(n, magic, mask) ==
    << 112, magic, Spread(n[3], mask \div 16), Spread(n[4], mask % 16) >>
        \o SubSeq(n, 5, Len(n))

\* XorCrypto::encrypt, with its four random bytes and its random mask.
x_encrypt(data, rnd, mask) == Header(XorAll(rnd \o data, mask), 120, mask)

\* Faulty: the two halves of the mask are swapped
extract_mask_swapped(data) ==
    LET Bits(b) == 8 * Bit(b, 6) + 4 * Bit(b, 4) + 2 * Bit(b, 2) + Bit(b, 0)
    IN  16 * Bits(data[4]) + Bits(data[3])

extract_mask(data) ==
    LET Bits(b) == 8 * Bit(b, 6) + 4 * Bit(b, 4) + 2 * Bit(b, 2) + Bit(b, 0)
    IN  16 * Bits(data[3]) + Bits(data[4])

x_decrypt(data) == XorAll(SubSeq(data, 5, Len(data)), extract_mask(data))

\* The LZ4 frame format: a magic number, and the content, here with its length.
FrameMagic == <<4, 34, 77, 24>>
compress(data) == FrameMagic \o <<Len(data)>> \o data
decompress(frame) ==
    IF Len(frame) > 4 /\ SubSeq(frame, 1, 4) = FrameMagic /\ Len(frame) = 5 + frame[5]
    THEN Some(SubSeq(frame, 6, Len(frame)), <<>>)
    ELSE None

\* The bytes from..MaskedPrefix masked.
MaskPrefix(n, from, mask) ==
    [i \in 1..Len(n) |-> IF i \in from..MaskedPrefix THEN n[i] ^^ mask ELSE n[i]]

lx_encrypt(data, mask) == Header(MaskPrefix(compress(data), 1, mask), 108, mask)

decrypt_lz4_checked(data, max) ==
    IF Len(data) < 4 THEN None
    ELSE LET n == MaskPrefix(data, 3, extract_mask(data))
             r == decompress(FrameMagic \o SubSeq(n, 5, Len(n)))
         IN  IF r.ok /\ Len(r.v) <= max THEN r ELSE None

\* The format is told by the first two bytes; anything else is plain.
try_auto_decrypt(data, max) ==
    LET magic == SubSeq(data, 1, 2)
    IN  CASE magic = <<112, 108>> -> decrypt_lz4_checked(data, max)
          [] magic = <<112, 120>> ->
                IF Len(data) < 4 \/ Len(data) - 4 > max THEN None
                ELSE Some(x_decrypt(data), <<>>)
          [] OTHER -> IF Len(data) > max THEN None ELSE Some(data, <<>>)

-----------------------------------------------------------------------------
(* parse_message and the accessors of a ProtoMsg.                           *)

parse_message(data, wire, max, lim) ==
    LET plain == try_auto_decrypt(data, max)
        r == decode_with_limits(plain.v, lim)
    IN  IF Len(data) <= wire /\ plain.ok /\ r.ok /\ r.v.t = "obj"
        THEN Some(r.v.o, <<>>)
        ELSE None

\* The value of a field, as a set of at most one.
Field(msg, key) == {x.v : x \in {x \in msg : x.k = Str(key)}}

\* A u32 field; one that is missing, no number or out of range is 0.
u32_of(msg, key) ==
    LET ns == {v \in Field(msg, key) : v.t = "num" /\ v.n \in 0..(WordBase - 1)}
    IN  IF ns = {} THEN 0 ELSE (CHOOSE v \in ns : TRUE).n

time_of(msg) ==
    LET ns == {v \in Field(msg, TimeKey) : v.t = "num"}
    IN  IF ns = {} THEN 0 ELSE (CHOOSE v \in ns : TRUE).n

cmd_of(msg) == {v.s : v \in {v \in Field(msg, CmdKey) : v.t = "str"}}

\* The place of a character in the base64 alphabet.
table(c) ==
    LET is == {i \in 0..63 : CHARS(i) = c}
    IN  IF is = {} THEN -1 ELSE CHOOSE i \in is : TRUE

RECURSIVE decode_chunks(_)
decode_chunks(q) ==
    IF q = <<>> THEN <<>>
    ELSE LET c == SubSeq(q, 1, IF Len(q) < 4 THEN Len(q) ELSE 4)
             bytes == << (c[1] * 4 + c[2] \div 16) % 256 >>
                 \o (IF Len(c) > 2 THEN << (c[2] * 16 + c[3] \div 4) % 256 >> ELSE <<>>)
                 \o (IF Len(c) > 3 THEN << (c[3] * 64 + c[4]) % 256 >> ELSE <<>>)
         IN  bytes \o decode_chunks(SubSeq(q, Len(c) + 1, Len(q)))

\* Padding is cut off; a foreign character or a single last one is an error.
base64_decode(s) ==
    LET end == Max({i \in 1..Len(s) : s[i] # Pad} \cup {0})
        cut == SubSeq(s, 1, end)
        q == [i \in 1..Len(cut) |-> table(cut[i])]
    IN  IF -1 \in Range(q) \/ Len(q) % 4 = 1 THEN None ELSE Some(decode_chunks(q), <<>>)

\* raw_data_result: the body, decoded, as a sequence of at most one value.
raw_data_result(msg, lim) ==
    LET body == Field(msg, BodyKey)
        b == CHOOSE v \in body : TRUE
        bytes == base64_decode(b.s)
        r == decode_with_limits(bytes.v, lim)
    IN  IF body = {} \/ b.t = "null" THEN Some(<<>>, <<>>)
        ELSE
        CASE b.t = "str" -> IF bytes.ok /\ r.ok THEN Some(<<r.v>>, <<>>) ELSE None
          [] b.t = "obj" -> Some(<<b>>, <<>>)
          [] OTHER -> None

-----------------------------------------------------------------------------
\* A packet of the client, masked by either format with any mask, is read back
\* with the same command, numbers, time and body: the body is itself encoded,
\* carried as binary, shown as base64, and decoded again.
PacketReadBack(p, wire, lim) ==
    LET data == encode_game_packet(p.cmd, p.ack, p.seq, p.time, p.body)
        sent == IF p.format = "x" THEN x_encrypt(data, p.rnd, p.mask)
                                  ELSE lx_encrypt(data, p.mask)
        r == parse_message(sent, wire, Len(data), lim)
        body == raw_data_result(r.v, lim)
    IN  /\ r.ok
        /\ cmd_of(r.v) = {p.cmd} /\ u32_of(r.v, AckKey) = p.ack
        /\ u32_of(r.v, SeqKey) = p.seq /\ time_of(r.v) = p.time
        /\ body.ok /\ body.v = p.body
=============================================================================
