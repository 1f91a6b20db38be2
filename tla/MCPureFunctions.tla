---------------------------- MODULE MCPureFunctions ----------------------------
(***************************************************************************)
(* The functions of the program over bounded inputs: each step gives one     *)
(* function an input, and the invariants say what it makes of it.            *)
(***************************************************************************)
EXTENDS GameProtocol, CaptureShapes, FunctionInputs

CONSTANTS chA, chB, chStar, chNewline, chGarbage

-----------------------------------------------------------------------------
\* Limits that no value below reaches, and tight ones.
WideLimits == [depth |-> 8, items |-> 50, value |-> 300, nodes |-> 100, total |-> 600]
TightLimits == [depth |-> 1, items |-> 3, value |-> 2, nodes |-> 4, total |-> 4]

\* Integers around the boundaries of one byte and two, without the negative
\* multiples of the word base, which write_i64 gets wrong.
Integers1 == {n \in -1030..1030 : ~(n < 0 /\ n % WordBase = 0 /\ ~FitsWord(n))}
\* Characters of one byte, two and four, and a text with a long length.
Texts == {<<>>, <<7>>, <<195, 168>>, <<240, 144, 128, 128, 7>>, [i \in 1..130 |-> 9]}
Scalars == {Null, Bool(TRUE), Bool(FALSE), Num(-3), Num(700), Float(<<1, 2>>)}
               \cup {Str(s) : s \in Texts}
Flat == {Arr(<<x, y>>) : x \in Scalars, y \in Scalars}
            \cup {Obj({[k |-> Str(s), v |-> x]}) : s \in Texts, x \in Scalars}
Nested == {Arr(<<x, y, x>>) : x \in {Str(<<7>>), Str(<<195, 168>>), Arr(<<>>)}, y \in Flat}
            \cup {Obj({[k |-> Str(<<7>>), v |-> x], [k |-> Str(<<>>), v |-> y]}) :
                    x \in Scalars, y \in Flat}
Values == {Num(n) : n \in Integers1} \cup Scalars \cup Flat \cup Nested

\* Every stream of at most five bytes of tags, small numbers and two bytes that are a
\* character in this order only; arrays of two values from six bytes, and of a string
\* and two more values.
Bytes == {0, 1, 2, 5, 7, 8, 9, 99, 195, 168}
Streams == UNION {[1..n -> Bytes] : n \in 0..5} \cup
    {<<9, 2>> \o s : s \in [1..6 -> {0, 1, 2, 5, 99, 195}]} \cup
    {<<9, 3, 5, 2>> \o s : s \in [1..6 -> {0, 1, 99, 195}]}

Packets ==
    [cmd : {<<7>>, AckKey}, ack : {0}, seq : {200}, time : {300}, body : {<<>>, <<Str(<<1, 7>>)>>},
     format : {"x", "lx"}, rnd : {<<0, 0, 0, 0>>, <<255, 171, 84, 3>>}, mask : 2..249]
    \cup
    [cmd : {BodyKey}, ack : {0, 127, 128, 255}, seq : {1, 255}, time : {0, 32767},
     body : {<<Num(n)>> : n \in 0..40} \cup {<<Arr(<<Str(<<7>>), x, Str(<<7>>)>>)>> : x \in Scalars},
     format : {"lx"}, rnd : {<<0, 0, 0, 0>>}, mask : {90}]

\* Sequences over S of at most n items.
UpTo(S, n) == UNION {[1..i -> S] : i \in 0..n}

Times == {[h |-> 0, m |-> 0], [h |-> 0, m |-> 59], [h |-> 1, m |-> 0], [h |-> 1, m |-> 1],
          [h |-> 23, m |-> 59]}
OneDay == [weekday : {5}, start : Times, end : Times]
\* The minutes around the borders of what is configured and what is meant.
Borders(ws) ==
    LET Of(list) == UNION {{Minutes(w.start), Minutes(w.end)} : w \in Range(list)}
    IN  UNION {{n - 1, n} : n \in Of(ws) \cup Of(Meant(ws))}
AnyDay == [weekday : {0, 6, 7}, start : {[h |-> 0, m |-> 0], [h |-> 1, m |-> 1]},
           end : {[h |-> 1, m |-> 0], [h |-> 24, m |-> 0], [h |-> 2, m |-> 60]}]

Goods == UpTo({1, 2, 3}, 3)
Lists == {<<>>, <<<<1, 1>>>>, <<<<1, 1>>, <<2, 2>>>>, <<<<2, 3>>, <<>>, <<1, 2>>, <<1, 3>>>>,
          <<<<1, 2>>, <<1, 1>>, <<3, 1>>>>}

\* Names: "uid", "U_i-D", "uids" and "x".
Uid == {<<117, 105, 100>>, <<85, 95, 105, 45, 68>>}
UidOnly == {<<117, 105, 100>>}
Other == {<<117, 105, 100, 115>>, <<120>>}
\* A place for a secret: under the name, inside wrappers from the inside out, each
\* an array (<<>>) or an object (its name), beside an item that is no secret.
Wrappers == UpTo({<<>>} \cup Other, 3)
RECURSIVE Wrapped(_, _, _)
Wrapped(w, v, beside) ==
    IF w = <<>> THEN v
    ELSE Wrapped(Tail(w),
                 IF Head(w) = <<>> THEN Arr(<<beside, v, Null, Bool(TRUE)>>)
                 ELSE Obj({[k |-> Str(Head(w)), v |-> v], [k |-> Str(<<121>>), v |-> beside]}),
                 beside)
Body(place, secret) ==
    Wrapped(place.wrappers, Obj({[k |-> Str(place.name), v |-> secret]}), place.beside)
Secrets == {Num(5), Str(<<9>>), Arr(<<Num(6), Null>>)}

-----------------------------------------------------------------------------
Start == [of |-> "start"]

Init == input = Start

GiveValue == \E v \in Values : input' = [of |-> "value", v |-> v]
GiveStream == \E s \in Streams : input' = [of |-> "stream", s |-> s]
GivePacket == \E p \in Packets : input' = [of |-> "packet", p |-> p]
GiveFilter ==
    \E p \in UpTo({chA, chB, chStar}, 5), v \in UpTo({chA, chB}, 4) :
        input' = [of |-> "filter", pattern |-> p, command |-> v]
GiveFile ==
    \E text \in UpTo({chA, chNewline, chGarbage}, 6) : \E ends \in SUBSET (1..(Len(text) - 1)) :
        input' = [of |-> "file", text |-> text, ends |-> ends, max |-> 3]
GiveWindows ==
    \E ws \in UpTo(OneDay, 2) \cup UpTo(AnyDay, 2) \cup {<<x, y, z>> : x, y, z \in
                {w \in OneDay : w.start.h < 2}} :
        input' = [of |-> "windows", ws |-> ws, minutes |-> Borders(ws)]
GiveBody ==
    \E name \in Uid, w \in Wrappers, x \in Scalars :
        input' = [of |-> "body", place |-> [name |-> name, wrappers |-> w, beside |-> x]]
GiveShop ==
    \E g1, g2 \in Goods, list \in Lists :
        input' = [of |-> "shop", goods |-> <<g1, g2>>, list |-> list]

Next ==
    /\ input = Start
    /\ \/ GiveValue \/ GiveStream \/ GivePacket \/ GiveFilter \/ GiveFile
       \/ GiveWindows \/ GiveBody \/ GiveShop

Spec == Init /\ [][Next]_input

-----------------------------------------------------------------------------
\* A value is decoded from what bon.rs wrote for it, and a packet of the client, in
\* either encryption, is understood by parse_message.
RoundTripsKept ==
    /\ input.of = "value" => RoundTrips(input.v, WideLimits)
    /\ input.of = "packet" => PacketReadBack(input.p, 400, WideLimits)

\* The decoder of bon.rs keeps to its limits on any stream.
DecodeBounded == input.of = "stream" => WithinLimits(input.s, TightLimits)

\* What the proxy shows of a body hides what is under a sensitive name.
BodiesRedacted ==
    input.of = "body" =>
        \A s1, s2 \in Secrets : SecretsHidden(LAMBDA s : Body(input.place, s), s1, s2)
=============================================================================
